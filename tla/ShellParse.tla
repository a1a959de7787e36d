----------------------------- MODULE ShellParse -----------------------------
(***************************************************************************)
(* The parser of the shell (shell/parsing.c, createcmd.c, utils.c): from   *)
(* the tokens of a line to the command that exec_cmd runs.                 *)
(*                                                                         *)
(* A token is a record: the field t is its kind, the field v the word, the *)
(* file, the variable or the value it holds.  PIPE nodes nest to the       *)
(* right, so a command is the sequence of its stages: a sequence of one    *)
(* stage is the EXEC, REDIR or BACK node itself, and <<a, b, c>> is        *)
(* PIPE(a, PIPE(b, c)).                                                    *)
(*                                                                         *)
(* Lines that the C code does not handle (a stage without a program, a     *)
(* line that begins with '|' or '&') are left out, and so are the bounds   *)
(* of the buffers.                                                         *)
(***************************************************************************)
EXTENDS Integers, Sequences, SequencesExt

Barra     == [t |-> "|",    v |-> "" ]
Ampersand == [t |-> "&",    v |-> "" ]
ErrASal   == [t |-> "2>&1", v |-> "" ]
Palabra(w) == [t |-> "palabra", v |-> w]
Entrada(f) == [t |-> "<",  v |-> f]
Salida(f)  == [t |-> ">",  v |-> f]
Error(f)   == [t |-> "2>", v |-> f]
Resultado     == [t |-> "$?", v |-> ""]
Variable(n)   == [t |-> "$", v |-> n]
Asigna(n, x)  == [t |-> "=", n |-> n, v |-> x]

\* Mistake: the first redirection stays.
UltimoPrimero(toks, tipos) ==
    LET k == SelectInSeq(toks, LAMBDA x : x.t \in tipos)
    IN  IF k = 0 THEN "" ELSE toks[k].v

\* The value of the last token of one of these kinds, "" when there is none:
\* each one overwrites the name an earlier one left in the execcmd.
Ultimo(toks, tipos) ==
    LET k == SelectLastInSeq(toks, LAMBDA x : x.t \in tipos)
    IN  IF k = 0 THEN "" ELSE toks[k].v

\* parse_redir_flow on "2>&1" copies the name that out_file has by then.
ErrFile(toks) ==
    LET k == SelectLastInSeq(toks, LAMBDA x : x.t \in {"2>", "2>&1"})
    IN  IF k = 0 THEN ""
        ELSE IF toks[k].t = "2>" THEN toks[k].v
        ELSE Ultimo(SubSeq(toks, 1, k - 1), {">"})

\* The text of a token that is an argument: '$?' is the last status and '$N' the
\* value of N in the environment, empty when there is no such variable.
ExpandEnvironVar(tok, status, environ) ==
    CASE tok.t = "$?" -> ToString(status)
      [] tok.t = "$"  -> IF tok.v \in DOMAIN environ THEN environ[tok.v] ELSE ""
      [] OTHER        -> tok.v

\* What is at the positions J of s, in their order: the loops of the parser go
\* over the tokens and append to an array.
EnOrden(s, J) ==
    LET hasta[k \in 0 .. Len(s)] ==
            IF k = 0 THEN <<>>
            ELSE IF k \in J THEN Append(hasta[k - 1], s[k]) ELSE hasta[k - 1]
    IN  hasta[Len(s)]

De(toks, tipos) == {k \in DOMAIN toks : toks[k].t \in tipos}
Argumentos == {"palabra", "$", "$?"}

Textos(toks, status, environ) ==
    [k \in DOMAIN toks |-> ExpandEnvironVar(toks[k], status, environ)]

\* Mistake: an empty value is an argument all the same.
ArgvConVacios(toks, status, environ) ==
    EnOrden(Textos(toks, status, environ), De(toks, Argumentos))

\* parse_exec: the tokens that are neither a redirection nor a KEY=VALUE, and
\* not empty once expanded.
Argv(toks, status, environ) ==
    LET textos == Textos(toks, status, environ)
    IN  EnOrden(textos, {k \in De(toks, Argumentos) : textos[k] # ""})

\* exec_cmd_create and parse_exec
ParseExec(toks, status, environ) ==
    [argv     |-> Argv(toks, status, environ),
     eargv    |-> EnOrden(toks, De(toks, {"="})),
     redir    |-> De(toks, {"<", ">", "2>", "2>&1"}) # {},
     in_file  |-> Ultimo(toks, {"<"}),
     out_file |-> Ultimo(toks, {">"}),
     err_file |-> ErrFile(toks),
     back     |-> FALSE]

\* back_cmd_create
BackCmdCreate(c) == [c EXCEPT !.back = TRUE]

\* pipe_cmd_create, which gives the left command when there is no right one.
PipeCmdCreate(left, right) == <<left>> \o right

\* parse_cmd looks at the first '&' only, be it of a "2>&1"; parse_back cuts the
\* text there.  Of no text it makes no command.
ParseCmd(toks, status, environ) ==
    LET k == SelectInSeq(toks, LAMBDA x : x.t \in {"&", "2>&1"})
    IN  IF toks = <<>> THEN <<>>
        ELSE IF k > 0 /\ toks[k].t = "&"
        THEN <<BackCmdCreate(ParseExec(SubSeq(toks, 1, k - 1), status, environ))>>
        ELSE <<ParseExec(toks, status, environ)>>

\* split_line: what comes before the first '|' and what comes after it.
SplitLine(toks) ==
    LET b == SelectInSeq(toks, LAMBDA x : x.t = "|")
    IN  IF b = 0 THEN <<toks, <<>>>>
        ELSE <<SubSeq(toks, 1, b - 1), SubSeq(toks, b + 1, Len(toks))>>

\* parse_line, from token i on.  What follows the first '|' is parsed as a line
\* only when it has a '|' and does not begin with it.
ParseLine(toks, status, environ) ==
    LET linea[i \in 1 .. Len(toks) + 1] ==
            LET partes == SplitLine(SubSeq(toks, i, Len(toks)))
                d == Len(toks) + 1 - Len(partes[2])
                r == IF SelectInSeq(partes[2], LAMBDA x : x.t = "|") > 1 THEN linea[d]
                     ELSE ParseCmd(partes[2], status, environ)
            IN  PipeCmdCreate(ParseCmd(partes[1], status, environ)[1], r)
    IN  linea[1]
=============================================================================
