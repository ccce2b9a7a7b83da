------------------------------- MODULE Achilles -------------------------------
(***************************************************************************)
(* The achilles program (src/users/grfn/achilles/src/commands/,            *)
(* compiler.rs): it checks, evaluates or compiles an expression, or        *)
(* compiles a file, one declaration after the other in each pass.          *)
(***************************************************************************)
EXTENDS AchillesTypechecker, AchillesInterpreter, AchillesPasses, AchillesCodegen

Parser == INSTANCE AchillesParser

\* What a command reads of a text; what an expression leaves of it is not
\* looked at.
Read(c, lexemes) ==
    IF c = "compile" THEN Parser!toplevel(lexemes) ELSE Parser!expr(lexemes, 1)

CONSTANTS
    Parsed(_, _), \* Read, kept apart so that it can be evaluated once
    Texts(_),     \* the texts each command is given: [lexemes, meant], the
                  \* lexemes and the program they are meant to be
    Sources(_)    \* more programs, as they come out of the parser

VARIABLES
    command,  \* "check", "eval", "jit" (eval --jit) or "compile"
    text,     \* what was written, if the run starts with a text
    source,   \* an expression, or the declarations of a file
    phase,    \* what is done next
    left,     \* the declarations that phase has not come to
    s,        \* the type checker
    p,        \* the monomorphizing pass
    g,        \* the code generator
    hir,      \* the typed expression, or declarations
    answer    \* how the program ended

vars == <<command, text, source, phase, left, s, p, g, hir, answer>>

NoAnswer == [tag |-> "none"]
NoText == [lexemes |-> <<>>]

Init ==
    /\ command \in {"check", "eval", "jit", "compile"}
    /\ \/ text \in Texts(command) /\ source = <<>> /\ phase = "parse"
       \/ text = NoText /\ source \in Sources(command) /\ phase = "typecheck"
    /\ left = IF command = "compile" THEN source ELSE <<>>
    /\ s = Initial
    /\ p = PassInitial
    /\ g = CodegenInitial
    /\ hir = <<>>
    /\ answer = NoAnswer

End(result) == phase' = "ended" /\ answer' = result
Ended(tag) == End([tag |-> tag])

\* The text is parsed.
Parse ==
    /\ phase = "parse"
    /\ LET r == Parsed(command, text.lexemes)
       IN  IF r.tag = "ok"
           THEN /\ source' = r.of
                /\ left' = IF command = "compile" THEN r.of ELSE <<>>
                /\ phase' = "typecheck"
                /\ UNCHANGED answer
           ELSE Ended(r.tag) /\ UNCHANGED <<source, left>>
    /\ UNCHANGED <<command, text, s, p, g, hir>>

\* An expression is typechecked.
CheckExpr ==
    /\ command # "compile" /\ phase = "typecheck"
    /\ LET r == TypecheckExpr(source)
       IN  IF r.tag = "ok"
           THEN /\ s' = r.s /\ hir' = <<r.of>>
                /\ phase' = command
                /\ UNCHANGED answer
           ELSE Ended(r.tag) /\ UNCHANGED <<s, hir>>
    /\ UNCHANGED <<command, text, source, left, p, g>>

\* `check' prints its type.
PrintType ==
    /\ phase = "check"
    /\ End([tag |-> "ok", type |-> hir[1].type])
    /\ UNCHANGED <<command, text, source, left, s, p, g, hir>>

\* `eval' interprets it.
Interpret ==
    /\ phase = "eval"
    /\ End(Interpreted(hir[1]))
    /\ UNCHANGED <<command, text, source, left, s, p, g, hir>>

\* `eval --jit' generates a function called test, and then looks for one
\* called eval.
JitEval ==
    /\ phase = "jit"
    /\ LET r == CodegenFunction(g, "test", <<>>, hir[1])
       IN  IF r.tag # "ok" THEN Ended(r.tag) /\ UNCHANGED g
           ELSE /\ g' = r.g
                /\ IF GetFunction(r.g, "eval") = {} THEN Ended("panic") ELSE End(Executed(r.g, "eval"))
    /\ UNCHANGED <<command, text, source, left, s, p, hir>>

-----------------------------------------------------------------------------
\* A phase takes the next declaration; after the last one, the next phase
\* starts over with the declarations that this one left.
Takes(which) == command = "compile" /\ phase = which /\ left # <<>>
Passed(which) == command = "compile" /\ phase = which /\ left = <<>>

NextPhase(which, decls) == phase' = which /\ left' = decls /\ hir' = <<>>

TypecheckNext ==
    /\ Takes("typecheck")
    /\ LET r == TypecheckDecl(s, Head(left))
       IN  IF r.tag = "ok"
           THEN s' = r.s /\ hir' = hir \o r.of /\ left' = Tail(left) /\ UNCHANGED <<phase, answer>>
           ELSE Ended(r.tag) /\ UNCHANGED <<s, hir, left>>
    /\ UNCHANGED <<command, text, source, p, g>>

Typechecked ==
    /\ Passed("typecheck")
    /\ NextPhase("monomorphize", hir)
    /\ UNCHANGED <<command, text, source, s, p, g, answer>>

MonomorphizeNext ==
    /\ Takes("monomorphize")
    /\ LET r == MonoDecl(p, Head(left))
       IN  IF r.tag = "ok"
           THEN p' = r.p /\ hir' = Append(hir, r.of) /\ left' = Tail(left) /\ UNCHANGED <<phase, answer>>
           ELSE Ended(r.tag) /\ UNCHANGED <<p, hir, left>>
    /\ UNCHANGED <<command, text, source, s, g>>

MonomorphizeEnd ==
    /\ Passed("monomorphize")
    /\ NextPhase("strip", Monomorphized(p, hir))
    /\ UNCHANGED <<command, text, source, s, p, g, answer>>

StripNext ==
    /\ Takes("strip")
    /\ hir' = Append(hir, StripDecl(Head(left)))
    /\ left' = Tail(left)
    /\ UNCHANGED <<command, text, source, phase, s, p, g, answer>>

StripEnd ==
    /\ Passed("strip")
    /\ phase' = "codegen" /\ left' = hir
    /\ UNCHANGED <<command, text, source, s, p, g, hir, answer>>

CodegenNext ==
    /\ Takes("codegen")
    /\ LET r == CodegenDecl(g, Head(left))
       IN  IF r.tag = "ok"
           THEN g' = r.g /\ left' = Tail(left) /\ UNCHANGED <<phase, answer>>
           ELSE Ended(r.tag) /\ UNCHANGED <<g, left>>
    /\ UNCHANGED <<command, text, source, s, p, hir>>

\* The module is written, and is what the file was compiled to.
Write ==
    /\ Passed("codegen")
    /\ Ended("ok")
    /\ UNCHANGED <<command, text, source, left, s, p, g, hir>>

Stopped == phase = "ended" /\ UNCHANGED vars

Next == \/ Parse \/ CheckExpr \/ PrintType \/ Interpret \/ JitEval
        \/ TypecheckNext \/ Typechecked \/ MonomorphizeNext \/ MonomorphizeEnd
        \/ StripNext \/ StripEnd \/ CodegenNext \/ Write
        \/ Stopped

Spec == Init /\ [][Next]_vars
================================================================================
