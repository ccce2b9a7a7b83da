----------------------------- MODULE LoxCompiler -----------------------------
(***************************************************************************)
(* The single-pass compiler of the bytecode interpreter of Lox             *)
(* (src/users/tazjin/rlox/src/bytecode/compiler.rs).  Its state is a       *)
(* record c: at, the position of the current token; code and constants,    *)
(* the chunk; strings, the interner; locals and depth, the locals of the   *)
(* open scopes; panic and errors, the recovery from syntax errors; tag,    *)
(* "ok" until an error is returned or the program panics.  An instruction  *)
(* is [op, arg]; stack and constant indices are counted from 1 here.       *)
(* Line numbers are left out.                                              *)
(***************************************************************************)
EXTENDS LoxParser

\* The depth of a local whose initialiser is still being compiled.
Uninitialised == -1

CompilerState(t) ==
    [t |-> t, at |-> 0, code |-> <<>>, constants |-> <<>>, strings |-> <<>>,
     locals |-> <<>>, depth |-> 0, panic |-> FALSE, errors |-> 0, tag |-> "ok"]

\* Steps of the compiler follow one another unless one of them failed.
Do(c, Step(_)) == IF c.tag = "ok" THEN Step(c) ELSE c

Crash(c) == [c EXCEPT !.tag = "panic"]
Return(c) == [c EXCEPT !.tag = "error"]

NextToken(c) == [c EXCEPT !.at = @ + 1]
HasCurrent(c) == c.at \in 1..Len(c.t)
Current(c) == c.t[c.at]
Previous(c) == c.t[c.at - 1]

\* Looking at the current token when there is none is a panic.
Peek(c, Step(_)) == IF HasCurrent(c) THEN Step(c) ELSE Crash(c)

\* Only the first error until the next synchronisation is kept.
ErrorAt(c) ==
    IF c.panic THEN c ELSE [c EXCEPT !.panic = TRUE, !.errors = @ + 1]

ConsumeIn(c, kinds) ==
    Peek(c, LAMBDA d : IF Current(d) \in kinds THEN NextToken(d) ELSE ErrorAt(d))

Expect(c, kind) == Do(c, LAMBDA d : ConsumeIn(d, {kind}))

EmitOp(c, op, arg) == [c EXCEPT !.code = Append(@, [op |-> op, arg |-> arg])]

EmitConstant(c, v) == [c EXCEPT !.constants = Append(@, v)]

\* The interner keeps one copy of each string and hands out its position.
Intern(c, x) ==
    IF \E i \in DOMAIN c.strings : c.strings[i] = x THEN c
    ELSE [c EXCEPT !.strings = Append(@, x)]

IdOf(c, x) == CHOOSE i \in DOMAIN c.strings : c.strings[i] = x

\* An interned string as a constant; a string made at run time is
\* [heap |-> its characters] instead.
StringConstant(c, x) ==
    LET d == Intern(c, x)
    IN  EmitConstant(d, [type |-> "string", of |-> [interned |-> IdOf(d, x)]])

\* (Mutant: a jump lands on the instruction before.)
PatchJump_Short(c, idx) ==
    [c EXCEPT !.code[idx] = [op |-> IF @.arg THEN "Jump" ELSE "JumpIfFalse",
                             arg |-> Len(c.code) - idx - 1]]

\* The jump emitted at idx leads to the end of the code; the placeholder
\* says whether it is unconditional.
PatchJump(c, idx) ==
    [c EXCEPT !.code[idx] = [op |-> IF @.arg THEN "Jump" ELSE "JumpIfFalse",
                             arg |-> Len(c.code) - idx]]

-----------------------------------------------------------------------------
(* Locals. *)

\* The innermost local of that name, 0 when there is none.
LocalNamed(c, x) ==
    LET found == {i \in DOMAIN c.locals : c.locals[i].name = x}
    IN  IF found = {} THEN 0 ELSE CHOOSE i \in found : \A j \in found : j <= i

\* A name may be declared once in each scope; a local that is still being
\* initialised counts as one of the current scope.
DeclareVariable(c, x) ==
    LET outer == {i \in DOMAIN c.locals : c.locals[i].depth # Uninitialised
                                          /\ c.locals[i].depth < c.depth}
        shadowed == \E i \in DOMAIN c.locals :
                        /\ c.locals[i].name = x
                        /\ \A j \in outer : j < i
    IN  CASE c.depth = 0 -> c
          [] c.depth > 0 /\ shadowed -> Return(c)
          [] OTHER -> [c EXCEPT !.locals = Append(@, [name |-> x, depth |-> Uninitialised])]

\* The value of the variable is on the stack now: a global is taken from
\* there, a local stays.
DefineVariable(c, global) ==
    IF c.depth = 0 THEN EmitOp(c, "DefineGlobal", global)
    ELSE [c EXCEPT !.locals[Len(c.locals)].depth = c.depth]

OpenScope(c) == [c EXCEPT !.depth = @ + 1]

\* Ending a scope pops the values of its locals.
CloseScope(c) ==
    LET kept == {i \in DOMAIN c.locals : c.locals[i].depth <= c.depth - 1}
        n == IF kept = {} THEN 0 ELSE CHOOSE i \in kept : \A j \in kept : j <= i
    IN  [c EXCEPT !.depth = @ - 1,
                  !.locals = SubSeq(@, 1, n),
                  !.code = @ \o [i \in 1..(Len(c.locals) - n) |-> [op |-> "Pop", arg |-> 0]]]

-----------------------------------------------------------------------------
(* Expressions: a Pratt parser. *)

\* The precedences, loosest first, by their position.
Assignment == 2
Precedence(token) ==
    CASE token \in {"!=", "=="} -> 5
      [] token \in {">", ">=", "<", "<="} -> 6
      [] token \in {"-", "+"} -> 7
      [] token \in {"/", "*"} -> 8
      [] OTHER -> 1
UnaryPrecedence == 9

OperatorCode(token) ==
    CASE token = "-" -> <<"Subtract">>  [] token = "+" -> <<"Add">>
      [] token = "*" -> <<"Multiply">>  [] token = "/" -> <<"Divide">>
      [] token = "==" -> <<"Equal">>    [] token = "!=" -> <<"Equal", "Not">>
      [] token = ">" -> <<"Greater">>   [] token = ">=" -> <<"Less", "Not">>
      [] token = "<" -> <<"Less">>      [] token = "<=" -> <<"Greater", "Not">>

RECURSIVE EmitOps(_, _)
EmitOps(c, ops) ==
    IF ops = <<>> THEN c ELSE EmitOps(EmitOp(c, Head(ops), 0), Tail(ops))

RECURSIVE ParsePrecedence(_, _), Infixes(_, _)

CompileExpression(c) == Do(c, LAMBDA d : ParsePrecedence(d, Assignment))

\* A literal; numbers and strings are constants of the chunk.
CompileLiteral(c, token) ==
    LET d == IF token \in Quoted THEN StringConstant(c, token)
             ELSE EmitConstant(c, LiteralOf(token))
    IN  CASE token = "nil" -> EmitOp(c, "Nil", 0)
          [] token = "true" -> EmitOp(c, "True", 0)
          [] token = "false" -> EmitOp(c, "False", 0)
          [] OTHER -> EmitOp(d, "Constant", Len(d.constants))

\* A variable, or the assignment to it if `=' follows, whatever stands
\* before it.  A local cannot be read in its own initialiser.
CompileVariable(c, x) ==
    LET i == LocalNamed(c, x)
        d == IF i = 0 THEN StringConstant(c, x) ELSE c
        target == IF i = 0 THEN Len(d.constants) ELSE i
        where == IF i = 0 THEN "Global" ELSE "Local"
        ops(verb) == CASE verb = "Get" /\ where = "Global" -> "GetGlobal"
                       [] verb = "Get" /\ where = "Local" -> "GetLocal"
                       [] verb = "Set" /\ where = "Global" -> "SetGlobal"
                       [] OTHER -> "SetLocal"
        assigned(e) == EmitOp(e, ops("Set"), target)
        read(e) ==
            IF Current(e) = "=" THEN Do(CompileExpression(NextToken(e)), assigned)
            ELSE EmitOp(e, ops("Get"), target)
    IN  IF i # 0 /\ c.locals[i].depth = Uninitialised THEN Crash(c)
        ELSE Peek(d, read)

CompileUnary(c, op) ==
    Do(ParsePrecedence(c, UnaryPrecedence), LAMBDA d :
        EmitOp(d, IF op = "!" THEN "Not" ELSE "Negate", 0))

\* What may start an expression; anything else is a panic.
Prefix(c, token) ==
    CASE IsLiteral(token) -> CompileLiteral(c, token)
      [] token \in Names -> CompileVariable(c, token)
      [] token = "(" -> Expect(CompileExpression(c), ")")
      [] token \in {"-", "!"} -> CompileUnary(c, token)
      [] OTHER -> Crash(c)

\* The right operand of an operator binds tighter than the operator.
RightOf(op) == Precedence(op) + 1

\* The operators behind an operand, as long as they bind at least that
\* tightly.
Infixes(c, p) ==
    LET operator(d) ==
            IF p > Precedence(Current(d)) THEN d
            ELSE LET op == Current(d)
                     e == Do(ParsePrecedence(NextToken(d), RightOf(op)),
                             LAMBDA x : EmitOps(x, OperatorCode(op)))
                 IN  Do(e, LAMBDA x : Infixes(x, p))
    IN  Peek(c, operator)

ParsePrecedence(c, p) ==
    LET d == NextToken(c)
        started == IF d.at - 1 \in 1..Len(d.t) THEN Prefix(d, Previous(d)) ELSE Crash(d)
    IN  Do(started, LAMBDA e : Infixes(e, p))

-----------------------------------------------------------------------------
(* Statements. *)
RECURSIVE CompileStatement(_), CompileDeclaration(_), CompileBlock(_)

Matches(c, token) == HasCurrent(c) /\ Current(c) = token

\* A global's name is a constant; a local is declared, without a value yet.
ParseVariable(c) ==
    LET d == ConsumeIn(c, Names)
        x == Previous(d)
        e == DeclareVariable(d, x)
    IN  CASE d.tag # "ok" \/ e.tag # "ok" -> IF d.tag # "ok" THEN d ELSE e
          [] OTHER -> IF e.depth > 0 THEN e
                      ELSE IF x \in Names THEN StringConstant(e, x) ELSE Return(e)

VarDeclaration(c) ==
    Do(ParseVariable(c), LAMBDA d :
        LET global == Len(d.constants)
            init == Peek(d, LAMBDA e : IF Current(e) = "=" THEN CompileExpression(NextToken(e))
                                       ELSE EmitOp(e, "Nil", 0))
        IN  Do(Expect(init, ";"), LAMBDA e : DefineVariable(e, global)))

IfStatementCode(c) ==
    Do(Expect(CompileExpression(Expect(c, "(")), ")"), LAMBDA d :
        LET thenJump == Len(d.code) + 1
            yes == CompileStatement(EmitOp(EmitOp(d, "Placeholder", FALSE), "Pop", 0))
        IN  Do(yes, LAMBDA e :
                LET elseJump == Len(e.code) + 1
                    f == EmitOp(PatchJump(EmitOp(e, "Placeholder", TRUE), thenJump), "Pop", 0)
                    no == Peek(f, LAMBDA g : IF Current(g) = "else" THEN CompileStatement(NextToken(g))
                                             ELSE g)
                IN  Do(no, LAMBDA g : PatchJump(g, elseJump))))

CompileBlock(c) ==
    Peek(c, LAMBDA d :
        IF Current(d) \in {"}", "eof"} THEN ConsumeIn(d, {"}"})
        ELSE Do(CompileDeclaration(d), LAMBDA e : CompileBlock(e)))

\* The value of an expression statement stays on the stack.
CompileStatement(c) ==
    Peek(c, LAMBDA d :
        CASE Current(d) = "print" ->
                Do(Expect(CompileExpression(NextToken(d)), ";"), LAMBDA e : EmitOp(e, "Print", 0))
          [] Current(d) = "if" -> IfStatementCode(NextToken(d))
          [] Current(d) = "{" ->
                Do(CompileBlock(OpenScope(NextToken(d))), LAMBDA e : CloseScope(e))
          [] OTHER -> Expect(CompileExpression(d), ";"))

\* After a syntax error: skip to what looks like the start of a statement.
RECURSIVE Resynchronise(_)
Resynchronise(c) ==
    Peek(c, LAMBDA d :
        IF \/ Current(d) = "eof"
           \/ Previous(d) = ";"
           \/ Current(d) \in StartOfStatement
        THEN d ELSE Resynchronise(NextToken(d)))

CompileDeclaration(c) ==
    LET d == IF Matches(c, "var") THEN VarDeclaration(NextToken(c)) ELSE CompileStatement(c)
    IN  Do(d, LAMBDA e : IF e.panic THEN Resynchronise([e EXCEPT !.panic = FALSE]) ELSE e)

RECURSIVE CompileAll(_)
CompileAll(c) ==
    Peek(c, LAMBDA d :
        IF Current(d) = "eof" THEN EmitOp(NextToken(d), "Return", 0)
        ELSE Do(CompileDeclaration(d), LAMBDA e : CompileAll(e)))

\* The compiled source; errors that were collected fail it as a whole.
Compile(t) ==
    Do(CompileAll(NextToken(CompilerState(t))), LAMBDA c :
        IF c.errors > 0 THEN Return(c) ELSE c)
=============================================================================
