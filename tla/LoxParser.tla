------------------------------ MODULE LoxParser ------------------------------
(***************************************************************************)
(* The parser of the tree-walk interpreter of Lox                          *)
(* (src/users/tazjin/rlox/src/treewalk/parser.rs).  A token is a string;   *)
(* names, string literals and numbers are told apart by the sets below,    *)
(* every other token is written as in Lox and "eof" is the last one of a   *)
(* source.  Line numbers and the wording of errors are left out.           *)
(*                                                                         *)
(* The parsing operators take the tokens t and the position i of the next  *)
(* one; they return what they parsed and the position behind it, or the    *)
(* error and the position where it was noticed.                            *)
(***************************************************************************)
EXTENDS Integers, Sequences

CONSTANTS Names,      \* tokens that are identifiers
          Quoted,     \* tokens that are string literals
          NumberOf,   \* number tokens -> the numbers they stand for
          Now         \* what the clock says

Nil == [type |-> "nil", of |-> 0]
Number(n) == [type |-> "number", of |-> n]
Boolean(b) == [type |-> "boolean", of |-> b]
String(s) == [type |-> "string", of |-> s]

\* The depth of a variable that has not been resolved.
Unresolved == -1

Fine(i, ast) == [tag |-> "ok", at |-> i, ast |-> ast]
Failed(i) == [tag |-> "error", at |-> i]

\* The `?' operator: go on with what was parsed, or return the error.
Then(r, Go(_, _)) == IF r.tag = "ok" THEN Go(r.at, r.ast) ELSE r

\* What was parsed must be followed by that token, which is consumed.
Closed(t, r, kind) ==
    Then(r, LAMBDA at, ast : IF t[at] = kind THEN Fine(at + 1, ast) ELSE Failed(at))

Consume(t, i, kind) == Closed(t, Fine(i, kind), kind)

Identifier(t, i) == IF t[i] \in Names THEN Fine(i + 1, t[i]) ELSE Failed(i)

\* The end of the source is never passed.
Advance(t, i) == IF t[i] = "eof" THEN i ELSE i + 1

LiteralOf(token) ==
    CASE token = "true" -> Boolean(TRUE)
      [] token = "false" -> Boolean(FALSE)
      [] token = "nil" -> Nil
      [] token \in Quoted -> String(<<token>>)
      [] OTHER -> Number(NumberOf[token])

IsLiteral(token) ==
    token \in {"true", "false", "nil"} \cup Quoted \cup DOMAIN NumberOf

\* The operators of each level of precedence, loosest first; "or" and
\* "and" make a Logical, the others a Binary.
Levels == << {"or"}, {"and"}, {"!=", "=="}, {">", ">=", "<", "<="},
             {"-", "+"}, {"/", "*"} >>

RECURSIVE Expression(_, _), Operators(_, _, _), Operands(_, _, _, _),
          UnaryOf(_, _), Calls(_, _, _), Arguments(_, _, _)

\* At the end of the source advance returns the token before: behind an
\* open parenthesis primary then calls itself until the stack overflows.
Primary(t, i) ==
    LET next == t[Advance(t, i) - 1]
        k == Advance(t, i)
    IN  CASE IsLiteral(next) -> Fine(k, [node |-> "Literal", value |-> LiteralOf(next)])
          [] next \in Names -> Fine(k, [node |-> "Variable", name |-> next, depth |-> Unresolved])
          [] next = "(" /\ t[i] = "eof" -> [tag |-> "panic", at |-> i]
          [] next = "(" /\ t[i] # "eof" ->
                Then(Closed(t, Expression(t, k), ")"), LAMBDA end, e :
                    Fine(end, [node |-> "Grouping", inner |-> e]))
          [] OTHER -> Failed(k)

Arguments(t, i, got) ==
    Then(Expression(t, i), LAMBDA at, e :
        IF t[at] = "," THEN Arguments(t, at + 1, Append(got, e))
        ELSE Fine(at, Append(got, e)))

FinishCall(t, i, callee) ==
    LET args == IF t[i] = ")" THEN Fine(i, <<>>) ELSE Arguments(t, i, <<>>)
    IN  Then(Closed(t, args, ")"), LAMBDA end, as :
            Fine(end, [node |-> "Call", callee |-> callee, args |-> as]))

Calls(t, i, callee) ==
    IF t[i] = "("
    THEN Then(FinishCall(t, i + 1, callee), LAMBDA at, call : Calls(t, at, call))
    ELSE Fine(i, callee)

UnaryOf(t, i) ==
    IF t[i] \in {"!", "-"}
    THEN Then(UnaryOf(t, i + 1), LAMBDA at, e :
            Fine(at, [node |-> "Unary", op |-> t[i], right |-> e]))
    ELSE Then(Primary(t, i), LAMBDA at, e : Calls(t, at, e))

\* The operands of one level, chained to the left.
Operands(t, i, level, left) ==
    IF t[i] \notin Levels[level] THEN Fine(i, left)
    ELSE Then(Operators(t, i + 1, level + 1), LAMBDA at, right :
            Operands(t, at, level,
                [node |-> IF level <= 2 THEN "Logical" ELSE "Binary",
                 left |-> left, op |-> t[i], right |-> right]))

Operators(t, i, level) ==
    IF level > Len(Levels) THEN UnaryOf(t, i)
    ELSE Then(Operators(t, i, level + 1), LAMBDA at, left : Operands(t, at, level, left))

\* Assignment: the left side is parsed as an expression first.
Expression(t, i) ==
    Then(Operators(t, i, 1), LAMBDA at, target :
        IF t[at] # "=" THEN Fine(at, target)
        ELSE Then(Expression(t, at + 1), LAMBDA end, value :
                IF target.node = "Variable"
                THEN Fine(end, [node |-> "Assign", name |-> target.name, value |-> value,
                                depth |-> Unresolved])
                ELSE Failed(end)))

-----------------------------------------------------------------------------
RECURSIVE Declaration(_, _), Statement(_, _), BlockStatement(_, _, _), Parameters(_, _, _)

\* An expression, the semicolon behind it, and the statement they make.
Terminated(t, i, node) ==
    Then(Closed(t, Expression(t, i), ";"), LAMBDA end, e :
        Fine(end, [node |-> node, expr |-> e]))

Parenthesised(t, i) ==
    Then(Consume(t, i, "("), LAMBDA at, paren : Closed(t, Expression(t, at), ")"))

Parameters(t, i, got) ==
    Then(Identifier(t, i), LAMBDA at, x :
        IF t[at] = "," THEN Parameters(t, at + 1, Append(got, x))
        ELSE Fine(at, Append(got, x)))

FunctionDecl(t, i) ==
    LET params(k) == IF t[k] = ")" THEN Fine(k, <<>>) ELSE Parameters(t, k, <<>>)
    IN  Then(Closed(t, Identifier(t, i), "("), LAMBDA a, name :
        Then(Closed(t, Closed(t, params(a), ")"), "{"), LAMBDA b, ps :
        Then(BlockStatement(t, b, <<>>), LAMBDA end, body :
            Fine(end, [node |-> "Function", name |-> name, params |-> ps, body |-> body]))))

VarDecl(t, i) ==
    LET initialiser(k) ==
            IF t[k] # "=" THEN Fine(k, <<>>)
            ELSE Then(Expression(t, k + 1), LAMBDA at, e : Fine(at, <<e>>))
    IN  Then(Identifier(t, i), LAMBDA a, name :
        Then(Closed(t, initialiser(a), ";"), LAMBDA end, init :
            Fine(end, [node |-> "Var", name |-> name, init |-> init])))

BlockStatement(t, i, got) ==
    IF t[i] \notin {"}", "eof"}
    THEN Then(Declaration(t, i), LAMBDA at, s : BlockStatement(t, at, Append(got, s)))
    ELSE Closed(t, Fine(i, got), "}")

BlockOf(stmts) == [node |-> "Block", body |-> stmts]

IfStatement(t, i) ==
    Then(Parenthesised(t, i), LAMBDA a, condition :
    Then(Statement(t, a), LAMBDA b, yes :
    Then(IF t[b] = "else" THEN Then(Statement(t, b + 1), LAMBDA k, s : Fine(k, <<s>>))
         ELSE Fine(b, <<>>), LAMBDA end, no :
        Fine(end, [node |-> "If", condition |-> condition, yes |-> yes, no |-> no]))))

WhileStatement(t, i) ==
    Then(Parenthesised(t, i), LAMBDA a, condition :
    Then(Statement(t, a), LAMBDA end, body :
        Fine(end, [node |-> "While", condition |-> condition, body |-> body])))

\* The body of a for loop, followed by its increment if it has one.
Stepped(body, step) ==
    IF step = <<>> THEN body
    ELSE BlockOf(<<body, [node |-> "Expr", expr |-> step[1]]>>)

\* A for loop is a while loop in a block of its own.
ForStatement(t, i) ==
    LET optional(k, stop) ==
            IF t[k] = stop THEN Fine(k, <<>>)
            ELSE Then(Expression(t, k), LAMBDA end, e : Fine(end, <<e>>))
        initialiser(k) ==
            CASE t[k] = ";" -> Fine(k + 1, <<>>)
              [] t[k] = "var" -> Then(VarDecl(t, k + 1), LAMBDA at, s : Fine(at, <<s>>))
              [] OTHER -> Then(Terminated(t, k, "Expr"), LAMBDA at, s : Fine(at, <<s>>))
        forever == [node |-> "Literal", value |-> Boolean(TRUE)]
    IN  Then(Consume(t, i, "("), LAMBDA a, lp :
        Then(initialiser(a), LAMBDA b, init :
        Then(Closed(t, optional(b, ";"), ";"), LAMBDA c, condition :
        Then(Closed(t, optional(c, ")"), ")"), LAMBDA d, step :
        Then(Statement(t, d), LAMBDA end, body :
            LET loop == [node |-> "While", body |-> Stepped(body, step),
                         condition |-> IF condition = <<>> THEN forever ELSE condition[1]]
            IN  Fine(end, IF init = <<>> THEN loop ELSE BlockOf(<<init[1], loop>>)))))))

Statement(t, i) ==
    CASE t[i] = "print" -> Terminated(t, i + 1, "Print")
      [] t[i] = "{" -> Then(BlockStatement(t, i + 1, <<>>), LAMBDA at, b : Fine(at, BlockOf(b)))
      [] t[i] = "if" -> IfStatement(t, i + 1)
      [] t[i] = "while" -> WhileStatement(t, i + 1)
      [] t[i] = "for" -> ForStatement(t, i + 1)
      [] t[i] = "return" -> Terminated(t, i + 1, "Return")
      [] OTHER -> Terminated(t, i, "Expr")

Declaration(t, i) ==
    CASE t[i] = "fun" -> FunctionDecl(t, i + 1)
      [] t[i] = "var" -> VarDecl(t, i + 1)
      [] OTHER -> Statement(t, i)

-----------------------------------------------------------------------------
StartOfStatement == {"class", "fun", "var", "for", "if", "while", "print", "return"}

\* After an error: skip to what looks like the start of a statement.
Synchronise(t, i) ==
    LET first == Advance(t, i)
    IN  CHOOSE k \in first..Len(t) :
            /\ t[k] = "eof" \/ t[k - 1] = ";" \/ t[k] \in StartOfStatement
            /\ \A j \in first..(k - 1) :
                t[j] # "eof" /\ t[j - 1] # ";" /\ t[j] \notin StartOfStatement

RECURSIVE ParseFrom(_, _, _, _)
ParseFrom(t, i, program, errors) ==
    LET r == Declaration(t, i)
    IN  CASE t[i] = "eof" -> [tag |-> IF errors = 0 THEN "ok" ELSE "error", program |-> program]
          [] t[i] # "eof" /\ r.tag = "panic" -> [tag |-> "panic", program |-> program]
          [] t[i] # "eof" /\ r.tag = "error" -> ParseFrom(t, Synchronise(t, r.at), program, errors + 1)
          [] OTHER -> ParseFrom(t, r.at, Append(program, r.ast), errors)

\* The program a source stands for; the program counts only if the tag is
\* "ok".
Parse(t) == ParseFrom(t, 1, <<>>, 0)
=============================================================================
