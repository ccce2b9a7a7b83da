----------------------------- MODULE LoxTreewalk -----------------------------
(***************************************************************************)
(* The tree-walk interpreter of Lox                                        *)
(* (src/users/tazjin/rlox/src/treewalk/interpreter.rs).  Its state is a    *)
(* record m: envs, every environment ever made, a map of values with the   *)
(* position of its enclosing environment (0 for none); env, the position   *)
(* of the current one; out, what was printed.                              *)
(*                                                                         *)
(* Evaluation is one recursive walk over the program, as in the code; it   *)
(* returns a value, a `return' under way, an error, or the panic that ends *)
(* the program (tag), with the state it leaves.                            *)
(***************************************************************************)
EXTENDS LoxResolver

Clock == [type |-> "builtin", of |-> "clock"]

Initial ==
    [envs |-> <<[enclosing |-> 0, values |-> "clock" :> Clock]>>, env |-> 1, out |-> <<>>]

Ok(m, v) == [tag |-> "ok", value |-> v, m |-> m]
Stop(m, tag) == [tag |-> tag, value |-> Nil, m |-> m]

\* The `?' operator: an error, a return or a panic is passed on.
Try(r, Go(_, _)) == IF r.tag = "ok" THEN Go(r.m, r.value) ELSE r

DefineVar(m, env, x, v) ==
    [m EXCEPT !.envs[env].values = (x :> v) @@ @]

\* A new environment; the current one does not change.
NewEnv(m, enclosing) ==
    [m EXCEPT !.envs = Append(@, [enclosing |-> enclosing, values |-> [x \in {} |-> Nil]])]

\* A variable is read exactly depth environments outwards.
RECURSIVE Outwards(_, _, _)
Outwards(m, env, depth) ==
    IF depth = 0 \/ env = 0 THEN env ELSE Outwards(m, m.envs[env].enclosing, depth - 1)

GetVar(m, var) ==
    LET env == Outwards(m, m.env, var.depth)
    IN  IF var.depth = Unresolved THEN Stop(m, "error")
        ELSE IF env = 0 THEN Stop(m, "error")
        ELSE IF var.name \notin DOMAIN m.envs[env].values THEN Stop(m, "error")
        ELSE Ok(m, m.envs[env].values[var.name])

\* A variable is assigned in the innermost environment that has it now,
\* wherever the resolver found it.
RECURSIVE AssignVar(_, _, _, _)
AssignVar(m, env, x, v) ==
    IF x \in DOMAIN m.envs[env].values THEN Ok(DefineVar(m, env, x, v), v)
    ELSE IF m.envs[env].enclosing = 0 THEN Stop(m, "error")
    ELSE AssignVar(m, m.envs[env].enclosing, x, v)

IsLiteralValue(v) == v.type \in {"nil", "boolean", "number", "string"}

Truthy(v) ==
    IF v.type = "boolean" THEN v.of ELSE v.type \in {"number", "string"}

Numbers(l, r) == l.type = "number" /\ r.type = "number"

\* The operators.  Numbers are whole here, and only divided evenly.  The
\* code compares for `=', which the parser never makes an operator, so
\* there is no `=='.
BinaryOp(m, op, l, r) ==
    CASE op = "-" /\ Numbers(l, r) -> Ok(m, Number(l.of - r.of))
      [] op = "/" /\ Numbers(l, r) -> Ok(m, Number(l.of \div r.of))
      [] op = "*" /\ Numbers(l, r) -> Ok(m, Number(l.of * r.of))
      [] op = "+" /\ Numbers(l, r) -> Ok(m, Number(l.of + r.of))
      [] op = "+" /\ l.type = "string" /\ r.type = "string" -> Ok(m, String(l.of \o r.of))
      [] op = ">" /\ Numbers(l, r) -> Ok(m, Boolean(l.of > r.of))
      [] op = ">=" /\ Numbers(l, r) -> Ok(m, Boolean(l.of >= r.of))
      [] op = "<" /\ Numbers(l, r) -> Ok(m, Boolean(l.of < r.of))
      [] op = "<=" /\ Numbers(l, r) -> Ok(m, Boolean(l.of <= r.of))
      [] op = "!=" -> Ok(m, Boolean(l.type # r.type \/ (l.type = r.type /\ l.of # r.of)))
      [] OTHER -> Stop(m, "error")

RECURSIVE Eval(_, _), EvalArgs(_, _, _), InterpretStmt(_, _), InterpretStmts(_, _, _)

\* Both operands are unwrapped as literals before the operator is looked at.
EvalBinary(m, e) ==
    LET literal(r) == IF r.tag = "ok" /\ ~IsLiteralValue(r.value) THEN Stop(r.m, "panic") ELSE r
    IN  Try(literal(Eval(m, e.left)), LAMBDA n, l :
            Try(literal(Eval(n, e.right)), LAMBDA o, r : BinaryOp(o, e.op, l, r)))

EvalUnary(m, e) ==
    Try(Eval(m, e.right), LAMBDA n, v :
        CASE e.op = "-" /\ v.type = "number" -> Ok(n, Number(-v.of))
          [] e.op = "!" -> Ok(n, Boolean(~Truthy(v)))
          [] OTHER -> Stop(n, "error"))

\* Both sides are always evaluated.
EvalLogical(m, e) ==
    Try(Eval(m, e.left), LAMBDA n, l :
        Try(Eval(n, e.right), LAMBDA o, r :
            Ok(o, Boolean(IF e.op = "and" THEN Truthy(l) /\ Truthy(r) ELSE Truthy(l) \/ Truthy(r)))))

\* (Mutant: the environment is put back only if the block succeeded.)
Restored_OnSuccess(r, previous) ==
    IF r.tag = "ok" THEN [r EXCEPT !.m.env = previous] ELSE r

\* However a block ends, the environment it started from is current again.
Restored(r, previous) == [r EXCEPT !.m.env = previous]

\* A block in the environment env, or in a new one inside the current one.
InterpretBlockWithEnv(m, env, block) ==
    LET n == IF env = 0 THEN NewEnv(m, m.env) ELSE m
        k == IF env = 0 THEN Len(n.envs) ELSE env
    IN  Restored(InterpretStmts([n EXCEPT !.env = k], block, Nil), m.env)

EvalArgs(m, args, done) ==
    IF args = <<>> THEN Ok(m, done)
    ELSE Try(Eval(m, Head(args)), LAMBDA n, v : EvalArgs(n, Tail(args), Append(done, v)))

\* (Mutant: a function runs inside the environment of its caller.)
Enclosing_Caller(m, f) == m.env

\* The environment a call's own environment lies in.
Enclosing(m, f) == f.of.closure

\* A function runs in a new environment with its arguments.  A return
\* statement ends the call with its value.
CallFunction(m, f, args) ==
    LET params == f.of.func.params
        n == NewEnv(m, Enclosing(m, f))
        env == Len(n.envs)
        given == [x \in {params[i] : i \in DOMAIN params} |->
                    args[CHOOSE i \in DOMAIN params :
                            params[i] = x /\ \A j \in DOMAIN params : params[j] = x => j <= i]]
        r == InterpretBlockWithEnv([n EXCEPT !.envs[env].values = given], env, f.of.func.body)
    IN  IF r.tag = "return" THEN Ok(r.m, r.value) ELSE r

Arity(f) == IF f.type = "builtin" THEN 0 ELSE Len(f.of.func.params)

EvalCall(m, e) ==
    Try(Eval(m, e.callee), LAMBDA n, f :
        IF IsLiteralValue(f) THEN Stop(n, "error")
        ELSE Try(EvalArgs(n, e.args, <<>>), LAMBDA o, args :
            IF Len(args) # Arity(f) THEN Stop(o, "error")
            ELSE IF f.type = "builtin" THEN Ok(o, Number(Now))
            ELSE CallFunction(o, f, args)))

Eval(m, e) ==
    CASE e.node = "Literal" -> Ok(m, e.value)
      [] e.node = "Grouping" -> Eval(m, e.inner)
      [] e.node = "Variable" -> GetVar(m, e)
      [] e.node = "Assign" -> Try(Eval(m, e.value), LAMBDA n, v : AssignVar(n, n.env, e.name, v))
      [] e.node = "Unary" -> EvalUnary(m, e)
      [] e.node = "Binary" -> EvalBinary(m, e)
      [] e.node = "Logical" -> EvalLogical(m, e)
      [] e.node = "Call" -> EvalCall(m, e)

-----------------------------------------------------------------------------
\* A variable without an initialiser is an internal error.
InterpretVar(m, stmt) ==
    IF stmt.init = <<>> THEN Stop(m, "error")
    ELSE Try(Eval(m, stmt.init[1]), LAMBDA n, v : Ok(DefineVar(n, n.env, stmt.name, v), v))

InterpretFunction(m, func) ==
    LET f == [type |-> "function", of |-> [func |-> func, closure |-> m.env]]
    IN  Ok(DefineVar(m, m.env, func.name, f), f)

InterpretIf(m, stmt) ==
    Try(Eval(m, stmt.condition), LAMBDA n, c :
        IF Truthy(c) THEN InterpretStmt(n, stmt.yes) ELSE InterpretStmts(n, stmt.no, Nil))

RECURSIVE InterpretWhile(_, _, _)
InterpretWhile(m, stmt, value) ==
    Try(Eval(m, stmt.condition), LAMBDA n, c :
        IF ~Truthy(c) THEN Ok(n, value)
        ELSE Try(InterpretStmt(n, stmt.body), LAMBDA o, v : InterpretWhile(o, stmt, v)))

\* The text of a printed value is not modelled, only that it is a text.
Printed == String(<<"printed">>)

InterpretStmt(m, stmt) ==
    CASE stmt.node = "Expr" -> Eval(m, stmt.expr)
      [] stmt.node = "Print" ->
            Try(Eval(m, stmt.expr), LAMBDA n, v : Ok([n EXCEPT !.out = Append(@, v)], Printed))
      [] stmt.node = "Var" -> InterpretVar(m, stmt)
      [] stmt.node = "Block" -> InterpretBlockWithEnv(m, 0, stmt.body)
      [] stmt.node = "If" -> InterpretIf(m, stmt)
      [] stmt.node = "While" -> InterpretWhile(m, stmt, Nil)
      [] stmt.node = "Function" -> InterpretFunction(m, stmt)
      [] stmt.node = "Return" ->
            Try(Eval(m, stmt.expr), LAMBDA n, v : [tag |-> "return", value |-> v, m |-> n])

InterpretStmts(m, stmts, value) ==
    IF stmts = <<>> THEN Ok(m, value)
    ELSE Try(InterpretStmt(m, Head(stmts)), LAMBDA n, v : InterpretStmts(n, Tail(stmts), v))
=============================================================================
