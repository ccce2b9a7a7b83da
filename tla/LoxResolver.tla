----------------------------- MODULE LoxResolver -----------------------------
(***************************************************************************)
(* The resolver of the tree-walk interpreter                               *)
(* (src/users/tazjin/rlox/src/treewalk/resolver.rs): it notes at every     *)
(* variable how many environments outwards its value will be found.  The   *)
(* scopes are a stack of functions: name -> has it been initialised.       *)
(***************************************************************************)
EXTENDS LoxParser, TLC

BeginScope(scopes) == Append(scopes, [x \in {} |-> TRUE])

EndScope(scopes) == SubSeq(scopes, 1, Len(scopes) - 1)

Mark(scopes, x, ready) ==
    IF scopes = <<>> THEN scopes
    ELSE [scopes EXCEPT ![Len(scopes)] = (x :> ready) @@ @]

Declare(scopes, x) == Mark(scopes, x, FALSE)
Define(scopes, x) == Mark(scopes, x, TRUE)

\* How far out the innermost scope with the name is.
ResolveLocal(scopes, x) ==
    LET found == {c \in 1..Len(scopes) : x \in DOMAIN scopes[c]}
    IN  IF found = {} THEN Unresolved
        ELSE Len(scopes) - (CHOOSE c \in found : \A d \in found : d <= c)

\* An expression declares nothing: what is returned is the expression, or
\* the error that a variable is read in its own initialiser.
RECURSIVE ResolveExpr(_, _)
ResolveExpr(s, e) ==
    LET part(r, Go(_)) == IF r.tag = "ok" THEN Go(r.ast) ELSE r
        ok(ast) == [tag |-> "ok", ast |-> ast]
        RECURSIVE all(_, _)
        all(es, done) ==
            IF es = <<>> THEN ok(done)
            ELSE part(ResolveExpr(s, Head(es)), LAMBDA x : all(Tail(es), Append(done, x)))
        own == /\ s # <<>>
               /\ e.name \in DOMAIN s[Len(s)]
               /\ ~s[Len(s)][e.name]
    IN  CASE e.node = "Variable" ->
                IF own THEN [tag |-> "error"] ELSE ok([e EXCEPT !.depth = ResolveLocal(s, e.name)])
          [] e.node = "Assign" ->
                part(ResolveExpr(s, e.value), LAMBDA v :
                    ok([e EXCEPT !.value = v, !.depth = ResolveLocal(s, e.name)]))
          [] e.node = "Grouping" ->
                part(ResolveExpr(s, e.inner), LAMBDA x : ok([e EXCEPT !.inner = x]))
          [] e.node = "Unary" ->
                part(ResolveExpr(s, e.right), LAMBDA x : ok([e EXCEPT !.right = x]))
          [] e.node = "Call" ->
                part(ResolveExpr(s, e.callee), LAMBDA f :
                    part(all(e.args, <<>>), LAMBDA as :
                        ok([e EXCEPT !.callee = f, !.args = as])))
          [] e.node \in {"Binary", "Logical"} ->
                part(ResolveExpr(s, e.left), LAMBDA l :
                    part(ResolveExpr(s, e.right), LAMBDA r :
                        ok([e EXCEPT !.left = l, !.right = r])))
          [] OTHER -> ok(e)

\* A statement may declare: the scopes are returned with it (as `at').
RECURSIVE ResolveStmt(_, _), ResolveStmts(_, _, _)

\* An expression resolved in the scopes s, which it leaves alone.
ResolveIn(s, e) ==
    LET r == ResolveExpr(s, e) IN IF r.tag = "ok" THEN Fine(s, r.ast) ELSE Failed(s)

ResolveStmts(s, stmts, done) ==
    IF stmts = <<>> THEN Fine(s, done)
    ELSE Then(ResolveStmt(s, Head(stmts)), LAMBDA t, x :
            ResolveStmts(t, Tail(stmts), Append(done, x)))

\* A block has a scope of its own.
ResolveBlock(s, stmts) ==
    Then(ResolveStmts(BeginScope(s), stmts, <<>>), LAMBDA t, b : Fine(EndScope(t), b))

\* A variable is declared, its initialiser resolved, and then defined.
ResolveVar(s, stmt) ==
    LET d == Declare(s, stmt.name)
    IN  IF stmt.init = <<>> THEN Fine(Define(d, stmt.name), stmt)
        ELSE Then(ResolveIn(d, stmt.init[1]), LAMBDA t, e :
                Fine(Define(t, stmt.name), [stmt EXCEPT !.init = <<e>>]))

RECURSIVE DefineAll(_, _)
DefineAll(s, xs) ==
    IF xs = <<>> THEN s ELSE DefineAll(Define(Declare(s, Head(xs)), Head(xs)), Tail(xs))

\* The parameters and the body of a function share one scope.
ResolveFunction(s, func) ==
    LET inner == BeginScope(DefineAll(s, <<func.name>>))
    IN  Then(ResolveStmts(DefineAll(inner, func.params), func.body, <<>>), LAMBDA t, b :
            Fine(EndScope(t), [func EXCEPT !.body = b]))

ResolveStmt(s, stmt) ==
    CASE stmt.node \in {"Expr", "Print", "Return"} ->
            Then(ResolveIn(s, stmt.expr), LAMBDA t, e : Fine(t, [stmt EXCEPT !.expr = e]))
      [] stmt.node = "Var" -> ResolveVar(s, stmt)
      [] stmt.node = "Function" -> ResolveFunction(s, stmt)
      [] stmt.node = "Block" ->
            Then(ResolveBlock(s, stmt.body), LAMBDA t, b : Fine(t, [stmt EXCEPT !.body = b]))
      [] stmt.node = "If" ->
            Then(ResolveIn(s, stmt.condition), LAMBDA t, c :
            Then(ResolveStmt(t, stmt.yes), LAMBDA u, yes :
            Then(ResolveStmts(u, stmt.no, <<>>), LAMBDA v, no :
                Fine(v, [stmt EXCEPT !.condition = c, !.yes = yes, !.no = no]))))
      [] stmt.node = "While" ->
            Then(ResolveIn(s, stmt.condition), LAMBDA t, c :
            Then(ResolveStmt(t, stmt.body), LAMBDA u, b :
                Fine(u, [stmt EXCEPT !.condition = c, !.body = b])))

\* The program is a block inside the scope of the globals; the globals are
\* defined in whatever order, which makes no difference.
Resolve(globals, program) ==
    LET top == <<[x \in globals |-> TRUE]>>
    IN  ResolveBlock(top, program)
=============================================================================
