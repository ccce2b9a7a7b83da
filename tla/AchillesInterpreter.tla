-------------------------- MODULE AchillesInterpreter --------------------------
(***************************************************************************)
(* The interpreter of typed expressions                                    *)
(* (src/users/grfn/achilles/src/interpreter/mod.rs, value.rs).  It ends    *)
(* with a value, an error, or a panic; an evaluation that succeeds leaves  *)
(* the environment as it was, so env is an argument here.                  *)
(***************************************************************************)
EXTENDS AchillesTypes

VFun(f) == [val |-> "fun", type |-> f.type, args |-> f.args, body |-> f.body]

Value(v) == [tag |-> "ok", value |-> v]
Fail(tag) == [tag |-> tag]

\* The `?' operator.
Given(r, Go(_)) == IF r.tag = "ok" THEN Go(r.value) ELSE r

RECURSIVE TypeOf(_)
TypeOf(v) ==
    CASE v.val = "int" -> TInt [] v.val = "bool" -> TBool [] v.val = "string" -> TString
      [] v.val = "fun" -> v.type
      [] v.val = "tuple" -> TTuple([i \in DOMAIN v.members |-> TypeOf(v.members[i])])

\* Only numbers and booleans are ever equal.
SameValue(a, b) == a.val \in {"int", "bool"} /\ a = b

\* The arithmetic operators want integers; `/' wants floats, which no
\* literal has; `^' and `!=' are not implemented.
BinaryOp(op, a, b) ==
    CASE op \in {"^", "!="} -> Fail("panic")
      [] op = "==" -> Value(VBool(SameValue(a, b)))
      [] op \in {"+", "-", "*"} /\ a.val = "int" /\ b.val = "int" ->
            Value(VInt(CASE op = "+" -> a.of + b.of [] op = "-" -> a.of - b.of [] op = "*" -> a.of * b.of))
      [] OTHER -> Fail("error")

\* A value is only called as a function of integers.
OnIntegers(n) == TFun([i \in 1..n |-> TInt], TInt)

RECURSIVE Bind(_, _, _), BindAll(_, _, _)
BindAll(env, pats, vs) ==
    IF pats = <<>> \/ vs = <<>> THEN env ELSE BindAll(Bind(env, Head(pats), Head(vs)), Tail(pats), Tail(vs))

Bind(env, pat, v) ==
    IF pat.pat = "Id" THEN Set(env, pat.name, v) ELSE BindAll(env, pat.members, v.members)

\* (Mutant: a function is evaluated in the environment of its call.)
CalleeEnv_Callers(env) == Push(env)

\* A function knows its arguments and nothing else.
CalleeEnv(env) == NewEnv

RECURSIVE Eval(_, _), EvalAll(_, _, _), EvalLet(_, _, _), Evaluate(_, _)

EvalAll(env, es, done) ==
    IF es = <<>> THEN Value(done)
    ELSE Given(Eval(env, Head(es)), LAMBDA v : EvalAll(env, Tail(es), Append(done, v)))

EvalLet(env, bindings, body) ==
    IF bindings = <<>> THEN Eval(env, body)
    ELSE Given(Eval(env, Head(bindings).body), LAMBDA v :
            EvalLet(Bind(env, Head(bindings).pat, v), Tail(bindings), body))

\* The body of the function must give an integer, too.
EvalCall(env, e) ==
    Given(Eval(env, e.fun), LAMBDA f :
        IF f.val # "fun" THEN Fail("error")
        ELSE IF f.type # OnIntegers(Len(e.args)) THEN Fail("error")
        ELSE Given(EvalAll(env, e.args, <<>>), LAMBDA args :
                Given(Eval(BindAll(CalleeEnv(env),
                                 [i \in DOMAIN f.args |-> [pat |-> "Id", name |-> f.args[i].name]], args),
                         f.body), LAMBDA v :
                    IF v.val = "int" THEN Value(v) ELSE Fail("error"))))

Evaluate(env, e) ==
    CASE e.node = "Ident" -> IF Known(env, e.name) THEN Value(Lookup(env, e.name)) ELSE Fail("error")
      [] e.node = "Literal" -> IF e.of = VUnit THEN Fail("panic") ELSE Value(e.of)
      [] e.node = "Binary" ->
            Given(EvalAll(env, <<e.lhs, e.rhs>>, <<>>), LAMBDA vs : BinaryOp(e.op, vs[1], vs[2]))
      [] e.node = "Let" -> EvalLet(Push(env), e.bindings, e.body)
      [] e.node = "If" ->
            Given(Eval(env, e.condition), LAMBDA c :
                IF c.val # "bool" THEN Fail("error") ELSE Eval(env, IF c.is THEN e.then ELSE e.else))
      [] e.node = "Call" -> EvalCall(env, e)
      [] e.node = "Fun" -> Value(VFun(e))
      [] e.node = "Tuple" -> Given(EvalAll(env, e.members, <<>>), LAMBDA vs : Value(VTuple(vs)))

\* A value that has not the type of its expression is an assertion failure.
Eval(env, e) ==
    Given(Evaluate(env, e), LAMBDA v : IF TypeOf(v) = e.type THEN Value(v) ELSE Fail("panic"))

Interpreted(e) == Eval(NewEnv, e)
================================================================================
