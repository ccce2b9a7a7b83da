--------------------------- MODULE AchillesLanguage ---------------------------
(***************************************************************************)
(* What Achilles programs mean, and when a typed tree is a derivation of   *)
(* its type, said without unification, passes or code.  The interpreter,   *)
(* the type checker and the compiler are compared with it; it models none  *)
(* of the code.                                                            *)
(*                                                                         *)
(* Programs are trees, typed or not.  top maps the names of the functions  *)
(* of a file to their declarations, env the names in scope to values; out  *)
(* are the calls of external functions so far.                             *)
(***************************************************************************)
EXTENDS AchillesTypes

LOCAL Gives(v, out) == [tag |-> "ok", value |-> v, out |-> out]
LOCAL Stuck == [tag |-> "stuck", value |-> VUnit, out |-> <<>>]
LOCAL And(r, Next(_, _)) == IF r.tag = "ok" THEN Next(r.value, r.out) ELSE r

LOCAL Closure(xs, body, env) == [val |-> "closure", fun |-> [xs |-> xs, body |-> body, env |-> env]]
LOCAL Params(f) == [i \in DOMAIN f.args |-> f.args[i].name]

LOCAL TopFunction(d) ==
    IF d.decl = "Extern"
    THEN [val |-> "extern", fun |-> [name |-> d.name, ret |-> IF "type" \in DOMAIN d THEN d.type.ret ELSE d.ret]]
    ELSE Closure(Params(d), d.body, [x \in {} |-> VUnit])

LOCAL Operator(op, a, b, out) ==
    LET ints == a.val = "int" /\ b.val = "int"
    IN  CASE op = "==" /\ a.val = b.val -> Gives(VBool(a = b), out)
          [] op = "!=" /\ a.val = b.val -> Gives(VBool(a # b), out)
          [] op = "+" /\ ints -> Gives(VInt(a.of + b.of), out)
          [] op = "-" /\ ints -> Gives(VInt(a.of - b.of), out)
          [] op = "*" /\ ints -> Gives(VInt(a.of * b.of), out)
          [] OTHER -> Stuck

RECURSIVE Fits(_, _, _), FitAll(_, _, _)
FitAll(env, pats, vs) ==
    IF pats = <<>> THEN env ELSE FitAll(Fits(env, Head(pats), Head(vs)), Tail(pats), Tail(vs))
Fits(env, pat, v) ==
    IF pat.pat = "Id" THEN [x \in DOMAIN env \cup {pat.name} |-> IF x = pat.name THEN v ELSE env[x]]
    ELSE FitAll(env, pat.members, v.members)

RECURSIVE Means(_, _, _, _), MeanAll(_, _, _, _, _), MeansIn(_, _, _, _, _)

MeanAll(top, env, es, done, out) ==
    IF es = <<>> THEN Gives(done, out)
    ELSE And(Means(top, env, Head(es), out), LAMBDA v, o : MeanAll(top, env, Tail(es), Append(done, v), o))

MeansIn(top, env, bindings, body, out) ==
    IF bindings = <<>> THEN Means(top, env, body, out)
    ELSE And(Means(top, env, Head(bindings).body, out), LAMBDA v, o :
            MeansIn(top, Fits(env, Head(bindings).pat, v), Tail(bindings), body, o))

Means(top, env, e, out) ==
    CASE e.node = "Ident" ->
            CASE e.name \in DOMAIN env -> Gives(env[e.name], out)
              [] e.name \notin DOMAIN env /\ e.name \in DOMAIN top -> Gives(TopFunction(top[e.name]), out)
              [] OTHER -> Stuck
      [] OTHER ->
    CASE e.node = "Literal" -> Gives(e.of, out)
      [] e.node = "Ascription" -> Means(top, env, e.expr, out)
      [] e.node = "Binary" ->
            And(MeanAll(top, env, <<e.lhs, e.rhs>>, <<>>, out), LAMBDA vs, o : Operator(e.op, vs[1], vs[2], o))
      [] e.node = "Let" -> MeansIn(top, env, e.bindings, e.body, out)
      [] e.node = "If" ->
            And(Means(top, env, e.condition, out), LAMBDA c, o :
                IF c.val # "bool" THEN Stuck ELSE Means(top, env, IF c.is THEN e.then ELSE e.else, o))
      [] e.node = "Fun" -> Gives(Closure(Params(e), e.body, env), out)
      [] e.node = "Tuple" -> And(MeanAll(top, env, e.members, <<>>, out), LAMBDA vs, o : Gives(VTuple(vs), o))
      [] e.node = "Call" ->
            And(MeanAll(top, env, <<e.fun>> \o e.args, <<>>, out), LAMBDA vs, o :
                CASE vs[1].val = "extern" ->
                        Gives(IF vs[1].fun.ret = TUnit THEN VUnit ELSE VInt(0), Append(o, <<vs[1].fun.name, Tail(vs)>>))
                  [] vs[1].val = "closure" /\ Len(vs[1].fun.xs) = Len(vs) - 1 ->
                        Means(top, FitAll(vs[1].fun.env,
                                          [i \in DOMAIN vs[1].fun.xs |-> [pat |-> "Id", name |-> vs[1].fun.xs[i]]],
                                          Tail(vs)), vs[1].fun.body, o)
                  [] OTHER -> Stuck)

MeaningOfExpr(e) == Means([x \in {} |-> <<>>], [x \in {} |-> VUnit], e, <<>>)

\* A file means what its function main does.
LOCAL TopOf(decls) ==
    LET defs == SelectSeq(decls, LAMBDA d : d.decl # "Ascription")
    IN  [x \in {defs[i].name : i \in DOMAIN defs} |->
            defs[CHOOSE i \in DOMAIN defs : defs[i].name = x /\ \A j \in 1..i-1 : defs[j].name # x]]
MeaningOfFile(decls, main) ==
    LET top == TopOf(decls)
    IN  Means(top, [x \in {} |-> VUnit], [node |-> "Call", fun |-> [node |-> "Ident", name |-> main], args |-> <<>>], <<>>)

-----------------------------------------------------------------------------
\* Typing.  scope maps the names in scope to their types.
LOCAL Extend(scope, x, ty) == [y \in DOMAIN scope \cup {x} |-> IF y = x THEN ty ELSE scope[y]]

RECURSIVE TypedPattern(_, _), PatternScope(_, _)
TypedPattern(pat, ty) ==
    IF pat.pat = "Id" THEN pat.type = ty
    ELSE /\ ty.t = "tuple" /\ Len(ty.of) = Len(pat.members)
         /\ \A i \in DOMAIN pat.members : TypedPattern(pat.members[i], ty.of[i])
PatternScope(scope, pat) ==
    IF pat.pat = "Id" THEN Extend(scope, pat.name, pat.type)
    ELSE FoldLeft(PatternScope, scope, pat.members)

LOCAL ArgScope(scope, args) == FoldLeft(LAMBDA sc, a : Extend(sc, a.name, a.type), scope, args)
LOCAL TypesOf(es) == [i \in DOMAIN es |-> es[i].type]

\* The type of a function in a call, with types for its type variables.
LOCAL Instantiated(ty, typeArgs) ==
    Substitute(ty, [x \in Range(VarsIn(ty)) |-> IF x \in DOMAIN typeArgs THEN typeArgs[x] ELSE TVar(x)])

LOCAL TypeOfLiteral(v) ==
    CASE v.val = "int" -> TInt [] v.val = "bool" -> TBool [] v.val = "string" -> TString [] v.val = "unit" -> TUnit

RECURSIVE Derives(_, _)
Derives(scope, e) ==
    CASE e.node = "Ident" -> e.name \in DOMAIN scope /\ scope[e.name] = e.type
      [] e.node = "Literal" -> e.type = TypeOfLiteral(e.of)
      [] e.node = "Tuple" -> e.type = TTuple(TypesOf(e.members)) /\ \A i \in DOMAIN e.members : Derives(scope, e.members[i])
      [] e.node = "Binary" ->
            /\ Derives(scope, e.lhs) /\ Derives(scope, e.rhs)
            /\ e.lhs.type = e.rhs.type
            /\ e.type = IF e.op \in {"==", "!="} THEN TBool ELSE e.lhs.type
      [] e.node = "Let" ->
            LET inner[i \in 0..Len(e.bindings)] ==
                    IF i = 0 THEN scope ELSE PatternScope(inner[i-1], e.bindings[i].pat)
            IN  /\ \A i \in DOMAIN e.bindings : /\ Derives(inner[i-1], e.bindings[i].body)
                                                /\ TypedPattern(e.bindings[i].pat, e.bindings[i].body.type)
                /\ Derives(inner[Len(e.bindings)], e.body)
                /\ e.type = e.body.type
      [] e.node = "If" ->
            /\ Derives(scope, e.condition) /\ Derives(scope, e.then) /\ Derives(scope, e.else)
            /\ e.condition.type = TBool /\ e.then.type = e.type /\ e.else.type = e.type
      [] e.node = "Fun" -> e.type = TFun(TypesOf(e.args), e.body.type) /\ Derives(ArgScope(scope, e.args), e.body)
      [] e.node = "Call" ->
            /\ Derives(scope, e.fun) /\ \A i \in DOMAIN e.args : Derives(scope, e.args[i])
            /\ Instantiated(e.fun.type, e.typeArgs) = TFun(TypesOf(e.args), e.type)

\* A typed file: each function in the scope of what was declared, or only
\* announced, before it.
DerivesFile(source, typed) ==
    LET announced(d) == IF d.decl = "Extern" THEN TFun(d.argTypes, d.ret) ELSE d.type
        last(i) == [x \in {source[j].name : j \in 1..i} |-> Max({j \in 1..i : source[j].name = x})]
        at(i) == Cardinality({j \in 1..i : source[j].decl # "Ascription"})
        scope(i) == [x \in DOMAIN last(i) |->
                        LET j == last(i)[x] IN IF source[j].decl = "Ascription" THEN source[j].type ELSE announced(typed[at(j)])]
    IN  \A i \in DOMAIN source :
            (source[i].decl = "Fun" /\ at(i) \in DOMAIN typed) =>
                LET d == typed[at(i)]
                IN  /\ d.type = TFun(TypesOf(d.args), d.body.type)
                    /\ Derives(ArgScope(scope(i-1), d.args), d.body)
================================================================================
