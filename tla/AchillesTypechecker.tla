-------------------------- MODULE AchillesTypechecker --------------------------
(***************************************************************************)
(* Type inference (src/users/grfn/achilles/src/tc/mod.rs).  The checker is *)
(* a record s: next, the number of the last type variable; ctx, what the   *)
(* existential variables stand for; env, the types of the names in scope;  *)
(* instantiations, what universal variables stand for in the calls under   *)
(* way; vars, the universal variable of each type variable of the source.  *)
(*                                                                         *)
(* Checking either succeeds with a new s, or ends in an error, a panic     *)
(* (`todo!'), or never (hangs): nothing looks at s then.                   *)
(***************************************************************************)
EXTENDS AchillesTypes

Exist(tv) == [t |-> "exist", tv |-> tv]
Univ(tv) == [t |-> "univ", tv |-> tv]

Initial ==
    [next |-> 0, ctx |-> [tv \in {} |-> TUnit], env |-> NewEnv,
     instantiations |-> NewEnv, vars |-> [id \in {} |-> 0]]

Ok(s, v) == [tag |-> "ok", s |-> s, of |-> v]
Stop(tag) == [tag |-> tag]

\* The `?' operator.
Try(r, Go(_, _)) == IF r.tag = "ok" THEN Go(r.s, r.of) ELSE r

FreshEx(s) == Ok([s EXCEPT !.next = @ + 1], Exist(s.next + 1))

\* As many fresh variables.
RECURSIVE FreshExs(_, _, _)
FreshExs(s, n, done) ==
    IF n = 0 THEN Ok(s, done)
    ELSE Try(FreshEx(s), LAMBDA u, ty : FreshExs(u, n - 1, Append(done, ty)))

SetName(s, x, ty) == [s EXCEPT !.env = Set(@, x, ty)]
PushEnv(s) == [s EXCEPT !.env = Push(@)]
PopEnv(s) == [s EXCEPT !.env = Front(@)]
PopAfter(r) == IF r.tag = "ok" THEN [r EXCEPT !.s = PopEnv(@)] ELSE r

\* Every universal variable comes from a type variable of the source.
NameUniv(s, tv) == CHOOSE id \in DOMAIN s.vars : s.vars[id] = tv

RECURSIVE TypeFromAst(_, _), TypesFromAst(_, _, _)
TypesFromAst(s, tys, done) ==
    IF tys = <<>> THEN Ok(s, done)
    ELSE Try(TypeFromAst(s, Head(tys)), LAMBDA u, ty : TypesFromAst(u, Tail(tys), Append(done, ty)))

TypeFromAst(s, ty) ==
    CASE ty.t = "var" ->
            IF ty.id \in DOMAIN s.vars THEN Ok(s, Univ(s.vars[ty.id]))
            ELSE Ok([s EXCEPT !.next = @ + 1,
                              !.vars = [id \in DOMAIN @ \cup {ty.id} |->
                                            IF id = ty.id THEN s.next + 1 ELSE @[id]]],
                    Univ(s.next + 1))
      [] ty.t = "tuple" -> Try(TypesFromAst(s, ty.of, <<>>), LAMBDA u, tys : Ok(u, TTuple(tys)))
      [] ty.t = "fun" ->
            Try(TypesFromAst(s, ty.args, <<>>), LAMBDA u, args :
                Try(TypeFromAst(u, ty.ret), LAMBDA v, ret : Ok(v, TFun(args, ret))))
      [] OTHER -> Ok(s, ty)

\* What a variable stands for, and a type without variables that stand for
\* something.  A variable that is reached again while it is followed (seen)
\* is followed forever; a function type is not supported.
RECURSIVE ResolveTv(_, _, _), FinalizeType(_, _, _), FinalizeTypes(_, _, _, _)
ResolveTv(s, ty, seen) ==
    IF ty \in seen THEN Stop("hangs")
    ELSE CASE ty.t = "exist" ->
                IF ty.tv \in DOMAIN s.ctx THEN ResolveTv(s, s.ctx[ty.tv], seen \cup {ty})
                ELSE Stop("none")
           [] ty.t = "univ" ->
                IF Known(s.instantiations, NameUniv(s, ty.tv))
                THEN ResolveTv(s, Lookup(s.instantiations, NameUniv(s, ty.tv)), seen \cup {ty})
                ELSE Ok(s, TVar(NameUniv(s, ty.tv)))
           [] ty.t = "fun" -> Stop("panic")
           [] ty.t = "tuple" -> FinalizeType(s, ty, seen \cup {ty})
           [] OTHER -> Ok(s, ty)

FinalizeTypes(s, tys, seen, done) ==
    IF tys = <<>> THEN Ok(s, done)
    ELSE Try(FinalizeType(s, Head(tys), seen), LAMBDA u, ty :
                FinalizeTypes(u, Tail(tys), seen, Append(done, ty)))

FinalizeType(s, ty, seen) ==
    CASE ty.t = "exist" ->
            (LET r == ResolveTv(s, ty, seen) IN IF r.tag = "none" THEN Stop("error") ELSE r)
      [] ty.t = "univ" -> Ok(s, TVar(NameUniv(s, ty.tv)))
      [] ty.t = "tuple" -> Try(FinalizeTypes(s, ty.of, seen, <<>>), LAMBDA u, tys : Ok(u, TTuple(tys)))
      [] ty.t = "fun" ->
            Try(FinalizeTypes(s, ty.args, seen, <<>>), LAMBDA u, args :
                Try(FinalizeType(u, ty.ret, seen), LAMBDA v, ret : Ok(v, TFun(args, ret))))
      [] OTHER -> Ok(s, ty)

\* Is a type of the checker that type of the source?  Tuples are compared
\* as far as the shorter one goes.
RECURSIVE TypesMatch(_, _, _)
TypesMatch(s, ty, ast) ==
    CASE ty.t = "univ" /\ ast.t = "var" -> ast.id \in DOMAIN s.vars /\ s.vars[ast.id] = ty.tv
      [] ty.t = "tuple" /\ ast.t = "tuple" ->
            \A i \in DOMAIN ty.of \cap DOMAIN ast.of : TypesMatch(s, ty.of[i], ast.of[i])
      [] ty.t = "fun" /\ ast.t = "fun" ->
            /\ Len(ty.args) = Len(ast.args)
            /\ \A i \in DOMAIN ty.args : TypesMatch(s, ty.args[i], ast.args[i])
            /\ TypesMatch(s, ty.ret, ast.ret)
      [] OTHER -> ty.t \in {"unit", "int", "bool", "cstring"} /\ ty = ast

RECURSIVE Unify(_, _, _), UnifyAll(_, _, _, _)

\* Two lists are unified as far as the shorter one goes.
UnifyAll(s, as, bs, done) ==
    IF as = <<>> \/ bs = <<>> THEN Ok(s, done)
    ELSE Try(Unify(s, Head(as), Head(bs)), LAMBDA u, ty :
                UnifyAll(u, Tail(as), Tail(bs), Append(done, ty)))

\* (Mutant: a variable that stands for another keeps what it stood for.)
StandFor_Drops(s, tv, ty) == Ok([s EXCEPT !.ctx = [x \in DOMAIN @ \cup {tv} |-> IF x = tv THEN ty ELSE @[x]]], ty)

\* An unresolved variable now stands for ty, and so does the variable that
\* it stood for.
StandFor(s, tv, ty) ==
    LET u == [s EXCEPT !.ctx = [x \in DOMAIN @ \cup {tv} |-> IF x = tv THEN ty ELSE @[x]]]
    IN  IF tv \in DOMAIN s.ctx THEN Unify(u, s.ctx[tv], ty) ELSE Ok(u, ty)

UnifyExist(s, tv, ty) ==
    LET r == ResolveTv(s, Exist(tv), {})
    IN  CASE r.tag \notin {"ok", "none"} -> r
          [] r.tag = "none" -> StandFor(s, tv, ty)
          [] r.tag = "ok" /\ TypesMatch(s, ty, r.of) -> Ok(s, ty)
          [] r.tag = "ok" /\ ~TypesMatch(s, ty, r.of) /\ r.of.t = "var" ->
                Unify(s, Univ(s.vars[r.of.id]), ty)
          [] OTHER -> IF ty.t = "exist"
                      THEN Try(TypeFromAst(s, r.of), LAMBDA u, rhs : Unify(u, ty, rhs))
                      ELSE Stop("error")

\* A universal variable stands for one type in the calls under way.
UnifyUniv(s, tv, ty) ==
    LET id == NameUniv(s, tv)
    IN  IF ~Known(s.instantiations, id)
        THEN Ok([s EXCEPT !.instantiations = Set(@, id, ty)], ty)
        ELSE IF ty = Lookup(s.instantiations, id) THEN Ok(s, ty) ELSE Stop("error")

Unify(s, a, b) ==
    CASE a.t = "unit" /\ b.t = "unit" -> Ok(s, TUnit)
      [] a.t = "exist" -> UnifyExist(s, a.tv, b)
      [] a.t # "exist" /\ b.t = "exist" -> UnifyExist(s, b.tv, a)
      [] a.t = "univ" /\ b = a -> Ok(s, b)
      [] a.t = "univ" /\ b # a /\ b.t # "exist" -> UnifyUniv(s, a.tv, b)
      [] a.t \notin {"exist", "univ"} /\ b.t = "univ" -> UnifyUniv(s, b.tv, a)
      [] IsPrim(a) /\ a = b -> Ok(s, b)
      [] a.t = "tuple" /\ b.t = "tuple" /\ Len(a.of) = Len(b.of) ->
            Try(UnifyAll(s, a.of, b.of, <<>>), LAMBDA u, tys : Ok(u, TTuple(tys)))
      [] a.t = "fun" /\ b.t = "fun" ->
            Try(UnifyAll(s, a.args, b.args, <<>>), LAMBDA u, args :
                Try(Unify(u, a.ret, b.ret), LAMBDA v, ret : Ok(v, TFun(args, ret))))
      [] OTHER -> Stop("error")

\* The type variables of a call are settled: variables that stand for one
\* of them stand for its type from now on.  (A variable that stands for a
\* tuple or a function with type variables is left alone.)
CommitInstantiations(s) ==
    LET settled(ty) == ty.t = "univ" /\ Known(s.instantiations, NameUniv(s, ty.tv))
        concrete(ty) == Lookup(s.instantiations, NameUniv(s, ty.tv))
        ids == {NameUniv(s, s.ctx[tv].tv) : tv \in {x \in DOMAIN s.ctx : settled(s.ctx[x])}}
    IN  Ok([s EXCEPT !.ctx = [tv \in DOMAIN @ |-> IF settled(@[tv]) THEN concrete(@[tv]) ELSE @[tv]],
                     !.instantiations = Front(@)],
           [id \in ids |-> Lookup(s.instantiations, id)])

-----------------------------------------------------------------------------
RECURSIVE BindPattern(_, _, _), BindPatterns(_, _, _, _)

\* Each pattern of a tuple is bound to a fresh variable.
BindPatterns(s, pats, done, tys) ==
    IF pats = <<>> THEN Ok(s, [members |-> done, types |-> tys])
    ELSE Try(FreshEx(s), LAMBDA u, ty :
            Try(BindPattern(u, Head(pats), ty), LAMBDA v, pat :
                BindPatterns(v, Tail(pats), Append(done, pat), Append(tys, ty))))

BindPattern(s, pat, ty) ==
    IF pat.pat = "Id" THEN Ok(SetName(s, pat.name, ty), [pat |-> "Id", name |-> pat.name, type |-> ty])
    ELSE Try(BindPatterns(s, pat.members, <<>>, <<>>), LAMBDA u, bound :
            Try(Unify(u, TTuple(bound.types), ty), LAMBDA v, same :
                Ok(v, [pat |-> "Tuple", members |-> bound.members])))

RECURSIVE TcExpr(_, _), TcExprs(_, _, _), TcBindings(_, _, _), TcArgs(_, _, _), TcCallArgs(_, _, _, _)

TcExprs(s, es, done) ==
    IF es = <<>> THEN Ok(s, done)
    ELSE Try(TcExpr(s, Head(es)), LAMBDA u, e : TcExprs(u, Tail(es), Append(done, e)))

\* The type must be the one that was written, where one was.
Ascribed(s, e, types) ==
    IF types = <<>> THEN Ok(s, e)
    ELSE Try(TypeFromAst(s, types[1]), LAMBDA u, ty :
            Try(Unify(u, e.type, ty), LAMBDA v, same : Ok(v, e)))

TcBindings(s, bindings, done) ==
    IF bindings = <<>> THEN Ok(s, done)
    ELSE LET b == Head(bindings)
         IN  Try(TcExpr(s, b.body), LAMBDA u, e :
                Try(Ascribed(u, e, b.type), LAMBDA v, body :
                    Try(BindPattern(v, b.pat, body.type), LAMBDA w, pat :
                        TcBindings(w, Tail(bindings), Append(done, [pat |-> pat, body |-> body])))))

TcLet(s, e) ==
    PopAfter(Try(TcBindings(PushEnv(s), e.bindings, <<>>), LAMBDA u, bindings :
        Try(TcExpr(u, e.body), LAMBDA v, body :
            Ok(v, [node |-> "Let", bindings |-> bindings, body |-> body, type |-> body.type]))))

TcIf(s, e) ==
    Try(TcExpr(s, e.condition), LAMBDA u, condition :
        Try(Unify(u, TBool, condition.type), LAMBDA v, bool :
            Try(TcExprs(v, <<e.then, e.else>>, <<>>), LAMBDA w, branches :
                Try(Unify(w, branches[1].type, branches[2].type), LAMBDA x, ty :
                    Ok(x, [node |-> "If", condition |-> condition, then |-> branches[1],
                           else |-> branches[2], type |-> ty])))))

TcArgs(s, args, done) ==
    IF args = <<>> THEN Ok(s, done)
    ELSE LET a == Head(args)
         IN  Try(IF a.type = <<>> THEN FreshEx(s) ELSE TypeFromAst(s, a.type[1]), LAMBDA u, ty :
                TcArgs(SetName(u, a.name, ty), Tail(args), Append(done, [name |-> a.name, type |-> ty])))

TcFun(s, e) ==
    PopAfter(Try(TcArgs(PushEnv(s), e.args, <<>>), LAMBDA u, args :
        Try(TcExpr(u, e.body), LAMBDA v, body :
            Ok(v, [node |-> "Fun", args |-> args, body |-> body,
                   type |-> TFun([i \in DOMAIN args |-> args[i].type], body.type)]))))

TcCallArgs(s, args, tys, done) ==
    IF args = <<>> THEN Ok(s, done)
    ELSE Try(TcExpr(s, Head(args)), LAMBDA u, arg :
            Try(Unify(u, Head(tys), arg.type), LAMBDA v, same :
                TcCallArgs(v, Tail(args), Tail(tys), Append(done, arg))))

TcCall(s, e) ==
    Try(FreshEx(s), LAMBDA s1, ret :
        Try(FreshExs(s1, Len(e.args), <<>>), LAMBDA s2, tys :
            Try(TcExpr(s2, e.fun), LAMBDA s3, fun :
                Try(Unify([s3 EXCEPT !.instantiations = Push(@)], TFun(tys, ret), fun.type), LAMBDA s4, ft :
                    Try(TcCallArgs(s4, e.args, tys, <<>>), LAMBDA s5, args :
                        Try(CommitInstantiations(s5), LAMBDA s6, typeArgs :
                            Ok(s6, [node |-> "Call", fun |-> fun, typeArgs |-> typeArgs,
                                    args |-> args, type |-> ret])))))))

TcBinary(s, e) ==
    Try(TcExprs(s, <<e.lhs, e.rhs>>, <<>>), LAMBDA u, operands :
        IF e.op \in {"/", "^"} THEN Stop("panic")
        ELSE Try(Unify(u, operands[1].type, operands[2].type), LAMBDA v, ty :
                Ok(v, [node |-> "Binary", op |-> e.op, lhs |-> operands[1], rhs |-> operands[2],
                       type |-> IF e.op \in {"==", "!="} THEN TBool ELSE ty])))

LiteralType(v) ==
    CASE v.val = "int" -> TInt [] v.val = "bool" -> TBool
      [] v.val = "string" -> TString [] v.val = "unit" -> TUnit

TcExpr(s, e) ==
    CASE e.node = "Ident" ->
            IF Known(s.env, e.name)
            THEN Ok(s, [node |-> "Ident", name |-> e.name, type |-> Lookup(s.env, e.name)])
            ELSE Stop("error")
      [] e.node = "Literal" -> Ok(s, [node |-> "Literal", of |-> e.of, type |-> LiteralType(e.of)])
      [] e.node = "Tuple" ->
            Try(TcExprs(s, e.members, <<>>), LAMBDA u, members :
                Ok(u, [node |-> "Tuple", members |-> members,
                       type |-> TTuple([i \in DOMAIN members |-> members[i].type])]))
      [] e.node = "Unary" -> Stop("panic")
      [] e.node = "Binary" -> TcBinary(s, e)
      [] e.node = "Let" -> TcLet(s, e)
      [] e.node = "If" -> TcIf(s, e)
      [] e.node = "Fun" -> TcFun(s, e)
      [] e.node = "Call" -> TcCall(s, e)
      [] e.node = "Ascription" ->
            Try(TcExpr(s, e.expr), LAMBDA u, inner : Ascribed(u, inner, <<e.type>>))

-----------------------------------------------------------------------------
\* A function that was declared before is checked against the type it was
\* declared with.  Its own name is not in scope otherwise (it is set in an
\* environment that is thrown away).  An ascription declares a name and
\* leaves nothing in the typed tree.
TcFunDecl(s, d) ==
    LET fun == [node |-> "Fun", args |-> d.args, body |-> d.body]
        ascribed == IF Known(s.env, d.name)
                    THEN Try(FinalizeType(s, Lookup(s.env, d.name), {}), LAMBDA u, ty :
                            Ok(u, [node |-> "Ascription", expr |-> fun, type |-> ty]))
                    ELSE Ok(s, fun)
    IN  Try(ascribed, LAMBDA u, expr :
            Try(TcExpr(u, expr), LAMBDA v, f :
                Ok(v, << [decl |-> "Fun", name |-> d.name, args |-> f.args,
                          body |-> f.body, type |-> f.type] >>)))

TcDecl(s, d) ==
    CASE d.decl = "Fun" -> TcFunDecl(s, d)
      [] d.decl = "Ascription" ->
            Try(TypeFromAst(s, d.type), LAMBDA u, ty : Ok(SetName(u, d.name, ty), <<>>))
      [] d.decl = "Extern" ->
            Try(TypeFromAst(s, d.type), LAMBDA u, ty :
                Ok(SetName(u, d.name, ty),
                   << [decl |-> "Extern", name |-> d.name, argTypes |-> ty.args, ret |-> ty.ret] >>))

\* Every type of a tree is finalized, in order; the first that cannot be
\* decides how it ends.
Finalized(s, tys) ==
    LET r == FinalizeTypes(s, tys, {}, <<>>)
    IN  IF r.tag # "ok" THEN r
        ELSE Ok(s, [ty \in Range(tys) |-> r.of[CHOOSE i \in DOMAIN tys : tys[i] = ty]])

FinalizeExpr(s, e) == Try(Finalized(s, TypesIn(e)), LAMBDA u, f : Ok(u, MapTypes(e, f)))

\* A function gets its finalized type for the declarations that follow.
FinalizeDecl(s, d) ==
    Try(Finalized(s, DeclTypes(d)), LAMBDA u, f :
        LET decl == MapDecl(d, f)
        IN  IF d.decl = "Extern" THEN Ok(u, decl)
            ELSE Try(TypeFromAst(u, decl.type), LAMBDA v, ty : Ok(SetName(v, d.name, ty), decl)))

TypecheckExpr(e) == Try(TcExpr(Initial, e), LAMBDA s, typed : FinalizeExpr(s, typed))

\* One declaration of a file: the typed one, if there is one.
TypecheckDecl(s, d) ==
    Try(TcDecl(s, d), LAMBDA u, found :
        Try(IF found = <<>> THEN Ok(u, <<>>)
            ELSE Try(FinalizeDecl(u, found[1]), LAMBDA v, decl : Ok(v, <<decl>>)),
            LAMBDA w, decls : Ok([w EXCEPT !.ctx = [tv \in {} |-> TUnit]], decls)))
================================================================================
