---------------------------- MODULE AchillesPasses ----------------------------
(***************************************************************************)
(* The two passes over the typed declarations of a file before code is     *)
(* generated (src/users/grfn/achilles/src/passes/hir/).  The walks of the  *)
(* visitor (mod.rs) are written out for what each pass does on the way.    *)
(***************************************************************************)
EXTENDS AchillesTypes

Names(decls) == {decls[i].name : i \in DOMAIN decls}

(***************************************************************************)
(* Monomorphize (monomorphize.rs): a call of a generic function becomes    *)
(* the call of an instance, a copy of the function with concrete types in  *)
(* place of its type variables.  The pass p knows the declarations it has  *)
(* walked (decls), the copies (extra), and which originals to drop         *)
(* (remove).                                                               *)
(***************************************************************************)
PassInitial == [decls |-> [x \in {} |-> <<>>], extra |-> <<>>, remove |-> {}]

Done(p, e) == [tag |-> "ok", p |-> p, of |-> e]
Panic == [tag |-> "panic"]
Then(r, Go(_, _)) == IF r.tag = "ok" THEN Go(r.p, r.of) ELSE r

\* The types that are put in place of type variables, in order: they make
\* the name of the instance.
Replaced(decl, typeArgs) ==
    LET vars == Joined([i \in DOMAIN DeclTypes(decl) |-> VarsIn(DeclTypes(decl)[i])])
    IN  [i \in DOMAIN vars |-> typeArgs[vars[i]]]

Instance(decl, typeArgs) ==
    [MapDecl(decl, [ty \in Range(DeclTypes(decl)) |-> Substitute(ty, typeArgs)])
        EXCEPT !.name = FoldLeft(LAMBDA name, ty : name \o Display(ty), @, Replaced(decl, typeArgs))]

\* Only functions whose declaration was walked before can be called, a type
\* must be known for each of their type variables, and externs have none.
MonoCall(p, call) ==
    LET id == call.fun.name
        vars == UNION {Range(VarsIn(ty)) : ty \in Range(DeclTypes(p.decls[id]))}
        copy == Instance(p.decls[id], call.typeArgs)
    IN  IF call.fun.node # "Ident" THEN Panic
        ELSE IF id \notin DOMAIN p.decls THEN Panic
        ELSE IF ~(vars \subseteq DOMAIN call.typeArgs) THEN Panic
        ELSE IF vars # {} /\ p.decls[id].decl = "Extern" THEN Panic
        ELSE IF vars = {} THEN Done(p, [call EXCEPT !.typeArgs = [x \in {} |-> TUnit]])
        ELSE Done([p EXCEPT !.extra = Append(@, copy), !.remove = @ \cup {id}],
                  [call EXCEPT !.fun = [node |-> "Ident", name |-> copy.name, type |-> copy.type],
                               !.typeArgs = [x \in {} |-> TUnit]])

RECURSIVE Mono(_, _), MonoAll(_, _, _)
MonoAll(p, es, done) ==
    IF es = <<>> THEN Done(p, done)
    ELSE Then(Mono(p, Head(es)), LAMBDA q, e : MonoAll(q, Tail(es), Append(done, e)))

Mono(p, e) ==
    CASE e.node \in {"Ident", "Literal"} -> Done(p, e)
      [] e.node = "Binary" ->
            Then(MonoAll(p, <<e.lhs, e.rhs>>, <<>>), LAMBDA q, es :
                Done(q, [e EXCEPT !.lhs = es[1], !.rhs = es[2]]))
      [] e.node = "Let" ->
            Then(MonoAll(p, [i \in DOMAIN e.bindings |-> e.bindings[i].body] \o <<e.body>>, <<>>), LAMBDA q, es :
                Done(q, [e EXCEPT !.bindings = [i \in DOMAIN @ |-> [@[i] EXCEPT !.body = es[i]]],
                                  !.body = es[Len(es)]]))
      [] e.node = "If" ->
            Then(MonoAll(p, <<e.condition, e.then, e.else>>, <<>>), LAMBDA q, es :
                Done(q, [e EXCEPT !.condition = es[1], !.then = es[2], !.else = es[3]]))
      [] e.node = "Fun" -> Then(Mono(p, e.body), LAMBDA q, body : Done(q, [e EXCEPT !.body = body]))
      [] e.node = "Tuple" -> Then(MonoAll(p, e.members, <<>>), LAMBDA q, es : Done(q, [e EXCEPT !.members = es]))
      [] e.node = "Call" ->
            Then(MonoAll(p, <<e.fun>> \o e.args, <<>>), LAMBDA q, es :
                MonoCall(q, [e EXCEPT !.fun = es[1], !.args = Tail(es)]))

\* One declaration is walked, then remembered.
MonoDecl(p, d) ==
    Then(IF d.decl = "Extern" THEN Done(p, d)
          ELSE Then(Mono(p, d.body), LAMBDA q, body : Done(q, [d EXCEPT !.body = body])),
          LAMBDA q, decl : Done([q EXCEPT !.decls = [x \in DOMAIN @ \cup {d.name} |->
                                                        IF x = d.name THEN decl ELSE @[x]]], decl))

\* The instances come first, and the functions they are made from go.
Monomorphized(p, decls) == p.extra \o SelectSeq(decls, LAMBDA d : d.name \notin p.remove)

(***************************************************************************)
(* StripPositiveUnits (strip_positive_units.rs): arguments of type () are  *)
(* neither declared nor passed.                                            *)
(***************************************************************************)
Discarded == "___discarded"

\* The () arguments of a function type, but not those of the types in it.
StripType(ty) == IF ty.t = "fun" THEN [ty EXCEPT !.args = SelectSeq(@, LAMBDA a : a # TUnit)] ELSE ty

IsUnit(e) == e.type = TUnit
Effects(args) == SelectSeq(args, LAMBDA e : IsUnit(e) /\ e.node # "Literal")

\* (Mutant: an argument that is not passed is not evaluated.)
Extracted_Dropped(call) == [call EXCEPT !.args = SelectSeq(@, LAMBDA e : ~IsUnit(e))]

\* What is not passed is evaluated before the call, unless it is ().
Extracted(call) ==
    LET stripped == [call EXCEPT !.args = SelectSeq(@, LAMBDA e : ~IsUnit(e))]
        effects == Effects(call.args)
    IN  IF effects = <<>> THEN stripped
        ELSE [node |-> "Let", body |-> stripped, type |-> call.type,
              bindings |-> [i \in DOMAIN effects |->
                                [pat |-> [pat |-> "Id", name |-> Discarded, type |-> TUnit], body |-> effects[i]]]]

\* The types in patterns and in the types given to type variables are not
\* visited; the arguments of a function expression keep their types of ().
RECURSIVE Strip(_)
StripAll(es) == [i \in DOMAIN es |-> Strip(es[i])]
StripArgs(args) == [i \in DOMAIN args |-> [args[i] EXCEPT !.type = StripType(@)]]

Strip(expr) ==
    LET extracted == IF expr.node = "Call" THEN Extracted(expr) ELSE expr
        e == [extracted EXCEPT !.type = StripType(@)]
    IN  CASE e.node \in {"Ident", "Literal"} -> e
          [] e.node = "Binary" -> [e EXCEPT !.lhs = Strip(@), !.rhs = Strip(@)]
          [] e.node = "Let" ->
                [e EXCEPT !.bindings = [i \in DOMAIN @ |-> [@[i] EXCEPT !.body = Strip(@)]], !.body = Strip(@)]
          [] e.node = "If" -> [e EXCEPT !.condition = Strip(@), !.then = Strip(@), !.else = Strip(@)]
          [] e.node = "Fun" -> [e EXCEPT !.args = StripArgs(@), !.body = Strip(@)]
          [] e.node = "Tuple" -> [e EXCEPT !.members = StripAll(@)]
          [] e.node = "Call" -> [e EXCEPT !.fun = Strip(@), !.args = StripAll(@)]

StripDecl(d) ==
    IF d.decl = "Extern" THEN [d EXCEPT !.argTypes = [i \in DOMAIN @ |-> StripType(@[i])], !.ret = StripType(@)]
    ELSE [d EXCEPT !.args = SelectSeq(StripArgs(@), LAMBDA a : a.type # TUnit),
                   !.body = Strip(@), !.type = StripType(@)]
================================================================================
