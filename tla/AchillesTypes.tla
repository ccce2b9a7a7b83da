----------------------------- MODULE AchillesTypes -----------------------------
(***************************************************************************)
(* The syntax trees and the types of Achilles                              *)
(* (src/users/grfn/achilles/src/ast/mod.rs, ast/hir.rs), and the lexical   *)
(* environments of its passes (common/env.rs).                             *)
(*                                                                         *)
(* The typed tree (hir) has the nodes of the untyped one, each with its    *)
(* type; an ascription leaves no node, and a call has the types it gave to *)
(* the type variables of the function.  Names are strings, for the passes  *)
(* make names of names by putting strings together.                        *)
(***************************************************************************)
EXTENDS Integers, Sequences, FiniteSets, SequencesExt

TInt == [t |-> "int"]
TBool == [t |-> "bool"]
TString == [t |-> "cstring"]
TUnit == [t |-> "unit"]
TTuple(members) == [t |-> "tuple", of |-> members]
TFun(args, ret) == [t |-> "fun", args |-> args, ret |-> ret]
TVar(id) == [t |-> "var", id |-> id]

IsPrim(ty) == ty.t \in {"int", "bool", "cstring"}

\* The values of literals and of the interpreter.
VInt(n) == [val |-> "int", of |-> n]
VBool(b) == [val |-> "bool", is |-> b]
VString(x) == [val |-> "string", text |-> x]
VUnit == [val |-> "unit"]
VTuple(members) == [val |-> "tuple", members |-> members]

-----------------------------------------------------------------------------
\* A lexical environment is a stack of maps; the innermost comes last.
NewEnv == << [x \in {} |-> TUnit] >>
Push(env) == Append(env, [x \in {} |-> TUnit])
Set(env, k, v) == [env EXCEPT ![Len(env)] = [x \in DOMAIN @ \cup {k} |-> IF x = k THEN v ELSE @[x]]]

Known(env, k) == \E i \in DOMAIN env : k \in DOMAIN env[i]

Lookup(env, k) ==
    LET i == CHOOSE i \in DOMAIN env :
                /\ k \in DOMAIN env[i]
                /\ \A j \in DOMAIN env : k \in DOMAIN env[j] => j <= i
    IN  env[i][k]

-----------------------------------------------------------------------------
\* The elements of all the sequences of a sequence.
Joined(seqs) == FlattenSeq(seqs)
Mapped(s, f) == [i \in DOMAIN s |-> f[s[i]]]

RECURSIVE PatternTypes(_), TypesIn(_), VarsIn(_)

\* The types a tree mentions, in the order of traverse_type.  (The types a
\* call gives to type variables are kept in a hash map: their order is some
\* fixed one.)
PatternTypes(pat) ==
    IF pat.pat = "Id" THEN <<pat.type>>
    ELSE Joined([i \in DOMAIN pat.members |-> PatternTypes(pat.members[i])])

TypeArgsOf(call) == SetToSeq(DOMAIN call.typeArgs)

TypesIn(e) ==
    (CASE e.node \in {"Ident", "Literal"} -> <<>>
       [] e.node = "Binary" -> TypesIn(e.lhs) \o TypesIn(e.rhs)
       [] e.node = "Let" ->
            Joined([i \in DOMAIN e.bindings |->
                        PatternTypes(e.bindings[i].pat) \o TypesIn(e.bindings[i].body)])
                \o TypesIn(e.body)
       [] e.node = "If" -> TypesIn(e.condition) \o TypesIn(e.then) \o TypesIn(e.else)
       [] e.node = "Fun" -> [i \in DOMAIN e.args |-> e.args[i].type] \o TypesIn(e.body)
       [] e.node = "Call" ->
            TypesIn(e.fun) \o [i \in DOMAIN TypeArgsOf(e) |-> e.typeArgs[TypeArgsOf(e)[i]]]
                \o Joined([i \in DOMAIN e.args |-> TypesIn(e.args[i])])
       [] e.node = "Tuple" -> Joined([i \in DOMAIN e.members |-> TypesIn(e.members[i])]))
    \o <<e.type>>

DeclTypes(d) ==
    IF d.decl = "Extern" THEN d.argTypes \o <<d.ret>>
    ELSE [i \in DOMAIN d.args |-> d.args[i].type] \o TypesIn(d.body) \o <<d.type>>

RECURSIVE MapPattern(_, _), MapTypes(_, _), Substitute(_, _)

\* The tree with each type replaced by what f maps it to.
MapPattern(pat, f) ==
    IF pat.pat = "Id" THEN [pat EXCEPT !.type = f[@]]
    ELSE [pat EXCEPT !.members = [i \in DOMAIN @ |-> MapPattern(@[i], f)]]

MapArgs(args, f) == [i \in DOMAIN args |-> [args[i] EXCEPT !.type = f[@]]]
MapAll(es, f) == [i \in DOMAIN es |-> MapTypes(es[i], f)]

MapTypes(expr, f) ==
    LET e == [expr EXCEPT !.type = f[@]]
    IN  CASE e.node \in {"Ident", "Literal"} -> e
          [] e.node = "Binary" -> [e EXCEPT !.lhs = MapTypes(@, f), !.rhs = MapTypes(@, f)]
          [] e.node = "Let" ->
                [e EXCEPT !.bindings = [i \in DOMAIN @ |-> [pat |-> MapPattern(@[i].pat, f),
                                                            body |-> MapTypes(@[i].body, f)]],
                          !.body = MapTypes(@, f)]
          [] e.node = "If" ->
                [e EXCEPT !.condition = MapTypes(@, f), !.then = MapTypes(@, f), !.else = MapTypes(@, f)]
          [] e.node = "Fun" -> [e EXCEPT !.args = MapArgs(@, f), !.body = MapTypes(@, f)]
          [] e.node = "Call" ->
                [e EXCEPT !.fun = MapTypes(@, f), !.args = MapAll(@, f),
                          !.typeArgs = [x \in DOMAIN @ |-> f[@[x]]]]
          [] e.node = "Tuple" -> [e EXCEPT !.members = MapAll(@, f)]

MapDecl(d, f) ==
    IF d.decl = "Extern" THEN [d EXCEPT !.argTypes = Mapped(@, f), !.ret = f[@]]
    ELSE [d EXCEPT !.args = MapArgs(@, f), !.body = MapTypes(@, f), !.type = f[@]]

\* The type variables of a type, in order, and the type with others in
\* their place.
VarsIn(ty) ==
    CASE ty.t = "var" -> <<ty.id>>
      [] ty.t = "tuple" -> Joined([i \in DOMAIN ty.of |-> VarsIn(ty.of[i])])
      [] ty.t = "fun" -> Joined([i \in DOMAIN ty.args |-> VarsIn(ty.args[i])]) \o VarsIn(ty.ret)
      [] OTHER -> <<>>

Substitute(ty, types) ==
    CASE ty.t = "var" -> types[ty.id]
      [] ty.t = "tuple" -> TTuple([i \in DOMAIN ty.of |-> Substitute(ty.of[i], types)])
      [] ty.t = "fun" -> TFun([i \in DOMAIN ty.args |-> Substitute(ty.args[i], types)],
                              Substitute(ty.ret, types))
      [] OTHER -> ty

\* How a type is written.
RECURSIVE Display(_)
DisplayAll(tys) ==
    FoldLeft(LAMBDA text, ty : IF text = "" THEN Display(ty) ELSE text \o ", " \o Display(ty), "", tys)
Display(ty) ==
    CASE IsPrim(ty) -> ty.t
      [] ty.t = "unit" -> "()"
      [] ty.t = "var" -> ty.id
      [] ty.t = "tuple" -> "(" \o DisplayAll(ty.of) \o ")"
      [] ty.t = "fun" -> "fn " \o DisplayAll(ty.args) \o " -> " \o Display(ty.ret)
================================================================================
