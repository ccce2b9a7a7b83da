----------------------------- MODULE NixLanguage -----------------------------
(***************************************************************************)
(* What a Nix expression means, independently of tvix: an interpreter by   *)
(* substitution (call by name), against which the compiler and the virtual *)
(* machine are checked.  There is no stack, no sharing and no thunk that   *)
(* changes; an expression in its environment is [e, env].                  *)
(*                                                                         *)
(* An environment is a sequence of frames, the innermost first: [names]    *)
(* binds names, [ns] is the set of a `with'.  A name is bound to a closed  *)
(* expression [e, env], or to an expression [e] that is read in the        *)
(* environment that starts at its own frame (let, rec).                    *)
(*                                                                         *)
(* Fuel bounds the depth of the evaluation; running out of it stands for   *)
(* infinite recursion.                                                     *)
(***************************************************************************)
EXTENDS Integers, Sequences, FiniteSets, SequencesExt, FiniteSetsExt, TLC

CONSTANT Fuel

\* Expressions.
Num(n) == [e |-> "Int", n |-> n]
Str(s) == [e |-> "Str", s |-> s]
Id(x) == [e |-> "Id", x |-> x]
Not(a) == [e |-> "Not", arg |-> a]
Negate(a) == [e |-> "Negate", arg |-> a]
Interp(parts) == [e |-> "Interp", parts |-> parts]
Bin(op, l, r) == [e |-> "Bin", op |-> op, l |-> l, r |-> r]
List(items) == [e |-> "List", items |-> items]
SetOf(rec, inherits, entries) ==
    [e |-> "Set", rec |-> rec, inherits |-> inherits, entries |-> entries]
Let(inherits, entries, body) ==
    [e |-> "Let", inherits |-> inherits, entries |-> entries, body |-> body]
LegacyLet(entries) == [e |-> "LegacyLet", rec |-> TRUE, inherits |-> <<>>, entries |-> entries]
Select(set, path) == [e |-> "Select", set |-> set, path |-> path]
SelectOr(set, path, default) ==
    [e |-> "SelectOr", set |-> set, path |-> path, default |-> default]
HasAttr(set, path) == [e |-> "HasAttr", set |-> set, path |-> path]
If(cond, body, else) == [e |-> "If", cond |-> cond, body |-> body, else |-> else]
Assertion(cond, body) == [e |-> "Assert", cond |-> cond, body |-> body]
With(ns, body) == [e |-> "With", ns |-> ns, body |-> body]
Apply(fn, arg) == [e |-> "Apply", fn |-> fn, arg |-> arg]
Fun(x, body) == [e |-> "Lambda", x |-> x, body |-> body]
Pattern(bind, formals, ellipsis, body) ==
    [e |-> "Pattern", bind |-> bind, formals |-> formals, ellipsis |-> ellipsis, body |-> body]
Formal(x) == [x |-> x, default |-> <<>>]
Default(x, e) == [x |-> x, default |-> <<e>>]
Inherit(names) == [from |-> <<>>, names |-> names]
InheritFrom(ns, names) == [from |-> <<ns>>, names |-> names]
Entry(path, value) == [path |-> [i \in DOMAIN path |-> Str(path[i])], value |-> value]
Dynamic(key, value) == [path |-> <<key>>, value |-> value]
Eq(x, value) == Entry(<<x>>, value)

-----------------------------------------------------------------------------
Err(kind) == [err |-> kind]
IsErr(v) == "err" \in DOMAIN v
BoolV(b) == [bool |-> b]

\* v with the error passed on, or next when it is of that kind of value.
Then(v, kind, next) ==
    IF IsErr(v) THEN v ELSE IF kind \notin DOMAIN v THEN Err("type") ELSE next

Closed(e, env) == [e |-> e, env |-> env]

\* What a name bound in the frame env starts with stands for.
Bound(b, env) == IF "env" \in DOMAIN b THEN b ELSE Closed(b.e, env)

Suffix(env, i) == SubSeq(env, i, Len(env))

\* The expression of a statically known key, which several bindings may
\* build up: { a.b = 1; a = { c = 2; }; }.
Key(en) == Head(en.path)
IsStaticKey(en) == Key(en).e = "Str"
Bodies(entries, x) == SelectSeq(entries, LAMBDA en : Key(en) = Str(x))

Definition(entries, x) ==
    LET ens == Bodies(entries, x)
        literal(en) == Len(en.path) = 1
        part(en) == IF literal(en) THEN en.value.entries
                    ELSE <<[path |-> Tail(en.path), value |-> en.value]>>
        inherited(en) == IF literal(en) THEN en.value.inherits ELSE <<>>
    IN  IF Len(ens) = 1 /\ literal(ens[1]) THEN ens[1].value
        ELSE SetOf(literal(ens[1]) /\ ens[1].value.rec,
                   FlattenSeq([i \in DOMAIN ens |-> inherited(ens[i])]),
                   FlattenSeq([i \in DOMAIN ens |-> part(ens[i])]))

\* The names that a let or an attribute set binds.
Names(node, env) ==
    LET plain == UNION {Range(i.names) : i \in {j \in Range(node.inherits) : j.from = <<>>}}
        from(x) == {i \in Range(node.inherits) : i.from # <<>> /\ x \in Range(i.names)}
        froms == UNION {Range(i.names) : i \in {j \in Range(node.inherits) : j.from # <<>>}}
        keys == {Key(en).s : en \in {n \in Range(node.entries) : IsStaticKey(n)}}
    IN  [x \in plain \cup froms \cup keys |->
            IF x \in plain THEN Closed(Id(x), env)
            ELSE IF x \in froms
            THEN [e |-> Select((CHOOSE i \in from(x) : TRUE).from[1], <<Str(x)>>)]
            ELSE [e |-> Definition(node.entries, x)]]

RECURSIVE Eval(_, _, _)
RECURSIVE EqualValues(_, _, _)
RECURSIVE Coerced(_, _, _)
RECURSIVE BuiltinValue(_, _, _)
RECURSIVE TreeOf(_, _)

ForceIt(t, fuel) == Eval(t.e, t.env, fuel)

Builtins1 == {"abort", "attrNames", "attrValues", "concatLists", "functionArgs",
              "genericClosure", "head", "isFunction", "isNull", "length", "listToAttrs",
              "stringLength", "tail", "throw", "toString", "tryEval", "typeOf"}
Builtins2 == {"add", "all", "any", "catAttrs", "concatMap", "concatStringsSep", "deepSeq",
              "div", "elem", "elemAt", "filter", "genList", "getAttr", "groupBy", "hasAttr",
              "intersectAttrs", "lessThan", "map", "mapAttrs", "partition", "removeAttrs",
              "seq", "sort"}
Builtins == Builtins1 \cup Builtins2 \cup {"foldl'", "substring"}

\* Those that have a name of their own.
GlobalBuiltins == {"abort", "isNull", "map", "removeAttrs", "throw", "toString"}

Global(x) ==
    CASE x = "true" -> BoolV(TRUE)
      [] x = "false" -> BoolV(FALSE)
      [] x = "null" -> [null |-> TRUE]
      [] x \in GlobalBuiltins -> [builtin |-> x, args |-> <<>>]
      [] x = "builtins" -> [attrs |-> [b \in Builtins |-> Closed([e |-> "Builtin", b |-> b], <<>>)]]

\* Lexical scope first, then the globals, then the innermost `with' that
\* has the name.
Lookup(x, env, fuel) ==
    LET lexical == {i \in DOMAIN env : "names" \in DOMAIN env[i] /\ x \in DOMAIN env[i].names}
        i == CHOOSE j \in lexical : \A k \in lexical : j <= k
        withs == SelectSeq(env, LAMBDA f : "ns" \in DOMAIN f)
        Search(found, f) ==
            IF found # <<>> THEN found
            ELSE LET ns == ForceIt(f.ns, fuel)
                     got == Then(ns, "attrs", ns)
                 IN  IF IsErr(got) THEN <<got>>
                     ELSE IF x \in DOMAIN ns.attrs THEN <<ForceIt(ns.attrs[x], fuel)>>
                     ELSE <<>>
        dynamic == FoldLeft(Search, <<>>, withs)
    IN  IF lexical # {} THEN ForceIt(Bound(env[i].names[x], Suffix(env, i)), fuel)
        ELSE IF x \in {"true", "false", "null", "builtins"} \cup GlobalBuiltins THEN Global(x)
        ELSE IF dynamic = <<>> THEN Err("unknown") ELSE dynamic[1]

\* The value of { .. }: dynamic keys are evaluated, a null key is dropped.
EvalSet(node, env, fuel) ==
    LET names == Names(node, env)
        inner == IF node.rec THEN <<[names |-> names]>> \o env ELSE env
        static == [x \in DOMAIN names |-> Bound(names[x], inner)]
        dynamic == SelectSeq(node.entries, LAMBDA en : ~IsStaticKey(en))
        Add(set, en) ==
            LET k == Eval(Key(en), inner, fuel)
            IN  IF IsErr(set) THEN set
                ELSE IF IsErr(k) THEN k
                ELSE IF "null" \in DOMAIN k THEN set
                ELSE IF "str" \notin DOMAIN k THEN Err("attrName")
                ELSE IF k.str \in DOMAIN set.attrs THEN Err("duplicate")
                ELSE [attrs |-> [x \in DOMAIN set.attrs \cup {k.str} |->
                        IF x = k.str THEN Closed(en.value, inner) ELSE set.attrs[x]]]
    IN  FoldLeft(Add, [attrs |-> static], dynamic)

\* One step along an attribute path; "missing" where there is none.
Pick(set, attr, env, fuel) ==
    LET k == Eval(attr, env, fuel)
    IN  IF IsErr(set) THEN set
        ELSE IF IsErr(k) THEN k
        ELSE IF "str" \notin DOMAIN k \/ "attrs" \notin DOMAIN set THEN Err("type")
        ELSE IF k.str \notin DOMAIN set.attrs THEN Err("missing")
        ELSE ForceIt(set.attrs[k.str], fuel)

\* Like Pick, but anything that has no such attribute is "absent".
TryPick(set, attr, env, fuel) ==
    LET k == Eval(attr, env, fuel)
    IN  IF IsErr(set) \/ IsErr(k) \/ "str" \notin DOMAIN k THEN Pick(set, attr, env, fuel)
        ELSE IF "attrs" \notin DOMAIN set THEN Err("absent")
        ELSE IF k.str \notin DOMAIN set.attrs THEN Err("absent")
        ELSE Pick(set, attr, env, fuel)

Call(f, arg, fuel) ==
    IF IsErr(f) THEN f
    ELSE IF "lambda" \in DOMAIN f /\ f.lambda.e = "Lambda"
    THEN Eval(f.lambda.body, <<[names |-> [x \in {f.lambda.x} |-> arg]]>> \o f.env, fuel)
    ELSE IF "lambda" \in DOMAIN f
    THEN LET p == f.lambda
             set == ForceIt(arg, fuel)
             formal(x) == CHOOSE i \in DOMAIN p.formals : p.formals[i].x = x
             xs == {p.formals[i].x : i \in DOMAIN p.formals}
             bind == IF p.bind = "" THEN {} ELSE {p.bind}
         IN  Then(set, "attrs",
                IF ~p.ellipsis /\ ~(DOMAIN set.attrs \subseteq xs) THEN Err("argument")
                ELSE IF \E x \in xs \ DOMAIN set.attrs : p.formals[formal(x)].default = <<>>
                THEN Err("missing")
                ELSE Eval(p.body, <<[names |-> [x \in xs \cup bind |->
                        IF x \in bind THEN arg
                        ELSE IF x \in DOMAIN set.attrs THEN set.attrs[x]
                        ELSE [e |-> p.formals[formal(x)].default[1]]]]>> \o f.env, fuel))
    ELSE IF "builtin" \in DOMAIN f
    THEN LET args == Append(f.args, arg)
             arity == IF f.builtin \in Builtins1 THEN 1
                      ELSE IF f.builtin \in Builtins2 THEN 2 ELSE 3
         IN  IF Len(args) < arity THEN [f EXCEPT !.args = args]
             ELSE BuiltinValue(f.builtin, args, fuel - 1)
    ELSE IF "attrs" \in DOMAIN f /\ "__functor" \in DOMAIN f.attrs
    THEN LET self == Eval([e |-> "Value", v |-> f], <<>>, fuel)
             method == ForceIt(f.attrs["__functor"], fuel)
         IN  Eval(Apply([e |-> "Called", f |-> method, arg |-> Closed([e |-> "Value", v |-> self], <<>>)],
                        [e |-> "Thunk", t |-> arg]), <<>>, fuel)
    ELSE Err("call")

\* Strings have some order; which one does not matter.
StringBefore(s, t) == s # t /\ SetToSeq({s, t})[1] = s

\* -1, 0 or 1; of lists the first elements that differ decide.
RECURSIVE Compared(_, _, _)
Compared(l, r, fuel) ==
    LET a == ForceIt(l.list[1], fuel)
        b == ForceIt(r.list[1], fuel)
        first == Compared(a, b, fuel)
        rest(v) == [list |-> Tail(v.list)]
    IN  IF "int" \in DOMAIN l /\ "int" \in DOMAIN r
        THEN [int |-> IF l.int < r.int THEN -1 ELSE IF l = r THEN 0 ELSE 1]
        ELSE IF "str" \in DOMAIN l /\ "str" \in DOMAIN r
        THEN [int |-> IF StringBefore(l.str, r.str) THEN -1 ELSE IF l = r THEN 0 ELSE 1]
        ELSE IF ~("list" \in DOMAIN l /\ "list" \in DOMAIN r) THEN Err("incomparable")
        ELSE IF l.list = <<>> \/ r.list = <<>>
        THEN [int |-> IF l.list # <<>> THEN 1 ELSE IF r.list # <<>> THEN -1 ELSE 0]
        ELSE IF IsErr(a) THEN a ELSE IF IsErr(b) THEN b
        ELSE IF EqualValues(a, b, fuel) = BoolV(TRUE) THEN Compared(rest(l), rest(r), fuel)
        ELSE first

Comparisons == "<" :> {-1} @@ "<=" :> {-1, 0} @@ ">" :> {1} @@ ">=" :> {0, 1}

Divided(a, b) ==
    LET size(n) == IF n < 0 THEN -n ELSE n
        q == size(a) \div size(b)
    IN  IF (a < 0) = (b < 0) THEN q ELSE -q

\* The string v stands for, where only sets that say how to become one do,
\* or (strong) most values.
Coerced(v, strong, fuel) ==
    LET method == ForceIt(v.attrs["__toString"], fuel)
        whole(t) == Coerced(ForceIt(t, fuel), TRUE, fuel)
        join(acc, t) == IF IsErr(acc) THEN acc ELSE IF IsErr(whole(t)) THEN whole(t)
                        ELSE [str |-> acc.str \o " " \o whole(t).str]
    IN  IF IsErr(v) \/ "str" \in DOMAIN v THEN v
        ELSE IF "attrs" \in DOMAIN v /\ "__toString" \in DOMAIN v.attrs
        THEN Coerced(Call(method, Closed([e |-> "Value", v |-> v], <<>>), fuel), strong, fuel)
        ELSE IF "attrs" \in DOMAIN v /\ "outPath" \in DOMAIN v.attrs
        THEN Coerced(ForceIt(v.attrs["outPath"], fuel), strong, fuel)
        ELSE IF ~strong THEN Err("coerce")
        ELSE IF "null" \in DOMAIN v \/ v = BoolV(FALSE) THEN [str |-> ""]
        ELSE IF v = BoolV(TRUE) THEN [str |-> "1"]
        ELSE IF "int" \in DOMAIN v THEN [str |-> ToString(v.int)]
        ELSE IF "list" \in DOMAIN v /\ v.list = <<>> THEN [str |-> ""]
        ELSE IF "list" \in DOMAIN v THEN FoldLeft(join, whole(v.list[1]), Tail(v.list))
        ELSE Err("coerce")

EvalBin(e, env, fuel) ==
    LET l == Eval(e.l, env, fuel)
        r == Eval(e.r, env, fuel)
        both(kind, v) == Then(l, kind, Then(r, kind, v))
        boolean == Then(r, "bool", r)
        eager(v) == IF IsErr(l) THEN l ELSE IF IsErr(r) THEN r ELSE v
        strings == {"str"} \cap (DOMAIN l \cup DOMAIN r) # {}
        joined == LET s == Coerced(l, FALSE, fuel)
                      t == Coerced(r, FALSE, fuel)
                  IN  Then(s, "str", Then(t, "str", [str |-> s.str \o t.str]))
        order == Compared(l, r, fuel)
        equal == EqualValues(l, r, fuel)
    IN  CASE e.op = "+" -> eager(IF strings THEN joined
                                 ELSE both("int", [int |-> l.int + r.int]))
          [] e.op = "-" -> eager(both("int", [int |-> l.int - r.int]))
          [] e.op = "*" -> eager(both("int", [int |-> l.int * r.int]))
          [] e.op = "/" -> eager(IF r = [int |-> 0] THEN Err("division")
                                 ELSE both("int", [int |-> Divided(l.int, r.int)]))
          [] e.op \in DOMAIN Comparisons ->
                eager(Then(order, "int", BoolV(order.int \in Comparisons[e.op])))
          [] e.op = "!=" -> eager(Then(equal, "bool", BoolV(~equal.bool)))
          [] e.op = "//" -> IF IsErr(l) THEN l ELSE IF IsErr(r) THEN r
                            ELSE both("attrs", [attrs |->
                                [x \in DOMAIN l.attrs \cup DOMAIN r.attrs |->
                                    IF x \in DOMAIN r.attrs THEN r.attrs[x] ELSE l.attrs[x]]])
          [] e.op = "++" -> IF IsErr(l) THEN l ELSE IF IsErr(r) THEN r
                            ELSE both("list", [list |-> l.list \o r.list])
          [] e.op = "==" -> IF IsErr(l) THEN l ELSE IF IsErr(r) THEN r
                            ELSE EqualValues(l, r, fuel)
          [] e.op = "&&" -> Then(l, "bool", IF l.bool THEN boolean ELSE l)
          [] e.op = "||" -> Then(l, "bool", IF l.bool THEN l ELSE boolean)
          [] e.op = "->" -> Then(l, "bool", IF l.bool THEN boolean ELSE BoolV(TRUE))

\* Values are equal when their parts are; functions never are.
EqualValues(l, r, fuel0) ==
    LET fuel == fuel0 - 1
        parts(xs, f(_), g(_)) ==
            FoldLeft(LAMBDA acc, x :
                        IF acc # BoolV(TRUE) THEN acc
                        ELSE LET a == ForceIt(f(x), fuel)
                                 b == ForceIt(g(x), fuel)
                             IN  IF IsErr(a) THEN a ELSE IF IsErr(b) THEN b
                                 ELSE EqualValues(a, b, fuel),
                     BoolV(TRUE), xs)
    IN  IF fuel0 = 0 THEN Err("recursion")
        ELSE IF "list" \in DOMAIN l /\ "list" \in DOMAIN r
        THEN IF Len(l.list) # Len(r.list) THEN BoolV(FALSE)
             ELSE parts([i \in DOMAIN l.list |-> i], LAMBDA i : l.list[i], LAMBDA i : r.list[i])
        ELSE IF "attrs" \in DOMAIN l /\ "attrs" \in DOMAIN r
        THEN IF DOMAIN l.attrs # DOMAIN r.attrs THEN BoolV(FALSE)
             ELSE parts(SetToSeq(DOMAIN l.attrs), LAMBDA x : l.attrs[x], LAMBDA x : r.attrs[x])
        ELSE BoolV(l = r /\ \E k \in {"null", "bool", "int", "str"} : k \in DOMAIN l)

-----------------------------------------------------------------------------
(* The builtins: what each one promises, not how it is computed.           *)

Lazily(v) == Closed([e |-> "Value", v |-> v], <<>>)
Later(f, t) == Closed([e |-> "Called", f |-> f, arg |-> t], <<>>)
Strings(names) == [list |-> [i \in DOMAIN names |-> Lazily([str |-> names[i]])]]

TypeName(v) ==
    LET names == "int" :> "int" @@ "bool" :> "bool" @@ "str" :> "string" @@ "null" :> "null"
                 @@ "list" :> "list" @@ "attrs" :> "set" @@ "lambda" :> "lambda"
                 @@ "builtin" :> "lambda"
    IN  names[CHOOSE k \in DOMAIN names : k \in DOMAIN v]

\* f over the sequence xs from acc on, up to the first error.
Over(xs, acc, f(_, _)) == FoldLeft(LAMBDA a, x : IF IsErr(a) THEN a ELSE f(a, x), acc, xs)

\* The lists items(x) one after another.
Flattened(xs, items(_), fuel) ==
    Over(xs, [list |-> <<>>], LAMBDA acc, x : LET v == items(x) IN
            Then(v, "list", [list |-> acc.list \o v.list]))

\* The elements of xs that answer the predicate with a Boolean that is b.
Chosen(xs, b, pred(_)) ==
    Over(xs, [list |-> <<>>], LAMBDA acc, x : LET v == pred(x) IN
            Then(v, "bool", IF v.bool = b THEN [list |-> Append(acc.list, x)] ELSE acc))

\* What the elements of xs are called, or an error.
NamesOf(xs, name(_)) ==
    Over(xs, [names |-> <<>>], LAMBDA acc, x : LET v == name(x) IN
            Then(v, "str", [names |-> Append(acc.names, v.str)]))

\* Every element of todo and what the operator makes of it, each key once.
RECURSIVE Reachable(_, _, _, _)
Reachable(todo, op, found, fuel) ==
    LET item == ForceIt(todo[1], fuel)
        key == ForceIt(item.attrs["key"], fuel)
        more == Call(op, todo[1], fuel)
        known == \E i \in DOMAIN found :
                    EqualValues(ForceIt(ForceIt(found[i], fuel).attrs["key"], fuel), key, fuel) = BoolV(TRUE)
    IN  IF todo = <<>> THEN [list |-> found]
        ELSE IF fuel = 0 THEN Err("recursion")
        ELSE Then(item, "attrs",
                IF "key" \notin DOMAIN item.attrs THEN Err("missing")
                ELSE IF IsErr(key) THEN key
                ELSE IF known THEN Reachable(Tail(todo), op, found, fuel - 1)
                ELSE Then(more, "list", Reachable(Tail(todo) \o more.list, op,
                                                  Append(found, todo[1]), fuel - 1)))

BuiltinValue(b, args, fuel) ==
    LET x == ForceIt(args[1], fuel)
        y == ForceIt(args[2], fuel)
        z == ForceIt(args[3], fuel)
        call(t) == Call(x, t, fuel)
        element(v, i) == IF i \in DOMAIN v.list THEN ForceIt(v.list[i], fuel) ELSE Err("index")
        attr(t, n) == LET v == ForceIt(t, fuel) IN
                      Then(v, "attrs", IF n \in DOMAIN v.attrs THEN ForceIt(v.attrs[n], fuel)
                                       ELSE Err("missing"))
        truth(t, b1) == LET v == call(t) IN Then(v, "bool", BoolV(v.bool = b1))
        chosen(b1) == Chosen(y.list, b1, call)
        grouped == NamesOf(y.list, call)
        named == NamesOf(x.list, LAMBDA t : LET n == attr(t, "name") IN
                    IF IsErr(n) \/ "value" \in DOMAIN ForceIt(t, fuel).attrs THEN n ELSE Err("missing"))
        keys == NamesOf(y.list, LAMBDA t : ForceIt(t, fuel))
        attempt(ok, v) == [attrs |-> [n \in {"success", "value"} |->
                                Lazily(IF n = "success" THEN BoolV(ok) ELSE v)]]
        compare(i, j) == LET v == Call(Call(x, y.list[i], fuel), y.list[j], fuel) IN Then(v, "bool", v)
        less(i, j) == compare(i, j) = BoolV(TRUE)
        failures == {v \in {compare(i, j) : i, j \in DOMAIN y.list} : IsErr(v)}
        rank(i) == Cardinality({j \in DOMAIN y.list :
                                    less(j, i) \/ (j < i /\ ~less(i, j))}) + 1
        set(v, outcome) == Then(v, "attrs", outcome)
        list(v, outcome) == Then(v, "list", outcome)
        strict(outcome) == IF IsErr(x) THEN x ELSE IF IsErr(y) THEN y ELSE outcome
        order == Compared(x, y, fuel)
        pairwise(pred(_), base) == Over(y.list, base, LAMBDA acc, t : IF acc # base THEN acc ELSE pred(t))
    IN  CASE b \in {"abort", "throw"} -> Then(x, "str", Err(b))
          [] b = "tryEval" -> IF x \in {Err("throw"), Err("assert")} THEN attempt(FALSE, BoolV(FALSE))
                              ELSE IF IsErr(x) THEN x ELSE attempt(TRUE, x)
          [] b = "seq" -> strict(y)
          [] b = "deepSeq" -> strict(LET t == TreeOf(x, 5) IN IF IsErr(t) THEN t ELSE y)
          [] b = "toString" -> Coerced(x, TRUE, fuel)
          [] b = "stringLength" -> LET s == Coerced(x, FALSE, fuel) IN Then(s, "str", [int |-> Len(s.str)])
          [] b = "typeOf" -> IF IsErr(x) THEN x ELSE [str |-> TypeName(x)]
          [] b = "isNull" -> IF IsErr(x) THEN x ELSE BoolV(TypeName(x) = "null")
          [] b = "isFunction" -> IF IsErr(x) THEN x ELSE BoolV(TypeName(x) = "lambda")
          [] b = "functionArgs" ->
                Then(x, "lambda", [attrs |->
                    IF x.lambda.e = "Lambda" THEN [n \in {} |-> 0]
                    ELSE [n \in {f.x : f \in Range(x.lambda.formals)} |-> Lazily(BoolV(
                            \E f \in Range(x.lambda.formals) : f.x = n /\ f.default # <<>>))]])
          [] b = "add" -> strict(Then(x, "int", Then(y, "int", [int |-> x.int + y.int])))
          [] b = "div" -> strict(Then(x, "int", Then(y, "int", [int |-> Divided(x.int, y.int)])))
          [] b = "lessThan" -> strict(Then(order, "int", BoolV(order.int = -1)))
          [] b = "substring" ->
                strict(IF x.int < 0 THEN Err("index")
                       ELSE [str |-> SubSeq(z.str, x.int + 1,
                                            Min({x.int + y.int, Len(z.str)}))])
          [] b = "attrNames" -> set(x, Strings(SetToSeq(DOMAIN x.attrs)))
          [] b = "attrValues" -> set(x, LET ns == SetToSeq(DOMAIN x.attrs)
                                        IN  [list |-> [i \in DOMAIN ns |-> x.attrs[ns[i]]]])
          [] b = "getAttr" -> strict(attr(args[2], x.str))
          [] b = "hasAttr" -> strict(set(y, BoolV(x.str \in DOMAIN y.attrs)))
          [] b = "intersectAttrs" ->
                strict(set(x, set(y, [attrs |-> Restrict(y.attrs, DOMAIN x.attrs \cap DOMAIN y.attrs)])))
          [] b = "removeAttrs" ->
                strict(set(x, Then(keys, "names",
                    [attrs |-> Restrict(x.attrs, DOMAIN x.attrs \ Range(keys.names))])))
          [] b = "listToAttrs" ->
                list(x, Then(named, "names", [attrs |->
                    [n \in Range(named.names) |->
                        ForceIt(x.list[CHOOSE i \in DOMAIN x.list : named.names[i] = n
                                  /\ \A j \in 1..(i - 1) : named.names[j] # n], fuel).attrs["value"]]]))
          [] b = "mapAttrs" ->
                strict(set(y, [attrs |-> [n \in DOMAIN y.attrs |->
                    Later(Call(x, Lazily([str |-> n]), fuel), y.attrs[n])]]))
          [] b = "catAttrs" ->
                strict(list(y, Flattened(y.list, LAMBDA t : LET v == ForceIt(t, fuel) IN
                    set(v, [list |-> IF x.str \in DOMAIN v.attrs THEN <<v.attrs[x.str]>> ELSE <<>>]), fuel)))
          [] b = "head" -> list(x, element(x, 1))
          [] b = "tail" -> list(x, IF x.list = <<>> THEN Err("tail") ELSE [list |-> Tail(x.list)])
          [] b = "length" -> list(x, [int |-> Len(x.list)])
          [] b = "elemAt" -> strict(list(x, Then(y, "int", element(x, y.int + 1))))
          [] b = "map" -> strict(list(y, [list |-> [i \in DOMAIN y.list |-> Later(x, y.list[i])]]))
          [] b = "genList" ->
                strict(Then(y, "int", [list |-> [i \in 1..y.int |-> Later(x, Lazily([int |-> i - 1]))]]))
          [] b = "concatLists" -> list(x, Flattened(x.list, LAMBDA t : ForceIt(t, fuel), fuel))
          [] b = "concatMap" -> strict(list(y, Flattened(y.list, call, fuel)))
          [] b = "filter" -> strict(list(y, chosen(TRUE)))
          [] b = "partition" ->
                strict(list(y, IF IsErr(chosen(TRUE)) THEN chosen(TRUE)
                               ELSE [attrs |-> "right" :> Lazily(chosen(TRUE))
                                               @@ "wrong" :> Lazily(chosen(FALSE))]))
          [] b = "groupBy" ->
                strict(list(y, Then(grouped, "names", [attrs |->
                    [n \in Range(grouped.names) |->
                        LET is == SelectSeq([i \in DOMAIN y.list |-> i], LAMBDA i : grouped.names[i] = n)
                        IN  Lazily([list |-> [k \in DOMAIN is |-> y.list[is[k]]]])]])))
          [] b = "all" -> strict(list(y, pairwise(call, BoolV(TRUE))))
          [] b = "any" -> strict(list(y, pairwise(call, BoolV(FALSE))))
          [] b = "elem" ->
                strict(list(y, pairwise(LAMBDA t : LET v == ForceIt(t, fuel) IN
                    IF IsErr(v) THEN v ELSE EqualValues(v, x, fuel), BoolV(FALSE))))
          [] b = "foldl'" ->
                IF IsErr(x) THEN x
                ELSE Then(z, "list", IF z.list = <<>> THEN y
                     ELSE Over(Tail(z.list), Call(Call(x, args[2], fuel), z.list[1], fuel),
                               LAMBDA acc, t : Call(Call(x, Lazily(acc), fuel), t, fuel)))
          [] b = "concatStringsSep" ->
                strict(list(y, Over([i \in DOMAIN y.list |-> i], [str |-> ""], LAMBDA acc, i :
                    LET s == Coerced(ForceIt(y.list[i], fuel), FALSE, fuel)
                    IN  Then(s, "str", [str |-> acc.str \o (IF i = 1 THEN "" ELSE x.str) \o s.str]))))
          [] b = "sort" ->
                strict(list(y, IF Len(y.list) > 1 /\ failures # {} THEN CHOOSE v \in failures : TRUE
                               ELSE [list |-> [k \in DOMAIN y.list |->
                    y.list[CHOOSE i \in DOMAIN y.list : rank(i) = k]]]))
          [] b = "genericClosure" ->
                set(x, LET start == attr(args[1], "startSet")
                           op == attr(args[1], "operator")
                       IN  list(start, Reachable(start.list, op, <<>>, fuel)))

-----------------------------------------------------------------------------
\* The value of e to weak head normal form.
Eval(e, env, fuel0) ==
    LET fuel == fuel0 - 1
        cond == Eval(e.cond, env, fuel)
        walk == FoldLeft(LAMBDA set, attr : Pick(set, attr, env, fuel),
                         Eval(e.set, env, fuel), e.path)
        tried == FoldLeft(LAMBDA set, attr : TryPick(set, attr, env, fuel),
                          Eval(e.set, env, fuel), e.path)
        prefix == FoldLeft(LAMBDA set, attr : TryPick(set, attr, env, fuel),
                           Eval(e.set, env, fuel), Front(e.path))
        last == Eval(Last(e.path), env, fuel)
        rec == <<[names |-> Names(e, env)]>> \o env
        arg == Eval(e.arg, env, fuel)
    IN  IF fuel0 = 0 THEN Err("recursion")
        ELSE CASE e.e = "Int" -> [int |-> e.n]
               [] e.e = "Str" -> [str |-> e.s]
               [] e.e = "Value" -> e.v
               [] e.e = "Thunk" -> ForceIt(e.t, fuel)
               [] e.e = "Builtin" -> [builtin |-> e.b, args |-> <<>>]
               [] e.e = "Called" -> Call(e.f, e.arg, fuel)
               [] e.e = "Id" -> Lookup(e.x, env, fuel)
               [] e.e = "Not" -> Then(arg, "bool", BoolV(~arg.bool))
               [] e.e = "Negate" -> Then(arg, "int", [int |-> -arg.int])
               [] e.e = "Interp" ->
                    FoldLeft(LAMBDA acc, part :
                                LET s == Coerced(Eval(part, env, fuel), FALSE, fuel)
                                IN  Then(acc, "str", Then(s, "str", [str |-> acc.str \o s.str])),
                             [str |-> ""], e.parts)
               [] e.e = "Bin" -> EvalBin(e, env, fuel)
               [] e.e = "List" -> [list |-> [i \in DOMAIN e.items |-> Closed(e.items[i], env)]]
               [] e.e = "Set" -> EvalSet(e, env, fuel)
               [] e.e = "Let" -> Eval(e.body, rec, fuel)
               [] e.e = "LegacyLet" -> Eval(Select(SetOf(TRUE, e.inherits, e.entries),
                                                   <<Str("body")>>), env, fuel)
               [] e.e = "Select" -> walk
               [] e.e = "SelectOr" -> IF tried = Err("absent") THEN Eval(e.default, env, fuel)
                                      ELSE tried
               [] e.e = "HasAttr" ->
                    IF prefix = Err("absent") THEN BoolV(FALSE)
                    ELSE IF IsErr(prefix) THEN prefix
                    ELSE BoolV("attrs" \in DOMAIN prefix /\ last.str \in DOMAIN prefix.attrs)
               [] e.e = "If" -> Then(cond, "bool",
                                     Eval(IF cond.bool THEN e.body ELSE e.else, env, fuel))
               [] e.e = "Assert" -> Then(cond, "bool", IF cond.bool THEN Eval(e.body, env, fuel)
                                                       ELSE Err("assert"))
               [] e.e = "With" -> Eval(e.body, <<[ns |-> Closed(e.ns, env)]>> \o env, fuel)
               [] e.e = "Apply" -> Call(Eval(e.fn, env, fuel), Closed(e.arg, env), fuel)
               [] e.e \in {"Lambda", "Pattern"} -> [lambda |-> e, env |-> env]

-----------------------------------------------------------------------------
\* A value with its parts down to a depth, functions and deeper parts not
\* told apart; an error in a part is an error of the whole.
TreeOf(v, depth) ==
    LET parts(f) == [x \in DOMAIN f |-> TreeOf(ForceIt(f[x], Fuel), depth - 1)]
        whole(kind, f) ==
            LET ts == parts(f)
            IN  IF \E x \in DOMAIN ts : IsErr(ts[x])
                THEN ts[CHOOSE x \in DOMAIN ts : IsErr(ts[x])]
                ELSE [k \in {kind} |-> ts]
    IN  IF IsErr(v) THEN v
        ELSE IF depth = 0 THEN [deeper |-> TRUE]
        ELSE IF "list" \in DOMAIN v THEN whole("list", v.list)
        ELSE IF "attrs" \in DOMAIN v THEN whole("attrs", v.attrs)
        ELSE IF "lambda" \in DOMAIN v \/ "builtin" \in DOMAIN v THEN [function |-> TRUE]
        ELSE v

\* What a whole program evaluates to.
Meaning(e, depth) == TreeOf(Eval(e, <<>>, Fuel), depth)
=============================================================================
