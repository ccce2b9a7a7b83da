----------------------------- MODULE LoxLanguage -----------------------------
(***************************************************************************)
(* What a Lox program means, said without environments that enclose each   *)
(* other, depths or a stack: a name stands for a place in a store, a       *)
(* function remembers what every name stood for where it was declared.     *)
(* The interpreters are compared with it; it models none of the code.      *)
(*                                                                         *)
(* A context c maps the names in scope to places; c.own are the names of   *)
(* the innermost scope.  A world w is the store and the output.            *)
(* The tokens of a source are its longest lexemes, from the left.          *)
(***************************************************************************)
EXTENDS LoxParser, LoxScanner

LOCAL Put(c, w, x, v) ==
    IF x \in c.own
    THEN [c |-> c, w |-> [w EXCEPT !.store[c.places[x]] = v]]
    ELSE [c |-> [places |-> (x :> Len(w.store) + 1) @@ c.places, own |-> c.own \cup {x}],
          w |-> [w EXCEPT !.store = Append(@, v)]]

LOCAL Value(w, v) == [tag |-> "ok", value |-> v, w |-> w]
LOCAL Wrong(w) == [tag |-> "error", value |-> Nil, w |-> w]
LOCAL And(r, Go(_, _)) == IF r.tag = "ok" THEN Go(r.w, r.value) ELSE r

LOCAL True(v) == v.type \notin {"nil", "boolean"} \/ (v.type = "boolean" /\ v.of)

LOCAL SameLox(l, r) ==
    /\ l.type = r.type
    /\ l.type \in {"nil", "boolean", "number", "string"}
    /\ l.of = r.of

LOCAL Operation(w, op, l, r) ==
    LET numbers == l.type = "number" /\ r.type = "number"
        strings == l.type = "string" /\ r.type = "string"
    IN  CASE op = "==" -> Value(w, Boolean(SameLox(l, r)))
          [] op = "!=" -> Value(w, Boolean(~SameLox(l, r)))
          [] op = "+" /\ strings -> Value(w, String(l.of \o r.of))
          [] op \notin {"==", "!="} /\ numbers ->
                Value(w, CASE op = "+" -> Number(l.of + r.of)
                           [] op = "-" -> Number(l.of - r.of)
                           [] op = "*" -> Number(l.of * r.of)
                           [] op = "/" -> Number(l.of \div r.of)
                           [] op = "<" -> Boolean(l.of < r.of)
                           [] op = "<=" -> Boolean(l.of <= r.of)
                           [] op = ">" -> Boolean(l.of > r.of)
                           [] op = ">=" -> Boolean(l.of >= r.of))
          [] OTHER -> Wrong(w)

RECURSIVE Means(_, _, _), Does(_, _, _), DoesAll(_, _, _, _), MeansAll(_, _, _, _), Binds(_, _, _, _)

MeansAll(c, w, es, done) ==
    IF es = <<>> THEN Value(w, done)
    ELSE And(Means(c, w, Head(es)), LAMBDA u, v : MeansAll(c, u, Tail(es), Append(done, v)))

\* A context and a world in which the parameters stand for the arguments.
Binds(c, w, xs, args) ==
    IF xs = <<>> THEN [c |-> c, w |-> w]
    ELSE LET p == Put(c, w, Head(xs), Head(args)) IN Binds(p.c, p.w, Tail(xs), Tail(args))

LOCAL Called(w, f, args) ==
    CASE f.type = "builtin" /\ args = <<>> -> Value(w, Number(Now))
      [] f.type = "function" /\ Len(args) = Len(f.of.params) ->
            LET b == Binds([f.context EXCEPT !.own = {}], w, f.of.params, args)
                r == DoesAll(b.c, b.w, f.of.body, Nil)
            IN  IF r.tag = "return" THEN Value(r.w, r.value) ELSE r
      [] OTHER -> Wrong(w)

Means(c, w, e) ==
    CASE e.node = "Literal" -> Value(w, e.value)
      [] e.node = "Grouping" -> Means(c, w, e.inner)
      [] e.node = "Variable" ->
            IF e.name \in DOMAIN c.places THEN Value(w, w.store[c.places[e.name]]) ELSE Wrong(w)
      [] e.node = "Assign" ->
            And(Means(c, w, e.value), LAMBDA u, v :
                IF e.name \in DOMAIN c.places
                THEN Value([u EXCEPT !.store[c.places[e.name]] = v], v) ELSE Wrong(u))
      [] e.node = "Unary" ->
            And(Means(c, w, e.right), LAMBDA u, v :
                CASE e.op = "!" -> Value(u, Boolean(~True(v)))
                  [] e.op = "-" /\ v.type = "number" -> Value(u, Number(-v.of))
                  [] OTHER -> Wrong(u))
      [] e.node = "Logical" ->
            And(Means(c, w, e.left), LAMBDA u, v :
                IF True(v) = (e.op = "or") THEN Value(u, v) ELSE Means(c, u, e.right))
      [] e.node = "Binary" ->
            And(Means(c, w, e.left), LAMBDA u, l :
                And(Means(c, u, e.right), LAMBDA x, r : Operation(x, e.op, l, r)))
      [] e.node = "Call" ->
            And(Means(c, w, e.callee), LAMBDA u, f :
                And(MeansAll(c, u, e.args, <<>>), LAMBDA x, args : Called(x, f, args)))

\* A statement may bind a name: the context is returned as well.
LOCAL In(c, r) == [tag |-> r.tag, value |-> r.value, w |-> r.w, c |-> c]

RECURSIVE Repeats(_, _, _, _)
Repeats(c, w, s, last) ==
    LET r == Means(c, w, s.condition)
        b == Does(c, r.w, s.body)
    IN  CASE r.tag # "ok" -> In(c, r)
          [] r.tag = "ok" /\ ~True(r.value) -> In(c, Value(r.w, last))
          [] r.tag = "ok" /\ True(r.value) ->
                IF b.tag = "ok" THEN Repeats(c, b.w, s, b.value) ELSE In(c, b)

Does(c, w, s) ==
    CASE s.node = "Expr" -> In(c, Means(c, w, s.expr))
      [] s.node = "Print" ->
            In(c, And(Means(c, w, s.expr), LAMBDA u, v :
                    Value([u EXCEPT !.out = Append(@, v)], String(<<"printed">>))))
      [] s.node = "Return" ->
            LET r == Means(c, w, s.expr)
            IN  In(c, IF r.tag = "ok" THEN [r EXCEPT !.tag = "return"] ELSE r)
      [] s.node = "Var" ->
            LET r == IF s.init = <<>> THEN Value(w, Nil) ELSE Means(c, w, s.init[1])
                p == Put(c, r.w, s.name, r.value)
            IN  IF r.tag = "ok" THEN In(p.c, Value(p.w, r.value)) ELSE In(c, r)
      [] s.node = "Function" ->
            LET p == Put(c, w, s.name, Nil)
                f == [type |-> "function", of |-> s, context |-> p.c]
            IN  In(p.c, Value([p.w EXCEPT !.store[p.c.places[s.name]] = f], f))
      [] s.node = "Block" -> In(c, DoesAll([c EXCEPT !.own = {}], w, s.body, Nil))
      [] s.node = "While" -> Repeats(c, w, s, Nil)
      [] s.node = "If" ->
            LET r == Means(c, w, s.condition)
            IN  CASE r.tag # "ok" -> In(c, r)
                  [] r.tag = "ok" /\ True(r.value) -> Does(c, r.w, s.yes)
                  [] r.tag = "ok" /\ ~True(r.value) ->
                        IF s.no = <<>> THEN In(c, Value(r.w, Nil)) ELSE Does(c, r.w, s.no[1])

DoesAll(c, w, stmts, last) ==
    IF stmts = <<>> THEN In(c, Value(w, last))
    ELSE LET r == Does(c, w, Head(stmts))
         IN  IF r.tag = "ok" THEN DoesAll(r.c, r.w, Tail(stmts), r.value) ELSE r

\* Where every program starts: nothing but the clock is known.
LOCAL Start == [places |-> "clock" :> 1, own |-> {}]
LOCAL World == [store |-> <<[type |-> "builtin", of |-> "clock"]>>, out |-> <<>>]

\* What each token is written as.
CharsOf ==
    Keywords @@ Spelling @@ [t \in Single \cup DOMAIN WithEqual \cup {"/"} |-> <<t>>]
    @@ [t \in {"!=", "==", "<=", ">="} |-> <<CHOOSE ch \in DOMAIN WithEqual : WithEqual[ch] = t, "=">>]

LOCAL All(chars, S) == \A i \in DOMAIN chars : chars[i] \in S
LOCAL Operator(chars) ==
    Len(chars) < 3 /\ chars[1] \notin Letters \cup Digits \cup Spaces /\ \E t \in DOMAIN CharsOf : CharsOf[t] = chars
LOCAL Word(chars) == chars[1] \in Letters /\ All(chars, Letters \cup Digits)
LOCAL Numeral(chars) ==
    chars[1] \in Digits /\ \E k \in DOMAIN chars :
        /\ All(SubSeq(chars, 1, k), Digits)
        /\ \/ k = Len(chars)
           \/ k + 1 < Len(chars) /\ chars[k + 1] = "." /\ All(SubSeq(chars, k + 2, Len(chars)), Digits)
LOCAL Text(chars) ==
    Len(chars) > 1 /\ chars[1] = "\"" /\ {i \in DOMAIN chars : chars[i] = "\""} = {1, Len(chars)}
LOCAL Space(chars) ==
    \/ Len(chars) = 1 /\ chars[1] \in Spaces
    \/ Len(chars) > 1 /\ chars[1] = "/" /\ chars[2] = "/" /\ All(chars, {chars[i] : i \in DOMAIN chars} \ {"\n"})
LOCAL Lexeme(chars) == Operator(chars) \/ Word(chars) \/ Numeral(chars) \/ Text(chars) \/ Space(chars)

\* The tokens of the characters from i on, or "?" where there is none.  (No
\* lexeme of a source that is looked at is longer than 8 characters.)
RECURSIVE TokensFrom(_, _)
TokensFrom(src, i) ==
    LET ends == {j \in i..Len(src) : j < i + 8 /\ Lexeme(SubSeq(src, i, j))}
        end == CHOOSE j \in ends : \A k \in ends : k <= j
        chars == SubSeq(src, i, end)
    IN  IF i > Len(src) THEN <<"eof">>
        ELSE IF ends = {} THEN <<"?", "eof">>
        ELSE (IF Space(chars) THEN <<>> ELSE <<CHOOSE t \in DOMAIN CharsOf : CharsOf[t] = chars>>)
             \o TokensFrom(src, end + 1)

\* What a program prints and yields, and whether it fails.
MeaningOf(program) ==
    LET r == DoesAll(Start, World, program, Nil)
    IN  [fails |-> r.tag # "ok", value |-> r.value, out |-> r.w.out]
=============================================================================
