-------------------------------- MODULE MCTvix --------------------------------
(***************************************************************************)
(* tvix as a whole: source programs are compiled, run and compared with    *)
(* what the language says they mean.                                       *)
(***************************************************************************)
EXTENDS TvixVM, NixLanguage

CONSTANT Intended(_)   \* what the program of that name should evaluate to

builtin(b) == [builtin |-> b, args |-> <<>>]

MCGlobals ==
    [x \in {"true", "false", "null", "builtins"} \cup GlobalBuiltins |->
        CASE x = "true" -> [op |-> "True", arg |-> 0]
          [] x = "false" -> [op |-> "False", arg |-> 0]
          [] x = "null" -> [op |-> "Null", arg |-> 0]
          [] x = "builtins" -> [op |-> "Constant", arg |-> [attrs |-> 1]]
          [] OTHER -> [op |-> "Constant", arg |-> builtin(x)]]

MCGlobalHeap == <<[set |-> MapRep([b \in Builtins |-> builtin(b)])]>>

Compiler == INSTANCE TvixCompiler WITH Globals <- MCGlobals, GlobalHeap <- MCGlobalHeap

-----------------------------------------------------------------------------
(* Abbreviations for sources. *)
N(n) == Num(n)
Plus(l, r) == Bin("+", l, r)
LetIn(entries, body) == Let(<<>>, entries, body)
Attrs(entries) == SetOf(FALSE, <<>>, entries)
Rec(entries) == SetOf(TRUE, <<>>, entries)
Get(e, x) == Select(e, <<Str(x)>>)
Builtin(b) == Get(Id("builtins"), b)
Try(e) == Apply(Builtin("tryEval"), e)
Throw == Apply(Id("throw"), Str("e"))
Oops == Assertion(Id("false"), N(1))
One(x, e) == Attrs(<<Eq(x, e)>>)

B2(b, x, y) == Apply(Apply(Builtin(b), x), y)
B3(b, x, y, z) == Apply(B2(b, x, y), z)
B1(b, x) == Apply(Builtin(b), x)
Fun2(x, y, e) == Fun(x, Fun(y, e))
Ints(ns) == List([i \in DOMAIN ns |-> N(ns[i])])
Empty == Attrs(<<>>)

\* The programs of src/tvix/eval/src/tests that turn on the scopes, on
\* laziness or on recursion, and some that combine them.
ScopeExamples == <<
    \* let a = b; b = c; c = 42; in a
    LetIn(<<Eq("a", Id("b")), Eq("b", Id("c")), Eq("c", N(42))>>, Id("a")),
    \* let f = n: n + a; a = 2; in f 40
    LetIn(<<Eq("f", Fun("n", Plus(Id("n"), Id("a")))), Eq("a", N(2))>>, Apply(Id("f"), N(40))),
    \* let fix = f: let x = f x; in x; in fix (self: { a = 1; b = self.a + 20; })
    LetIn(<<Eq("fix", Fun("f", LetIn(<<Eq("x", Apply(Id("f"), Id("x")))>>, Id("x"))))>>,
        Apply(Id("fix"), Fun("self", Attrs(<<Eq("a", N(1)),
                                             Eq("b", Plus(Get(Id("self"), "a"), N(20)))>>)))),
    \* let f = n: if n == 3 then "done" else f (n + 1); in f 0
    LetIn(<<Eq("f", Fun("n", If(Bin("==", Id("n"), N(3)), Str("done"),
                                Apply(Id("f"), Plus(Id("n"), N(1))))))>>, Apply(Id("f"), N(0))),
    \* let doubler = n: outer n; outer = let inner = n: a + n; a = 2; in inner; in doubler 10
    LetIn(<<Eq("doubler", Fun("n", Apply(Id("outer"), Id("n")))),
            Eq("outer", LetIn(<<Eq("inner", Fun("n", Plus(Id("a"), Id("n")))), Eq("a", N(2))>>,
                              Id("inner")))>>, Apply(Id("doubler"), N(10))),
    \* let a = { a = 3; b = b.b; }; b = { a = a.a + 2; b = 2; c = a.c or 3; }; in a // b
    LetIn(<<Eq("a", Attrs(<<Eq("a", N(3)), Eq("b", Get(Id("b"), "b"))>>)),
            Eq("b", Attrs(<<Eq("a", Plus(Get(Id("a"), "a"), N(2))), Eq("b", N(2)),
                            Eq("c", SelectOr(Id("a"), <<Str("c")>>, N(3)))>>))>>,
        Bin("//", Id("a"), Id("b"))),
    \* let inherit (c) d; inherit (a) b c; a = { b = 20; c = { d = 3; }; }; in b + d
    Let(<<InheritFrom(Id("c"), <<"d">>), InheritFrom(Id("a"), <<"b", "c">>)>>,
        <<Eq("a", Attrs(<<Eq("b", N(20)), Eq("c", One("d", N(3)))>>))>>, Plus(Id("b"), Id("d"))),
    \* with { a = 1; }; let inherit a; in with { a = 2; }; a
    With(One("a", N(1)), Let(<<Inherit(<<"a">>)>>, <<>>, With(One("a", N(2)), Id("a")))),
    \* let set = with set; { a = 21; b = a + 2; }; in set.b
    LetIn(<<Eq("set", With(Id("set"), Attrs(<<Eq("a", N(21)), Eq("b", Plus(Id("a"), N(2)))>>)))>>,
        Get(Id("set"), "b")),
    \* with { a = 1; b = 1; }; with { b = 2; c = 2; }; [ a b c ]
    With(Attrs(<<Eq("a", N(1)), Eq("b", N(1))>>),
        With(Attrs(<<Eq("b", N(2)), Eq("c", N(2))>>), List(<<Id("a"), Id("b"), Id("c")>>))),
    \* (_: with { a = 1; b = 1; }; _: with { b = 2; }; [ a b ]) null null
    Apply(Apply(Fun("_", With(Attrs(<<Eq("a", N(1)), Eq("b", N(1))>>),
                    Fun("_", With(One("b", N(2)), List(<<Id("a"), Id("b")>>))))),
                Id("null")), Id("null")),
    \* let a = 1; in let f = b: with { a = b; }; c: a + c; in f 2 0
    LetIn(<<Eq("a", N(1))>>,
        LetIn(<<Eq("f", Fun("b", With(One("a", Id("b")), Fun("c", Plus(Id("a"), Id("c"))))))>>,
              Apply(Apply(Id("f"), N(2)), N(0)))),
    \* let a = 1; in (rec { inherit a; b = { c = a + 20; }; inherit (b) c; d = c + 2; }).d
    LetIn(<<Eq("a", N(1))>>,
        Get(SetOf(TRUE, <<Inherit(<<"a">>), InheritFrom(Id("b"), <<"c">>)>>,
                  <<Eq("b", One("c", Plus(Id("a"), N(20)))), Eq("d", Plus(Id("c"), N(2)))>>), "d")),
    \* { set = rec { a = 21; }; set = { b = 2 + a; }; }
    Attrs(<<Eq("set", Rec(<<Eq("a", N(21))>>)), Eq("set", One("b", Plus(N(2), Id("a"))))>>),
    \* rec { a.b = 1; a.c = a.b + 2; }
    Rec(<<Entry(<<"a", "b">>, N(1)), Entry(<<"a", "c">>, Plus(Get(Id("a"), "b"), N(2)))>>),
    \* rec { val = 21; ${with { k = "b"; }; k} = val; ${null} = 1; }
    Rec(<<Eq("val", N(21)), Dynamic(With(One("k", Str("b")), Id("k")), Id("val")),
          Dynamic(Id("null"), N(1))>>),
    \* let true = 1; null = 3; in [ true false null ]
    LetIn(<<Eq("true", N(1)), Eq("null", N(3))>>, List(<<Id("true"), Id("false"), Id("null")>>)),
    \* { x = 21; __functor = self: y: self.x + y; } 2
    Apply(Attrs(<<Eq("x", N(21)),
                  Eq("__functor", Fun("self", Fun("y", Plus(Get(Id("self"), "x"), Id("y")))))>>), N(2)),
    \* ({ a, b ? a + 1, ... }@args: [ a b args.c ]) { a = 1; c = 3; }
    Apply(Pattern("args", <<Formal("a"), Default("b", Plus(Id("a"), N(1)))>>, TRUE,
                  List(<<Id("a"), Id("b"), Get(Id("args"), "c")>>)),
          Attrs(<<Eq("a", N(1)), Eq("c", N(3))>>)),
    \* ({ a ? b, b ? 2 }: a + b) { }
    Apply(Pattern("", <<Default("a", Id("b")), Default("b", N(2))>>, FALSE, Plus(Id("a"), Id("b"))),
          Attrs(<<>>)),
    \* ({ a }: a) { b = 1; }    and    ({ a }: a) { }
    Apply(Pattern("", <<Formal("a")>>, FALSE, Id("a")), One("b", N(1))),
    Apply(Pattern("", <<Formal("a")>>, FALSE, Id("a")), Attrs(<<>>)),
    \* let set = { a.b = 1; }; in [ (set ? a.b) (set ? a.b.c) (set ? x) (1 ? x) ]
    LetIn(<<Eq("set", Attrs(<<Entry(<<"a", "b">>, N(1))>>))>>,
        List(<<HasAttr(Id("set"), <<Str("a"), Str("b")>>),
               HasAttr(Id("set"), <<Str("a"), Str("b"), Str("c")>>),
               HasAttr(Id("set"), <<Str("x")>>), HasAttr(N(1), <<Str("x")>>)>>)),
    \* [ ({ a.b = 1; }.a.b or 2) ({ a.b = 1; }.a.c or 2) ]
    List(<<SelectOr(Attrs(<<Entry(<<"a", "b">>, N(1))>>), <<Str("a"), Str("b")>>, N(2)),
           SelectOr(Attrs(<<Entry(<<"a", "b">>, N(1))>>), <<Str("a"), Str("c")>>, N(2))>>),
    \* let { a = 21; body = a + b; b = 1; }
    LegacyLet(<<Eq("a", N(21)), Eq("b", N(1)), Eq("body", Plus(Id("a"), Id("b")))>>),
    \* { v = tryEval "x"; y = tryEval (assert false; 1); z = tryEval (throw "e"); }
    Attrs(<<Eq("v", Try(Str("x"))), Eq("y", Try(Oops)), Eq("z", Try(Throw))>>),
    \* seq (throw "e") 1    and    let s = seq 1; in s 2
    Apply(Apply(Builtin("seq"), Throw), N(1)),
    LetIn(<<Eq("s", Apply(Builtin("seq"), N(1)))>>, Apply(Id("s"), N(2))),
    \* let x = { a = [ 1 x.b ]; b = 2; }; in x == { a = [ 1 2 ]; b = 2; }
    LetIn(<<Eq("x", Attrs(<<Eq("a", List(<<N(1), Get(Id("x"), "b")>>)), Eq("b", N(2))>>))>>,
        Bin("==", Id("x"), Attrs(<<Eq("a", List(<<N(1), N(2)>>)), Eq("b", N(2))>>))),
    \* [ (false && throw "e") (true || throw "e") (false -> throw "e") ] ++ [ (x: x) ]
    Bin("++", List(<<Bin("&&", Id("false"), Throw), Bin("||", Id("true"), Throw),
                     Bin("->", Id("false"), Throw), Bin("->", Id("true"), Not(Id("true")))>>),
              List(<<Fun("x", Id("x"))>>)),
    \* let a = 1; in with { b = 2; }; let set = { c = 3; }; inherit (set) c; inherit a b; in [ a b c ]
    LetIn(<<Eq("a", N(1))>>, With(One("b", N(2)),
        Let(<<InheritFrom(Id("set"), <<"c">>), Inherit(<<"a", "b">>)>>,
            <<Eq("set", One("c", N(3)))>>, List(<<Id("a"), Id("b"), Id("c")>>)))),
    \* let x = x + 1; in x    and    let a = { b = 1; x = a; }; in a.x.x.b
    LetIn(<<Eq("x", Plus(Id("x"), N(1)))>>, Id("x")),
    LetIn(<<Eq("a", Attrs(<<Eq("b", N(1)), Eq("x", Id("a"))>>))>>,
        Select(Id("a"), <<Str("x"), Str("x"), Str("b")>>)) >>

Shown == Attrs(<<Eq("__toString", Fun("self", Plus(Get(Id("self"), "v"), Str("!")))), Eq("v", Str("hi"))>>)
NamedValue(name, v) == Attrs(<<Eq("name", name), Eq("value", v)>>)
Increment == Fun("x", Plus(Id("x"), N(1)))
CountDown == If(Bin("==", Id("n"), N(0)), N(0), Apply(Id("f"), Bin("-", Id("n"), N(1))))

\* Operators and coercions.
ValueExamples == <<
    List(<<Bin("-", N(7), Bin("*", N(2), N(3))), Bin("/", Negate(N(7)), N(2)), Bin("/", N(7), Negate(N(2))),
           Negate(Plus(N(1), N(2))), Bin("!=", N(1), N(2))>>),
    \* let s = { __toString = ..; }; p = { outPath = s; }; in [ "${s}" ("<" + p) (p + ">") "a${"b" + "c"}d" ]
    LetIn(<<Eq("s", Shown), Eq("p", One("outPath", Id("s")))>>,
        List(<<Interp(<<Id("s")>>), Plus(Str("<"), Id("p")), Plus(Id("p"), Str(">")),
               Interp(<<Str("a"), Plus(Str("b"), Str("c")), Str("d")>>)>>)),
    LetIn(<<Eq("s", Shown)>>, Apply(Id("toString"),
        List(<<N(1), Id("true"), Id("false"), Id("null"), Ints(<<2, 3>>), List(<<>>), Id("s")>>))),
    List(<<Bin("<", N(1), N(2)), Bin("<=", N(2), N(1)), Bin("<", Str("a"), Str("b")), Bin(">=", N(3), N(3)),
           Bin("<", Ints(<<1, 2>>), Ints(<<1, 3>>)), Bin("<", Ints(<<1>>), Ints(<<1, 2>>)),
           Bin(">", Ints(<<1, 2>>), Ints(<<1>>)), B2("lessThan", Plus(N(1), N(1)), N(3))>>),
    \* __functor and partially applied builtins where functions are called
    LetIn(<<Eq("f", One("__functor", Fun2("self", "x", Plus(Id("x"), N(1)))))>>,
        List(<<Apply(Apply(Id("map"), Id("f")), Ints(<<1, 2>>)), B3("foldl'", Builtin("add"), N(0), Ints(<<1, 2>>)),
               Apply(Apply(Id("map"), Apply(Builtin("add"), N(1))), Ints(<<1>>))>>)),
    \* loans that end: let f = n: if n == 0 then 0 else f (n - 1); x = 1 + 1; in [ (map f [ 1 x ]) .. ]
    LetIn(<<Eq("f", Fun("n", CountDown)), Eq("x", Plus(N(1), N(1)))>>,
        List(<<Apply(Apply(Id("map"), Id("f")), List(<<N(1), Id("x")>>)), B2("add", Id("x"), N(1)),
               B2("lessThan", List(<<Id("x"), Id("x")>>), List(<<Id("x"), Plus(Id("x"), N(1))>>))>>)) >>

\* Builtins on lists, on sets and on functions.
BuiltinExamples == <<
    LetIn(<<Eq("l", Ints(<<1, 2, 3>>))>>,
        List(<<B1("length", Id("l")), B1("head", B1("tail", Id("l"))), B2("elemAt", Id("l"), N(2)),
               B1("length", Apply(Apply(Id("map"), Fun("x", Throw)), Id("l")))>>)),
    LetIn(<<Eq("l", Ints(<<1, 2, 3>>))>>,
        List(<<B2("all", Fun("x", Bin("<", Id("x"), N(3))), Id("l")),
               B2("any", Fun("x", Bin("<", Id("x"), N(2))), Id("l")), B2("elem", Plus(N(1), N(1)), Id("l"))>>)),
    List(<<B3("foldl'", Fun2("a", "b", Plus(Id("a"), Id("b"))), N(0), Ints(<<1, 2, 3>>)),
           B3("foldl'", Fun2("a", "b", Id("b")), Throw, Ints(<<1, 2, 3>>))>>),
    LetIn(<<Eq("l", Ints(<<3, 1, 2>>))>>,
        List(<<B2("filter", Fun("x", Bin("<", Id("x"), N(3))), Id("l")),
               B2("concatMap", Fun("x", If(Id("true"), List(<<Id("x"), N(0)>>), N(1))), Id("l")),
               B1("concatLists", List(<<Id("l"), Ints(<<>>), Id("l")>>))>>)),
    LetIn(<<Eq("l", Ints(<<3, 1, 2>>))>>,
        List(<<B2("genList", Increment, N(2)), B2("sort", Fun2("a", "b", Bin("<", Id("a"), Id("b"))), Id("l")),
               B2("sort", Builtin("lessThan"), List(<<Str("b"), Str("a"), Str("b")>>))>>)),
    LetIn(<<Eq("l", Ints(<<3, 1, 2>>))>>,
        List(<<B2("groupBy", Fun("x", If(Bin("<", Id("x"), N(3)), Str("a"), Str("b"))), Id("l")),
               B2("partition", Fun("x", Bin("<", N(1), Id("x"))), Id("l"))>>)),
    \* the first of two values for a name; values that are never needed
    B1("attrNames", B1("listToAttrs", List(<<NamedValue(Str("a"), Throw), NamedValue(Plus(Str("b"), Str("c")), N(2))>>))),
    B1("listToAttrs", List(<<NamedValue(Str("a"), N(1)), NamedValue(Str("a"), Throw)>>)),
    List(<<B2("mapAttrs", Fun2("k", "v", Plus(Id("k"), Apply(Id("toString"), Id("v")))),
              Attrs(<<Eq("a", N(1)), Eq("b", N(2))>>)),
           B2("mapAttrs", Fun("k", If(Id("true"), Increment, N(1))), Attrs(<<Eq("a", N(1)), Eq("b", N(2))>>))>>),
    LetIn(<<Eq("s", Attrs(<<Eq("a", N(1)), Eq("b", N(2))>>))>>,
        List(<<B1("attrValues", Id("s")), B2("hasAttr", Str("a"), Id("s")), B2("getAttr", Str("b"), Id("s"))>>)),
    LetIn(<<Eq("s", Attrs(<<Eq("a", N(1)), Eq("b", N(2))>>))>>,
        List(<<B2("intersectAttrs", Id("s"), Attrs(<<Eq("a", N(5)), Eq("x", Throw)>>)),
               Apply(Apply(Id("removeAttrs"), Id("s")), List(<<Str("a")>>)),
               B2("catAttrs", Str("a"), List(<<Id("s"), One("b", N(1)), One("a", N(2))>>))>>)),
    List(<<B1("functionArgs", Pattern("", <<Formal("a"), Default("b", N(1))>>, TRUE, N(1))),
           B1("functionArgs", Increment), B1("typeOf", Increment), B1("typeOf", Plus(N(1), N(1))),
           Apply(Id("isNull"), Id("null")), B1("isFunction", Builtin("seq"))>>),
    List(<<B2("concatStringsSep", Str(", "), List(<<Str("a"), Plus(Str("b"), Str("c")), One("outPath", Str("d"))>>)),
           B3("substring", N(1), N(2), Str("hello")), B3("substring", N(3), N(9), Str("hello")),
           B1("stringLength", Plus(Str("ab"), Str("c"))), B2("deepSeq", Ints(<<1>>), Plus(N(1), N(1)))>>),
    \* let next = n: [ { key = n + 1; } { key = 1; } ]; in genericClosure { operator = x: if .. then next x.key .. }
    LetIn(<<Eq("next", Fun("n", List(<<One("key", Plus(Id("n"), N(1))), One("key", N(1))>>)))>>,
        B1("genericClosure", Attrs(<<Eq("startSet", List(<<One("key", N(1))>>)),
                                     Eq("operator", Fun("x", If(Bin("<", Get(Id("x"), "key"), N(3)),
                                         Apply(Id("next"), Get(Id("x"), "key")), List(<<>>))))>>))) >>

\* Programs that fail, each for another reason or in another place.
FailingExamples == <<
    Bin("/", N(1), N(0)), Plus(N(1), Id("true")), Negate(Str("a")), Bin("<", N(1), Str("a")),
    Bin("<", Ints(<<1>>), List(<<Throw>>)), Bin("<", List(<<Empty>>), Ints(<<1>>)), Interp(<<N(1)>>),
    Plus(Str("a"), N(1)), Plus(Empty, Str("a")), Apply(Id("toString"), List(<<N(1), Increment, Throw, N(2)>>)),
    Apply(Id("toString"), List(<<Throw, N(1)>>)), Interp(<<One("__toString", N(1))>>), B1("stringLength", N(1)),
    Interp(<<One("__toString", Fun("self", Throw))>>),
    B2("deepSeq", List(<<N(1), One("a", Throw)>>), N(2)), B2("deepSeq", N(1), Throw),
    B1("head", List(<<>>)), B1("tail", List(<<>>)), B2("elemAt", Ints(<<1>>), Negate(N(1))),
    B2("getAttr", Str("b"), One("a", N(1))), Try(Apply(Id("abort"), Str("e"))), B2("add", N(1), Str("a")),
    B1("listToAttrs", Ints(<<1>>)), B1("listToAttrs", List(<<One("name", Str("a"))>>)), B1("genericClosure", Empty),
    B1("genericClosure", Attrs(<<Eq("startSet", List(<<Empty>>)), Eq("operator", Increment)>>)),
    B1("genericClosure", Attrs(<<Eq("startSet", List(<<One("key", N(1))>>)), Eq("operator", Fun("x", Throw))>>)),
    B2("groupBy", Fun("x", N(1)), Ints(<<1>>)), B2("filter", Fun("x", N(1)), Ints(<<1>>)),
    B2("all", Fun("x", Throw), Ints(<<1, 2>>)), Apply(Apply(Id("map"), N(1)), Ints(<<1>>)),
    B2("sort", Fun2("a", "b", Throw), Ints(<<3, 1, 2>>)), B2("sort", Fun2("a", "b", N(1)), Ints(<<1, 2>>)),
    B2("sort", N(1), N(1)), B3("foldl'", Fun2("a", "b", Throw), N(0), Ints(<<1>>)), B2("genList", Increment, Id("true")),
    B3("substring", Negate(N(1)), N(1), Str("a")), B2("filter", Throw, List(<<>>)), Plus(B1("head", Ints(<<1>>)), Str("a")),
    Apply(Apply(Id("removeAttrs"), Empty), Ints(<<1>>)), B2("elem", Throw, Ints(<<1>>)), B1("concatLists", Ints(<<1>>)) >>

Examples == ScopeExamples \o ValueExamples \o BuiltinExamples \o FailingExamples

\* let a = <one>; b = <two>; in <use>, for every choice.
Ones == <<Id("b"), One("x", Id("b")), List(<<Id("b"), Id("b")>>), Fun("y", Plus(Id("b"), Id("y"))),
          Plus(Id("b"), N(1)), With(One("x", Id("b")), Id("x")), Rec(<<Eq("x", Id("y")), Eq("y", Id("b"))>>),
          If(Bin("==", Id("b"), N(1)), N(5), Throw), SelectOr(Id("b"), <<Str("x")>>, Id("b")),
          LetIn(<<Eq("c", Id("d")), Eq("d", Id("b"))>>, Id("c")), Throw,
          Pattern("", <<Default("y", Id("b"))>>, TRUE, List(<<Id("y"), Id("b")>>)),
          Apply(Id("b"), Id("c")), Bin("//", One("y", Id("b")), Id("b")), With(Id("b"), Id("x")),
          Let(<<InheritFrom(Id("b"), <<"x">>)>>, <<Eq("f", Fun("n", Id("x")))>>, Id("f")),
          SetOf(TRUE, <<InheritFrom(Id("b"), <<"x">>)>>, <<Dynamic(Str("y"), Fun("b", Id("x")))>>)>>
Twos == <<N(1), One("x", N(2)), Fun("z", Id("z")), Id("c"), With(Id("c"), One("x", Id("x"))),
          One("x", Id("a")), Fun("z", Id("a")), Oops>>
Uses == <<Id("a"), Get(Id("a"), "x"), Apply(Id("a"), N(1)), List(<<Id("a"), Id("b")>>),
          Bin("==", Id("a"), Id("b")), Try(Id("a")),
          With(Id("a"), Plus(Id("x"), Id("x"))), Apply(Id("a"), Id("b")), Apply(Apply(Builtin("seq"), Id("a")), Id("b")),
          With(Id("b"), LetIn(<<Eq("y", Fun("z", With(Id("a"), Id("x"))))>>, Apply(Id("y"), Id("c"))))>>

\* Programs are named by where their parts come from.
AllExamples == {<<n>> : n \in DOMAIN Examples}
Combinations == (DOMAIN Ones) \X (DOMAIN Twos) \X (DOMAIN Uses)

\* let x = throw "e"; in [ (tryEval x).success (tryEval x).success ]
CaughtTwice == LetIn(<<Eq("x", Throw)>>,
    List(<<Get(Try(Id("x")), "success"), Get(Try(Id("x")), "success")>>))

\* Programs that force a thunk whose value is lent out at the time.
LentExamples == <<
    \* let x = 1 + 1; in builtins.add x x    and    builtins.lessThan x (x + 1)
    LetIn(<<Eq("x", Plus(N(1), N(1)))>>, B2("add", Id("x"), Id("x"))),
    LetIn(<<Eq("x", Plus(N(1), N(1)))>>, B2("lessThan", Id("x"), Plus(Id("x"), N(1)))),
    \* let f = n: -(if n == 0 then 0 else f (n - 1)); in map f [ 1 ]
    LetIn(<<Eq("f", Fun("n", Negate(CountDown)))>>, Apply(Apply(Id("map"), Id("f")), Ints(<<1>>))),
    \* let s = { v = "a"; __toString = self: s.v; }; in "${s}"
    LetIn(<<Eq("s", Attrs(<<Eq("v", Str("a")), Eq("__toString", Fun("self", Get(Id("s"), "v")))>>))>>,
        Interp(<<Id("s")>>)),
    \* let g = self: n: -(if ..); f = { __functor = g; }; in map f [ 1 ]
    LetIn(<<Eq("g", Fun("self", Fun("n", Negate(CountDown)))), Eq("f", One("__functor", Id("g")))>>,
        Apply(Apply(Id("map"), Id("f")), Ints(<<1>>))) >>

LentOut == {<<0, 1 + n>> : n \in DOMAIN LentExamples}

Source(p) ==
    IF p = <<0, 1>> THEN CaughtTwice
    ELSE IF p \in LentOut THEN LentExamples[p[2] - 1]
    ELSE IF Len(p) = 1 THEN Examples[p[1]]
    ELSE LetIn(<<Eq("a", Ones[p[1]]), Eq("b", Twos[p[2]]), Eq("c", One("x", N(3)))>>, Uses[p[3]])

Compiled(p) == LET e == Source(p) IN Compiler!CompileProgram(e)

\* Where the machine departs from the language (see the README): comparing
\* a set with itself, whose cycle pointer equality cuts short; a thunk that
\* evaluates to itself; an error caught in the middle of a frame; { y ? b,
\* ... } called with what is no set; a cycle that unfolds without end because
\* a thunk on it is evaluated again each time.
Departures == {p \in Combinations :
    \/ p[2] = 6 /\ p[3] = 5
    \/ <<p[1], p[2]>> \in {<<9, 6>>, <<13, 7>>, <<15, 6>>}
    \/ p[1] \in {5, 8, 9, 13, 14} /\ p[2] = 8 /\ p[3] = 6
    \/ p = <<17, 6, 1>>
    \/ p[1] = 12 /\ (p[3] = 3 \/ (p[3] = 8 /\ p[2] \in {1, 3, 7}))}

\* The compiler rejects a program that has errors.
OnlyExamples ==
    LET ok(p) == Compiled(p).errors = <<>>
    IN  {p \in AllExamples : ok(p)}
Accepted ==
    LET ok(p) == Compiled(p).errors = <<>>
    IN  {p \in AllExamples \cup LentOut \cup (Combinations \ Departures) : ok(p)}

OnlyCaughtTwice == {<<0, 1>>}

-----------------------------------------------------------------------------
\* How deep a result is looked at, and what it should be.
Depth == 3

SourceMeaning(p) == LET e == Source(p) IN Meaning(e, Depth)

\* The value v of the machine, like TreeOf.
RECURSIVE ValueTree(_, _)
ValueTree(v, depth) ==
    LET w == Deref(v)
    IN  IF depth = 0 THEN [deeper |-> TRUE]
        ELSE IF Has(w, "list")
        THEN [list |-> [i \in DOMAIN heap[w.list].items |->
                            ValueTree(heap[w.list].items[i], depth - 1)]]
        ELSE IF Has(w, "attrs")
        THEN [attrs |-> [x \in DOMAIN Fields(w) |-> ValueTree(Fields(w)[x], depth - 1)]]
        ELSE IF Has(w, "closure") \/ Has(w, "builtin") THEN [function |-> TRUE]
        ELSE w

Outcome == IF ret = "done" THEN ValueTree(result, Depth) ELSE Err(ret)

(***************************************************************************)
(* A program that finishes has the value, or fails with the error, that    *)
(* its source means: slots, upvalues, deferred upvalues, thunks, `with'    *)
(* and tail calls of compiler and machine together are one evaluation of   *)
(* the language (Compiler::compile, VM::run).  One that forces a thunk     *)
(* while its value is lent out panics (Thunk::value, Thunk::force).        *)
(***************************************************************************)
ResultIsMeaning ==
    ctl = <<>> => Outcome = IF prog \in LentOut THEN Err("panic") ELSE Intended(prog)

(***************************************************************************)
(* "Infinite recursion" is reported for programs that recurse forever only *)
(* (ThunkRepr::Blackhole).                                                 *)
(***************************************************************************)
BlackholeMeansRecursion ==
    ret = "recursion" => Intended(prog) = Err("recursion")
===============================================================================
