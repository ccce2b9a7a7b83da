------------------------------ MODULE MCAchilles ------------------------------
(***************************************************************************)
(* Achilles on expressions and files that combine its features, compared   *)
(* with what they mean and with how they may be typed.                     *)
(***************************************************************************)
EXTENDS Achilles, AchillesLanguage

Id(x) == [pat |-> "Id", name |-> x]
Pair(a, b) == [pat |-> "Tuple", members |-> <<a, b>>]
X(x) == [node |-> "Ident", name |-> x]
Lit(v) == [node |-> "Literal", of |-> v]
One == Lit(VInt(1))
Two == Lit(VInt(2))
Yes == Lit(VBool(TRUE))
Str == Lit(VString("hi"))
Unit == Lit(VUnit)
Bin(l, op, r) == [node |-> "Binary", op |-> op, lhs |-> l, rhs |-> r]
LetOf(pat, e, type, body) ==
    [node |-> "Let", bindings |-> <<[pat |-> pat, type |-> type, body |-> e]>>, body |-> body]
LetIn(x, e, body) == LetOf(Id(x), e, <<>>, body)
If(c, t, e) == [node |-> "If", condition |-> c, then |-> t, else |-> e]
Arg(x, type) == [name |-> x, type |-> type]
Fn(args, body) == [node |-> "Fun", args |-> args, body |-> body]
App(f, args) == [node |-> "Call", fun |-> f, args |-> args]
Calling(f, args) == App(X(f), args)
Tup(a, b) == [node |-> "Tuple", members |-> <<a, b>>]
Asc(e, ty) == [node |-> "Ascription", expr |-> e, type |-> ty]
Neg(e) == [node |-> "Unary", rhs |-> e]

\* Small expressions about x.
Atoms == {One, Yes, Str, Unit, X("x")}
Terms ==
    Atoms \cup {Bin(a, op, b) : a \in {One, Yes, X("x")}, op \in {"+", "-", "*", "==", "!="}, b \in {Two, Str, X("x")}}
          \cup {If(c, a, b) : c \in {Yes, X("x"), Bin(X("x"), "==", One)}, a \in {One, X("x")}, b \in {Two, Str, X("x")}}
          \cup {Tup(One, X("x")), App(X("x"), <<One>>), App(X("x"), <<X("x")>>), App(X("x"), <<One, Two>>),
                App(X("x"), <<>>), Bin(One, "/", X("x")), Neg(X("x")),
                Asc(X("x"), TInt), Asc(X("x"), TVar("a")),
                LetIn("x", Yes, X("x")), LetIn("y", X("x"), Bin(X("y"), "-", X("x"))), X("y")}

Functions1 == {Fn(<<Arg("x", ty)>>, e) : ty \in {<<>>, <<TInt>>, <<TVar("a")>>}, e \in Terms}

Bound == {One, Yes, Unit, Tup(One, Two), Fn(<<Arg("x", <<>>)>>, Bin(X("x"), "+", One)),
          Fn(<<Arg("x", <<>>)>>, X("x")), Fn(<<>>, One), Fn(<<Arg("x", <<>>), Arg("y", <<>>)>>, Bin(X("x"), "-", X("y"))),
          Fn(<<Arg("x", <<TUnit>>)>>, Two)}

\* Two arguments of one type, and a function with a free name that its call
\* gives another meaning.
SameTypes ==
    {Fn(<<Arg("x", <<>>), Arg("y", <<>>)>>, LetIn("z", If(Yes, a, b), Tup(Bin(X("x"), "+", One), c))) :
        a \in {X("x"), X("y")}, b \in {X("x"), X("y")},
        c \in {X("z"), Bin(X("y"), "-", X("z")), If(X("y"), One, Two), If(X("z"), One, Two)}}
FreeNames ==
    {LetIn("y", a, LetIn("f", Fn(<<Arg("x", <<TInt>>)>>, Bin(X("x"), "+", X("y"))), LetIn("y", b, Calling("f", <<One>>)))) :
        a \in {One, Two}, b \in {One, Two, Yes}}

\* Operators within operators, and expressions that begin, hold and follow
\* one another.
Nested ==
    {Bin(Bin(X("x"), o, One), q, Two) : o, q \in {"+", "-", "*", "==", "^"}}
    \cup {Bin(X("x"), o, Bin(One, q, Two)) : o, q \in {"+", "-", "*", "==", "^"}}
    \cup {Bin(e, "-", One) : e \in {If(Yes, One, Two), LetIn("y", X("x"), Bin(X("y"), "+", One)), Asc(X("x"), TInt), Fn(<<>>, One)}}
    \cup {App(Fn(<<Arg("y", <<>>)>>, e), <<Bin(X("x"), "*", Two), a>>) :
            e \in {X("y"), LetIn("z", One, X("y"))}, a \in {Unit, Tup(X("x"), App(X("x"), <<>>)), Neg(X("x"))}}
    \cup {[node |-> "Let", body |-> Bin(X("y"), "-", X("x")),
           bindings |-> <<[pat |-> p1, type |-> ty, body |-> App(X("x"), <<Str>>)],
                          [pat |-> Id("x"), type |-> <<>>, body |-> Bin(One, "==", Two)]>>] :
            p1 \in {Id("y"), Pair(Id("y"), Id("_"))}, ty \in {<<>>, <<TTuple(<<TInt, TFun(<<TBool, TVar("a")>>, TUnit)>>)>>}}

Expressions ==
    Terms \cup Functions1 \cup SameTypes \cup FreeNames \cup Nested
    \cup {LetIn("x", b, t) : b \in Bound, t \in Terms}
    \cup {App(f, <<a>>) : f \in Functions1, a \in {One, Yes, Unit, Fn(<<>>, One)}}
    \cup {LetOf(Id("x"), b, <<ty>>, t) : b \in Bound, t \in {App(X("x"), <<One>>), X("x")},
                                        ty \in {TInt, TFun(<<TVar("a")>>, TVar("a")), TFun(<<TInt>>, TVar("b")),
                                                TTuple(<<TInt, TInt>>)}}
    \cup {LetOf(Pair(Id("x"), Id("y")), b, <<>>, t) : b \in Bound \cup {LetIn("x", One, Tup(X("x"), Str))}, t \in Terms \cup {Bin(X("x"), "-", X("y"))}}
    \cup {LetOf(Pair(Id("x"), Pair(Id("y"), Id("z"))), Tup(One, b), <<>>, Bin(X("x"), "+", X("z"))) : b \in Bound}

-----------------------------------------------------------------------------
Fun(name, args, body) == [decl |-> "Fun", name |-> name, args |-> args, body |-> body]
Ty(name, args, ret) == [decl |-> "Ascription", name |-> name, type |-> TFun(args, ret)]
Extern(name, args, ret) == [decl |-> "Extern", name |-> name, type |-> TFun(args, ret)]

Puts == << Extern("puts", <<TString>>, TInt) >>
Ident == << Ty("id", <<TVar("a")>>, TVar("a")), Fun("id", <<Arg("x", <<>>)>>, X("x")) >>
Minus == << Ty("minus", <<TInt, TInt>>, TInt), Fun("minus", <<Arg("x", <<TInt>>), Arg("y", <<>>)>>, Bin(X("x"), "-", X("y"))) >>
PrintFn == << Ty("print", <<TString>>, TUnit),
            Fun("print", <<Arg("x", <<>>)>>, LetIn("_", App(X("puts"), <<X("x")>>), Unit)) >>
Const == << Ty("const", <<TVar("a"), TVar("b")>>, TVar("a")), Fun("const", <<Arg("x", <<>>), Arg("y", <<>>)>>, X("x")) >>
Loud == << Fun("loud", <<Arg("x", <<TInt>>)>>, LetIn("_", Calling("puts", <<Lit(VString("ho"))>>), X("x"))) >>
Twice == << Ty("twice", <<TVar("a")>>, TTuple(<<TVar("a"), TVar("a")>>)), Fun("twice", <<Arg("x", <<>>)>>, Tup(X("x"), X("x"))) >>
Skip == << Ty("skip", <<TInt, TUnit>>, TInt), Fun("skip", <<Arg("x", <<>>), Arg("u", <<>>)>>, X("x")) >>
Choose == << Fun("choose", <<Arg("x", <<TInt>>)>>, If(Bin(X("x"), "==", One), App(X("id"), <<X("x")>>), Two)) >>

Values == {One, Calling("id", <<Two>>), Calling("minus", <<One, Two>>), Calling("choose", <<One>>),
           Calling("const", <<One, Str>>), Calling("skip", <<Two, Calling("print", <<Str>>)>>),
           Calling("loud", <<Two>>), Calling("skip", <<Calling("loud", <<One>>), Calling("print", <<Str>>)>>)}
Bodies ==
    Values
    \cup {Calling("minus", <<a, b>>) : a \in Values, b \in Values}
    \cup {LetIn("x", a, b) : a \in Values \cup {Str, Unit, Calling("print", <<Str>>), Fn(<<Arg("x", <<>>)>>, Bin(X("x"), "+", One))},
                             b \in {X("x"), Calling("id", <<X("x")>>), Calling("print", <<X("x")>>), Calling("skip", <<One, X("x")>>),
                                    Calling("x", <<Two>>), Calling("const", <<X("x"), X("x")>>)}}
    \cup {If(Bin(a, "==", Two), Calling("minus", <<b, One>>), One) : a, b \in Values}
    \cup {If(Bin(One, "==", a), Calling("print", <<Str>>), Unit) : a \in Values}
    \cup {LetOf(Pair(Id("x"), Id("y")), Tup(a, Two), <<>>, Bin(X("y"), "-", X("x"))) : a \in Values}
    \cup {If(Bin(One, "==", One), a, If(Bin(One, "==", b), One, Two)) : a, b \in {One, Calling("loud", <<Two>>)}}
    \cup {Calling("twice", <<One>>), LetIn("x", Calling("twice", <<Str>>), One)}
    \cup {Bin(One, op, Calling("id", <<Two>>)) : op \in {"*", "==", "/"}}

\* A function with a name that the compiler may make up for another one.
Increment == Fn(<<Arg("x", <<TInt>>)>>, Bin(X("x"), "+", One))
NamedAs(f) ==
    {Ident \o Minus \o << Fun("inner", <<Arg("x", <<TInt>>)>>, LetIn("y", Increment, X("x"))),
                          Fun(f, <<Arg("x", <<TInt>>)>>, Bin(X("x"), "-", One)), Fun("main", <<>>, b) >> :
        b \in {Calling("minus", <<Calling(f, <<Two>>), Calling("id", <<One>>)>>),
               LetIn("y", Increment, Calling(f, <<Two>>))}}

Libraries == { Puts \o Ident \o Minus \o PrintFn \o Const \o Skip \o Loud \o Choose \o Twice,
               Ident \o Puts \o PrintFn \o Skip \o Loud \o Minus,
               Ident \o Ident, <<>> }

Files == {l \o << Fun("main", <<>>, b) >> : l \in Libraries, b \in Bodies}
         \cup {<< Ty("f", <<ty>>, t), Fun("f", <<Arg("x", <<>>)>>, e), Fun("main", <<>>, App(X("f"), <<One>>)) >> :
                 ty \in {TInt, TVar("a")}, t \in {TInt, TVar("a"), TTuple(<<TVar("a"), TVar("a")>>)}, e \in Terms}
         \cup UNION {NamedAs(f) : f \in {"idintintintint", "idint", "f1", "f2"}}

-----------------------------------------------------------------------------
(* How trees are written down. *)

T(w) == <<"tag", w>>
S == <<"ws", " ">>
Parens(lexemes) == <<T("(")>> \o lexemes \o <<T(")")>>
Between(seqs, sep) ==
    FoldLeft(LAMBDA acc, q : IF acc = <<>> THEN q ELSE acc \o sep \o q, <<>>, seqs)
Listed(seqs) == Between(seqs, <<T(","), S>>)

RECURSIVE SpelledType(_)
SpelledType(ty) ==
    CASE IsPrim(ty) -> <<T(ty.t)>>
      [] ty.t = "unit" -> Parens(<<>>)
      [] ty.t = "var" -> <<<<"id", ty.id>>>>
      [] ty.t = "tuple" -> Parens(Listed([i \in DOMAIN ty.of |-> SpelledType(ty.of[i])]))
      [] ty.t = "fun" ->
            <<T("fn"), S>> \o Listed([i \in DOMAIN ty.args |-> SpelledType(ty.args[i])])
            \o (IF ty.args = <<>> THEN <<>> ELSE <<S>>) \o <<T("->"), S>> \o SpelledType(ty.ret)

RECURSIVE SpelledPattern(_)
SpelledPattern(pat) ==
    IF pat.pat = "Id" THEN <<<<"id", pat.name>>>>
    ELSE Parens(Listed([i \in DOMAIN pat.members |-> SpelledPattern(pat.members[i])]))

Typed(lexemes, type) ==
    IF type = <<>> THEN lexemes ELSE lexemes \o <<T(":"), S>> \o SpelledType(type[1])
SpelledArg(arg) ==
    LET x == <<<<"id", arg.name>>>>
    IN  IF arg.type = <<>> THEN x ELSE Parens(Typed(x, arg.type))

\* How strongly an operator holds its operands; powers and comparisons hold
\* the one to their right more weakly.
Strength(op) == CASE op \in {"==", "!="} -> 1 [] op \in {"+", "-"} -> 2
                  [] op \in {"*", "/"} -> 3 [] op = "^" -> 4
Rightward(op) == op \in {"==", "!=", "^"}

\* An expression as an argument, as an operand of op and by itself.
RECURSIVE Spelled(_), AsArgument(_), AsOperand(_, _, _)
AsArgument(e) ==
    IF e.node \in {"Ident", "Literal", "Tuple"} THEN Spelled(e) ELSE Parens(Spelled(e))
AsOperand(e, op, before) ==
    IF \/ e.node \in {"Ident", "Literal", "Tuple"}
       \/ /\ e.node = "Binary"
          /\ \/ Strength(e.op) > Strength(op)
             \/ Strength(e.op) = Strength(op) /\ before = ~Rightward(op)
    THEN Spelled(e) ELSE Parens(Spelled(e))
Spelled(e) ==
    CASE e.node = "Ident" -> <<<<"id", e.name>>>>
      [] e.node = "Literal" ->
            (CASE e.of.val = "int" -> <<<<"int", e.of.of>>>>
               [] e.of.val = "bool" -> <<T(IF e.of.is THEN "true" ELSE "false")>>
               [] e.of.val = "string" -> <<<<"str", e.of.text>>>>
               [] e.of.val = "unit" -> Parens(<<>>))
      [] e.node = "Tuple" -> Parens(Listed([i \in DOMAIN e.members |-> Spelled(e.members[i])]))
      [] e.node = "Binary" ->
            AsOperand(e.lhs, e.op, TRUE) \o <<S, T(e.op), S>> \o AsOperand(e.rhs, e.op, FALSE)
      [] e.node = "Unary" -> <<T("-")>> \o AsArgument(e.rhs)
      [] e.node = "Ascription" -> Typed(Spelled(e.expr), <<e.type>>)
      [] e.node = "Call" ->
            IF e.args = <<>> THEN AsArgument(e.fun) \o Parens(<<>>)
            ELSE Between(<<AsArgument(e.fun)>> \o [i \in DOMAIN e.args |-> AsArgument(e.args[i])], <<S>>)
      [] e.node = "Fun" ->
            <<T("fn"), S>> \o Between([i \in DOMAIN e.args |-> SpelledArg(e.args[i])], <<S>>)
            \o (IF e.args = <<>> THEN <<>> ELSE <<S>>) \o <<T("="), S>> \o Spelled(e.body)
      [] e.node = "If" ->
            <<T("if"), S>> \o Spelled(e.condition) \o <<S, T("then"), S>> \o Spelled(e.then)
            \o <<S, T("else"), S>> \o Spelled(e.else)
      [] e.node = "Let" ->
            <<T("let"), S>>
            \o Between([i \in DOMAIN e.bindings |->
                            Typed(SpelledPattern(e.bindings[i].pat), e.bindings[i].type)
                            \o <<S, T("="), S>> \o Spelled(e.bindings[i].body)], <<T(";"), S>>)
            \o <<S, T("in"), S>> \o Spelled(e.body)

SpelledDecl(d) ==
    <<T(CASE d.decl = "Fun" -> "fn" [] d.decl = "Extern" -> "extern" [] d.decl = "Ascription" -> "ty"), S,
      <<"id", d.name>>>>
    \o IF d.decl # "Fun" THEN <<S, T(":"), S>> \o SpelledType(d.type)
       ELSE <<S>> \o Between([i \in DOMAIN d.args |-> SpelledArg(d.args[i])], <<S>>)
            \o (IF d.args = <<>> THEN <<>> ELSE <<S>>) \o <<T("="), S>> \o Spelled(d.body)

\* The parts of a tree, itself among them.
RECURSIVE Parts(_)
Parts(e) ==
    {e} \cup
    CASE e.node = "Binary" -> Parts(e.lhs) \cup Parts(e.rhs)
      [] e.node = "Let" -> Parts(e.body) \cup UNION {Parts(e.bindings[i].body) : i \in DOMAIN e.bindings}
      [] e.node = "If" -> Parts(e.condition) \cup Parts(e.then) \cup Parts(e.else)
      [] e.node = "Fun" -> Parts(e.body)
      [] e.node = "Call" -> Parts(e.fun) \cup UNION {Parts(e.args[i]) : i \in DOMAIN e.args}
      [] e.node = "Tuple" -> UNION {Parts(e.members[i]) : i \in DOMAIN e.members}
      [] e.node = "Unary" -> Parts(e.rhs)
      [] e.node = "Ascription" -> Parts(e.expr)
      [] OTHER -> {}

\* What the grammar has no way to write: a call as an operand, the type of
\* anything that goes on to the right; and, for it leaves the white space
\* that follows it, a function of only a call that is not the last of a file.
Writable(e) ==
    \A q \in Parts(e) :
        /\ q.node = "Binary" => q.lhs.node # "Call" /\ q.rhs.node # "Call"
        /\ q.node = "Ascription" => q.expr.node \in {"Ident", "Literal", "Tuple"}
WritableFile(decls) ==
    \A i \in DOMAIN decls :
        decls[i].decl = "Fun" => Writable(decls[i].body) /\ (decls[i].body.node = "Call" => i = Len(decls))

MCTexts(c) ==
    IF c = "compile"
    THEN {[meant |-> f, lexemes |-> Between([i \in DOMAIN f |-> SpelledDecl(f[i])], <<S>>)] : f \in {f \in Files : WritableFile(f)}}
    ELSE {[meant |-> e, lexemes |-> Spelled(e)] : e \in {e \in Expressions : Writable(e)}}

ParseOnce(c, lexemes) == LET r == Read(c, lexemes) IN r

MCSources(c) ==
    IF c = "compile" THEN {f \in Files : ~WritableFile(f)} ELSE {e \in Expressions : ~Writable(e)}

\* A text is read as the program it was written for.
ReadAsWritten == (text # NoText /\ phase # "parse") => source = text.meant

-----------------------------------------------------------------------------
PartsOf(decls) == UNION {Parts(decls[i].body) : i \in {j \in DOMAIN decls : decls[j].decl = "Fun"}}
Uses(e, x) == \E q \in Parts(e) : q.node = "Ident" /\ q.name = x

\* What the checker gets wrong: it does not count the arguments of a call;
\* a type variable that a function expression names for its argument may
\* turn out to be any type; and a call leaves the type variables that are
\* inside of the type of its result.
MistakenTypes(parts) ==
    \E q \in parts :
        \/ q.node = "Call" /\ Len(q.args) # Len(q.fun.type.args)
        \/ q.node = "Call" /\ VarsIn(q.type) # <<>>
        \/ q.node = "Fun" /\ \E i \in DOMAIN q.args : VarsIn(q.args[i].type) # <<>>

\* A typed tree is a derivation of its type.
SoundTypings ==
    /\ (command # "compile" /\ hir # <<>> /\ ~MistakenTypes(Parts(hir[1]))) =>
            Derives([x \in {} |-> TUnit], hir[1])
    /\ (command = "compile" /\ phase = "typecheck" /\ ~MistakenTypes(PartsOf(hir))) =>
            DerivesFile(source, hir)

\* What there is to see of a value.
RECURSIVE Seen(_)
Seen(v) ==
    CASE v.val \in {"fun", "closure"} -> [val |-> "fun"]
      [] v.val = "tuple" -> VTuple([i \in DOMAIN v.members |-> Seen(v.members[i])])
      [] OTHER -> v
Observed(r) == [r EXCEPT !.value = Seen(@)]

\* What the interpreter cannot do yet: (), `!=', calls but of functions of
\* integers without free names, and arithmetic on anything but integers.
Unfinished(parts) ==
    \E q \in parts :
        \/ q.node = "Literal" /\ q.type = TUnit
        \/ q.node = "Binary" /\ q.op = "!="
        \/ q.node = "Binary" /\ q.op \in {"+", "-", "*"} /\ q.type # TInt
        \/ q.node = "Call" /\ q.fun.type # OnIntegers(Len(q.args))
        \/ q.node = "Fun" /\ \E r \in Parts(q.body) :
                r.node = "Ident" /\ r.name \notin {q.args[i].name : i \in DOMAIN q.args}

\* What it gets wrong: only integers and booleans are ever equal.
MistakenEquality(parts) ==
    \E q \in parts : q.node = "Binary" /\ q.op = "==" /\ q.lhs.type \notin {TInt, TBool}

\* An expression evaluates to what it means, and does so if the interpreter
\* knows everything in it.
EvaluationIsMeaning ==
    (command = "eval" /\ phase = "ended" /\ hir # <<>>
        /\ ~MistakenEquality(Parts(hir[1])) /\ ~MistakenTypes(Parts(hir[1]))) =>
            /\ answer.tag = "ok" =>
                    Observed(MeaningOfExpr(source)) = [tag |-> "ok", value |-> Seen(answer.value), out |-> <<>>]
            /\ ~Unfinished(Parts(hir[1])) => answer.tag = "ok"

\* What the passes get wrong: a parameter of type () is dropped although its
\* function uses it, and arguments of type () are evaluated before others.
MistakenUnits(decls) ==
    \/ \E i \in DOMAIN decls :
            /\ decls[i].decl = "Fun"
            /\ \E j \in DOMAIN decls[i].args : decls[i].args[j].type = TUnit /\ Uses(decls[i].body, decls[i].args[j].name)
    \/ \E q \in PartsOf(decls) : q.node = "Call" /\ \E i, j \in DOMAIN q.args :
            i < j /\ q.args[j].type = TUnit /\ \A k \in {i, j} : \E r \in Parts(q.args[k]) : r.node = "Call"

\* The compiler makes up names for instances and for nested functions that a
\* function of the program may have, too: the first of a name is called.
MistakenInstances(decls) ==
    \E i, j \in DOMAIN decls : decls[i].name = decls[j].name /\ decls[i] # decls[j]
MistakenNested(decls) ==
    \E i \in DOMAIN decls, n \in 1..g.counter : decls[i].name = FreshIdent("f", n)

\* When the declarations are monomorphized they still mean what they meant,
\* and so they do when they are stripped.
PassesKeepMeaning ==
    (command = "compile" /\ phase = "strip" /\ hir = <<>> /\ ~MistakenInstances(left)) =>
        LET meaning == Observed(MeaningOfFile(source, "main"))
        IN  /\ Observed(MeaningOfFile(left, "main")) = meaning
            /\ ~MistakenUnits(left) =>
                    Observed(MeaningOfFile([i \in DOMAIN left |-> StripDecl(left[i])], "main")) = meaning

\* What the generator gets wrong: products, constants of type bool, tuples
\* that are not constant, and a conditional in a branch of another one.
MistakenCode(parts) ==
    \E q \in parts :
        \/ q.node = "Binary" /\ q.op = "*"
        \/ q.node = "Literal" /\ q.type = TBool
        \/ q.node = "Tuple" /\ \E i \in DOMAIN q.members : q.members[i].node \notin {"Literal", "Tuple"}
        \/ q.node = "If" /\ q.type # TUnit /\ \E r \in Parts(q.then) \cup Parts(q.else) : r.node = "If"

\* The module does what the declarations it was generated from mean.
CompiledIsMeaning ==
    (command = "compile" /\ phase = "ended" /\ answer.tag = "ok" /\ ~MistakenCode(PartsOf(hir)) /\ ~MistakenNested(hir)) =>
        Executed(g, "main") = MeaningOfFile(hir, "main")
================================================================================
