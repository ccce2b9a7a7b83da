----------------------------- MODULE AchillesParser -----------------------------
(***************************************************************************)
(* The parser of Achilles (src/users/grfn/achilles/src/parser/), one       *)
(* operator for each of its parsers, under the same name.                  *)
(*                                                                         *)
(* A text s is a sequence of lexemes <<kind, what>>: "tag" for a keyword   *)
(* or a punctuation mark, "id", "int" and "str" for names and literals,    *)
(* and "ws" for a run of white space.  The parsers of the code read        *)
(* characters; what depends on that (names that begin with a keyword or    *)
(* that are the beginning of one, marks that begin another) is left out.   *)
(*                                                                         *)
(* A parser reads s from i on and returns what it has read with the place  *)
(* where it stopped, or an error, upon which an alternative is tried.  At  *)
(* the end of the text, a tag that is not marked "complete" is incomplete  *)
(* instead, upon which nothing else is tried.                              *)
(***************************************************************************)
EXTENDS AchillesTypes

Ok(i, v) == [tag |-> "ok", at |-> i, of |-> v]
Error == [tag |-> "error"]
Incomplete == [tag |-> "incomplete"]

\* The combinators of nom: alt!, do_parse!, complete!, map! and opt!.
a | b == IF a.tag = "error" THEN b ELSE a
Then(r, F(_, _)) == IF r.tag = "ok" THEN F(r.at, r.of) ELSE r
complete(r) == IF r.tag = "incomplete" THEN Error ELSE r
map(r, F(_)) == IF r.tag = "ok" THEN Ok(r.at, F(r.of)) ELSE r
opt(r, i) == map(r, LAMBDA v : <<v>>) | Ok(i, <<>>)

Is(s, i, kind) == i <= Len(s) /\ s[i][1] = kind

multispace0(s, i) == IF Is(s, i, "ws") THEN i + 1 ELSE i
multispace1(s, i) == IF Is(s, i, "ws") THEN Ok(i + 1, <<>>) ELSE Error
tag(s, i, w) ==
    IF i > Len(s) THEN Incomplete ELSE IF s[i] = <<"tag", w>> THEN Ok(i + 1, w) ELSE Error
tags(s, i, v, w) == Then(tag(s, i, v), LAMBDA j, x : tag(s, j, w))

\* A tag with white space before it.
Spaced(s, i, w) == tag(s, multispace0(s, i), w)
comma(s, i) == Then(complete(Spaced(s, i, ",")), LAMBDA j, x : Ok(multispace0(s, j), x))

\* parser/mod.rs
ident(s, i) == IF Is(s, i, "id") THEN Ok(i + 1, s[i][2]) ELSE Error

literal(s, i) ==
    IF Is(s, i, "int") THEN Ok(i + 1, VInt(s[i][2]))
    ELSE IF Is(s, i, "str") THEN Ok(i + 1, VString(s[i][2]))
    ELSE map(complete(tag(s, i, "true")), LAMBDA x : VBool(TRUE))
         | map(complete(tag(s, i, "false")), LAMBDA x : VBool(FALSE))
         | map(complete(tags(s, i, "(", ")")), LAMBDA x : VUnit)

literal_expr(s, i) == map(literal(s, i), LAMBDA v : [node |-> "Literal", of |-> v])
ident_expr(s, i) == map(ident(s, i), LAMBDA x : [node |-> "Ident", name |-> x])

RECURSIVE type_(_, _), pattern(_, _), expr(_, _), simple_expr(_, _), arg(_, _),
          binding(_, _), fn_arg(_, _), separated(_, _, _, _), prefixes(_, _, _),
          group(_, _), rest(_, _, _), primary(_, _)

\* separated_list0!, of the items that one of the parsers reads.
Item(s, i, kind) ==
    CASE kind = "type" -> type_(s, i)
      [] kind = "pattern" -> pattern(s, i)
      [] kind = "expr" -> expr(s, i)
      [] kind = "arg" -> arg(s, i)
      [] kind = "fn_arg" -> fn_arg(s, i)
      [] kind = "binding" -> binding(s, i)
Separator(s, i, kind) ==
    CASE kind \in {"type", "pattern", "expr"} -> comma(s, i)
      [] kind \in {"arg", "fn_arg"} -> multispace1(s, i)
      [] kind = "binding" -> tag(s, i, ";")
separated(s, i, kind, got) ==
    LET sep == IF got = <<>> THEN Ok(i, "none") ELSE Separator(s, i, kind)
        item == Then(sep, LAMBDA j, x : Item(s, j, kind))
    IN  Then(item, LAMBDA j, v : separated(s, j, kind, Append(got, v))) | Ok(i, got)
separated_list0(s, i, kind) == separated(s, i, kind, <<>>)
separated_list1(s, i, kind) ==
    LET r == separated(s, i, kind, <<>>)
    IN  IF r.tag = "ok" /\ r.of = <<>> THEN Error ELSE r

-----------------------------------------------------------------------------
(* parser/type_.rs *)

function_type(s, i) ==
    Then(tag(s, i, "fn"), LAMBDA i1, x1 :
    Then(multispace1(s, i1), LAMBDA i2, x2 :
    Then(opt(Then(separated_list0(s, i2, "type"), LAMBDA j, v :
                    map(multispace1(s, j), LAMBDA x : v)), i2), LAMBDA i3, args :
    Then(tag(s, i3, "->"), LAMBDA i4, x4 :
    Then(multispace1(s, i4), LAMBDA i5, x5 :
    map(type_(s, i5), LAMBDA ret : TFun(Joined(args), ret)))))))

\* Two or more items in parentheses; a comma may not be the last.
Members(s, i, kind) ==
    Then(Item(s, multispace0(s, i), kind), LAMBDA i1, fst :
    Then(comma(s, i1), LAMBDA i2, x :
    Then(separated_list0(s, i2, kind), LAMBDA i3, others :
    map(tag(s, multispace0(s, i3), ")"), LAMBDA y : <<fst>> \o others))))

tuple_type(s, i) ==
    Then(tag(s, i, "("), LAMBDA j, x : map(Members(s, j, "type"), LAMBDA m : TTuple(m)))

type_(s, i) ==
    map(tag(s, i, "int"), LAMBDA x : TInt)
    | map(tag(s, i, "bool"), LAMBDA x : TBool)
    | map(tag(s, i, "cstring"), LAMBDA x : TString)
    | map(tags(s, i, "(", ")"), LAMBDA x : TUnit)
    | tuple_type(s, i)
    | function_type(s, i)
    | map(ident(s, i), TVar)
    | Then(tag(s, i, "("), LAMBDA i1, x1 :
      Then(type_(s, multispace0(s, i1)), LAMBDA i2, ty :
      Then(tag(s, i2, ")"), LAMBDA i3, x3 : Ok(multispace0(s, i3), ty))))

-----------------------------------------------------------------------------
(* parser/expr.rs: operators *)

prefix(s, i) ==
    map(complete(tag(s, i, "-")), LAMBDA x : <<"prefix", "-">>)
    | map(complete(tag(s, i, "!")), LAMBDA x : <<"prefix", "!">>)
prefixes(s, i, got) ==
    Then(prefix(s, i), LAMBDA j, t : prefixes(s, j, Append(got, t))) | Ok(i, got)

Infixes == {"==", "!=", "+", "-", "*", "/", "^"}
infix(s, i) ==
    IF Is(s, i, "tag") /\ s[i][2] \in Infixes THEN Ok(i + 1, <<"infix", s[i][2]>>) ELSE Error

primary(s, i) ==
    Then(Spaced(s, i, "("), LAMBDA i1, x1 :
    Then(group(s, multispace0(s, i1)), LAMBDA i2, ts :
    Then(Spaced(s, i2, ")"), LAMBDA i3, x3 : Ok(multispace0(s, i3), <<"group", ts>>))))
    | Then(simple_expr(s, multispace0(s, i)), LAMBDA j, e :
           Ok(multispace0(s, j), <<"primary", e>>))

rest(s, i, got) ==
    Then(Then(infix(s, i), LAMBDA i1, op :
         Then(prefixes(s, multispace0(s, i1), <<>>), LAMBDA i2, pre :
         map(primary(s, multispace0(s, i2)), LAMBDA t : <<op>> \o pre \o <<t>>))),
         LAMBDA j, ts : rest(s, j, got \o ts))
    | Ok(i, got)

group(s, i) ==
    Then(prefixes(s, i, <<>>), LAMBDA i1, pre :
    Then(primary(s, i1), LAMBDA i2, t : rest(s, i2, Append(pre, t))))

Precedence_Flat(op) == IF op \in {"==", "!="} THEN 40 ELSE 60

\* ExprParser, with ten times the precedence, and one less to the right of an
\* operator that associates to the right or stands before its operand.
Precedence(op) ==
    CASE op \in {"==", "!="} -> 40
      [] op \in {"+", "-"} -> 60
      [] op \in {"*", "/"} -> 70
      [] op = "^" -> 80
RightPrecedence(op) == IF op \in {"==", "!=", "^"} THEN Precedence(op) - 1
                       ELSE Precedence(op)

\* The crate pratt: the expression at the head of the tokens, as far as its
\* operators bind more than rbp, and the tokens after it.
RECURSIVE Pratt(_, _), Infixed(_, _, _)
Pratt(ts, rbp) ==
    LET first == Head(ts)
        start ==
            CASE first[1] = "primary" -> [of |-> first[2], left |-> Tail(ts)]
              [] first[1] = "group" -> [of |-> Pratt(first[2], 0).of, left |-> Tail(ts)]
              [] first[1] = "prefix" ->
                    LET r == Pratt(Tail(ts), 59)
                    IN  [of |-> [node |-> "Unary", rhs |-> r.of], left |-> r.left]
    IN  Infixed(start.of, start.left, rbp)
Infixed(lhs, ts, rbp) ==
    IF ts = <<>> \/ Precedence(Head(ts)[2]) <= rbp THEN [of |-> lhs, left |-> ts]
    ELSE LET op == Head(ts)[2]
             r == Pratt(Tail(ts), RightPrecedence(op))
         IN  Infixed([node |-> "Binary", op |-> op, lhs |-> lhs, rhs |-> r.of], r.left, rbp)

-----------------------------------------------------------------------------
(* parser/expr.rs: the other expressions *)

tuple(s, i) ==
    Then(complete(tag(s, i, "(")), LAMBDA j, x :
        map(Members(s, j, "expr"), LAMBDA m : [node |-> "Tuple", members |-> m]))

pattern(s, i) ==
    map(ident(s, i), LAMBDA x : [pat |-> "Id", name |-> x])
    | Then(complete(tag(s, i, "(")), LAMBDA i1, x1 :
      Then(separated_list0(s, multispace0(s, i1), "pattern"), LAMBDA i2, pats :
      map(tag(s, multispace0(s, i2), ")"), LAMBDA x : [pat |-> "Tuple", members |-> pats])))

\* `= e', after white space.
Body(s, i) == Then(Spaced(s, i, "="), LAMBDA j, x : expr(s, multispace0(s, j)))

\* `: t'
Ascripted(s, i) == Then(tag(s, i, ":"), LAMBDA j, x : type_(s, multispace0(s, j)))

binding(s, i) ==
    Then(pattern(s, multispace0(s, i)), LAMBDA i1, pat :
    Then(opt(Ascripted(s, multispace0(s, i1)), multispace0(s, i1)), LAMBDA i2, type :
    map(Body(s, i2), LAMBDA e : [pat |-> pat, type |-> type, body |-> e])))

\* A keyword and the expression after it.
Clause(s, i, w) == Then(Spaced(s, i, w), LAMBDA j, x : expr(s, multispace0(s, j)))

let_(s, i) ==
    Then(tag(s, i, "let"), LAMBDA i1, x1 :
    Then(separated_list1(s, multispace0(s, i1), "binding"), LAMBDA i2, bindings :
    map(Clause(s, i2, "in"), LAMBDA e : [node |-> "Let", bindings |-> bindings, body |-> e])))

if_(s, i) ==
    Then(tag(s, i, "if"), LAMBDA i1, x1 :
    Then(expr(s, multispace0(s, i1)), LAMBDA i2, condition :
    Then(Clause(s, i2, "then"), LAMBDA i3, then :
    map(Clause(s, i3, "else"), LAMBDA else :
        [node |-> "If", condition |-> condition, then |-> then, else |-> else]))))

paren_expr(s, i) ==
    Then(complete(tag(s, i, "(")), LAMBDA i1, x1 :
    Then(expr(s, i1), LAMBDA i2, e : map(complete(tag(s, i2, ")")), LAMBDA x : e)))

funcref(s, i) == ident_expr(s, i) | tuple(s, i) | paren_expr(s, i)
fn_arg(s, i) == ident_expr(s, i) | literal_expr(s, i) | tuple(s, i) | paren_expr(s, i)

CallOf(fun, args) == [node |-> "Call", fun |-> fun, args |-> args]
no_arg_call(s, i) ==
    Then(funcref(s, i), LAMBDA j, fun :
        map(complete(tags(s, j, "(", ")")), LAMBDA x : CallOf(fun, <<>>)))
call_with_args(s, i) ==
    Then(funcref(s, i), LAMBDA i1, fun :
    Then(multispace1(s, i1), LAMBDA i2, x2 :
    map(separated_list1(s, i2, "fn_arg"), LAMBDA args : CallOf(fun, args))))

\* The argument of a function, with its type or without one.
arg(s, i) ==
    map(ident(s, i), LAMBDA x : [name |-> x, type |-> <<>>])
    | Then(complete(tag(s, i, "(")), LAMBDA i1, x1 :
      Then(ident(s, multispace0(s, i1)), LAMBDA i2, x :
      Then(complete(Spaced(s, i2, ":")), LAMBDA i3, x3 :
      Then(type_(s, multispace0(s, i3)), LAMBDA i4, ty :
      map(complete(Spaced(s, i4, ")")), LAMBDA y : [name |-> x, type |-> <<ty>>])))))

fun_expr(s, i) ==
    Then(tag(s, i, "fn"), LAMBDA i1, x1 :
    Then(multispace1(s, i1), LAMBDA i2, x2 :
    Then(separated_list0(s, i2, "arg"), LAMBDA i3, args :
    map(Body(s, i3), LAMBDA e : [node |-> "Fun", args |-> args, body |-> e]))))

simple_expr_unascripted(s, i) ==
    let_(s, i) | if_(s, i) | fun_expr(s, i)
    | literal_expr(s, i) | ident_expr(s, i) | tuple(s, i)

simple_expr(s, i) ==
    LET plain == simple_expr_unascripted(s, i)
    IN  Then(plain, LAMBDA i1, e :
        Then(complete(Spaced(s, i1, ":")), LAMBDA i2, x :
        map(type_(s, multispace0(s, i2)), LAMBDA ty :
            [node |-> "Ascription", expr |-> e, type |-> ty])))
        | plain

expr(s, i) ==
    no_arg_call(s, i) | call_with_args(s, i)
    | map(group(s, i), LAMBDA ts : Pratt(ts, 0).of)
    | simple_expr(s, i)

-----------------------------------------------------------------------------
(* parser/mod.rs: declarations *)

\* The keyword, the name, and what F reads after the name.
Named(s, i, w, F(_, _)) ==
    Then(complete(tag(s, i, w)), LAMBDA i1, x1 :
    Then(multispace1(s, i1), LAMBDA i2, x2 :
    Then(ident(s, i2), LAMBDA i3, name : F(i3, name))))

ascription_decl(s, i) ==
    Named(s, i, "ty", LAMBDA j, name :
        Then(complete(Spaced(s, j, ":")), LAMBDA i1, x1 :
        Then(type_(s, multispace0(s, i1)), LAMBDA i2, ty :
        Ok(multispace0(s, i2), [decl |-> "Ascription", name |-> name, type |-> ty]))))

extern_decl(s, i) ==
    Named(s, i, "extern", LAMBDA j, name :
        Then(Spaced(s, j, ":"), LAMBDA i1, x1 :
        Then(function_type(s, multispace0(s, i1)), LAMBDA i2, ty :
        Ok(multispace0(s, i2), [decl |-> "Extern", name |-> name, type |-> ty]))))

fun_decl(s, i) ==
    Named(s, i, "fn", LAMBDA j, name :
        Then(multispace1(s, j), LAMBDA i1, x1 :
        Then(separated_list0(s, i1, "arg"), LAMBDA i2, args :
        map(Body(s, i2), LAMBDA e :
            [decl |-> "Fun", name |-> name, args |-> args, body |-> e]))))

decl(s, i) == ascription_decl(s, i) | fun_decl(s, i) | extern_decl(s, i)

\* White space after a declaration is read by some of them only.
RECURSIVE decls(_, _, _)
decls(s, i, got) == Then(decl(s, i), LAMBDA j, d : decls(s, j, Append(got, d))) | Ok(i, got)
toplevel(s) ==
    Then(decls(s, 1, <<>>), LAMBDA j, ds :
        IF multispace0(s, j) > Len(s) THEN Ok(j, ds) ELSE Error)
=================================================================================
