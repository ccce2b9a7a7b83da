------------------------------ MODULE TvixValues ------------------------------
(***************************************************************************)
(* What values do with each other, forcing thunks as they go: equality and *)
(* order (VM::nix_op_eq, Value::nix_cmp), coercion to strings and forcing  *)
(* to the bottom (src/tvix/eval/src/value/mod.rs).  Each is an activation; *)
(* equality and coercion leave their result on the stack.                  *)
(***************************************************************************)
EXTENDS TvixMachine

Failed == ret \notin {"go", "ok"}

Active(kind) == ctl # <<>> /\ Activation.k = kind

\* The activation has failed with the one above it.
PassOn(kind) ==
    /\ Active(kind) /\ Failed
    /\ ctl' = Front(ctl)
    /\ Same(<<stack, frames, withs, heap, ret>>)

\* It returns v; it goes on as a; it calls another activation.
Return(v) == Push(v) /\ ctl' = Front(ctl) /\ ret' = "ok"
Fail(kind) == ctl' = Front(ctl) /\ ret' = kind /\ UNCHANGED stack
GoOn(a) == ctl' = GoingOnAs(a) /\ ret' = "go"
Enter(a, next) == ctl' = Append(GoingOnAs(a), next) /\ ret' = "go"

-----------------------------------------------------------------------------
(* Equality: VM::nix_op_eq works off pairs left on the stack.              *)

\* The two values on top of the stack are compared; `top' allows the same
\* thunk to be equal to itself without being forced.
EqualityOf(top) == [k |-> "eq", top |-> top, pairs |-> 1, deep |-> top, pair |-> <<>>]

OpEqual ==
    /\ Op("Equal")
    /\ Begin(EqualityOf(FALSE))
    /\ Same(<<stack, withs, heap>>)

InEq == Active("eq")

EqAnswer(b, pairs) ==
    stack' = Append(Below(2 * pairs), Bool(b)) /\ ctl' = Front(ctl) /\ ret' = "ok"

EqNextPair ==
    /\ InEq /\ ret = "go" /\ Activation.pair = <<>>
    /\ IF Activation.pairs = 0 THEN EqAnswer(TRUE, 0)
       ELSE LET same == Activation.top /\ IsThunk(Peek) /\ TopN(2)[1] = Peek
            IN  /\ ctl' = GoingOnAs([Activation EXCEPT !.pairs = @ - 1,
                                                      !.pair = IF same THEN <<>> ELSE TopN(2)])
                /\ stack' = Below(2) /\ UNCHANGED ret
    /\ Same(<<frames, withs, heap>>)

\* The second of the pair is forced first.
EqForce ==
    /\ InEq /\ Activation.pair # <<>>
    /\ LET p == Activation.pair IN ForceFirst(IF Settled(p[2], ctl) THEN p[1] ELSE p[2])
    /\ Same(<<stack, frames, withs, heap>>)

EqFailed == PassOn("eq")

\* Compare the contents pairwise; from here on pointers may decide.
EqContents(more) ==
    /\ GoOn([Activation EXCEPT !.pairs = @ + Len(more) \div 2, !.deep = TRUE, !.pair = <<>>])
    /\ stack' = stack \o more

EqCompare ==
    /\ InEq /\ ret \in {"go", "ok"} /\ Activation.pair # <<>>
    /\ \A v \in Range(Activation.pair) : Settled(v, ctl)
    /\ LET v == Deref(Activation.pair[1])
           w == Deref(Activation.pair[2])
           names == SetToSeq(DOMAIN Fields(v))
           Alternate(n, f(_), g(_)) == [i \in 1..(2 * n) |->
                IF i % 2 = 1 THEN f((i + 1) \div 2) ELSE g(i \div 2)]
       IN  IF Has(v, "list") /\ Has(w, "list")
           THEN IF v = w THEN EqContents(<<>>)
                ELSE IF Len(Items(v)) # Len(Items(w)) THEN EqAnswer(FALSE, Activation.pairs)
                ELSE EqContents(Alternate(Len(Items(v)), LAMBDA i : Items(v)[i],
                                                   LAMBDA i : Items(w)[i]))
           ELSE IF Has(v, "attrs") /\ Has(w, "attrs")
           THEN IF v = w /\ Activation.deep THEN EqContents(<<>>)
                ELSE IF DOMAIN Fields(v) # DOMAIN Fields(w)
                THEN EqAnswer(FALSE, Activation.pairs)
                ELSE EqContents(Alternate(Len(names), LAMBDA i : Fields(v)[names[i]],
                                                LAMBDA i : Fields(w)[names[i]]))
           ELSE LET pointers == Activation.deep /\ Has(v, "closure")
                    leaves == \E k \in {"null", "bool", "int", "str"} : Has(v, k) /\ Has(w, k)
                IN  IF v = w /\ (pointers \/ leaves)
                    THEN GoOn([Activation EXCEPT !.pair = <<>>]) /\ UNCHANGED stack
                    ELSE EqAnswer(FALSE, Activation.pairs)
    /\ Same(<<frames, withs, heap>>)

-----------------------------------------------------------------------------
(* Order: Value::nix_cmp.                                                  *)

\* Strings have some order; it is fixed, but which one does not matter.
Before(s, t) == s # t /\ SetToSeq({s, t})[1] = s

Orders == "Less" :> {"less"} @@ "LessOrEq" :> {"less", "equal"}
          @@ "More" :> {"greater"} @@ "MoreOrEq" :> {"greater", "equal"}

Ordering(op, v, w) == [k |-> "cmp", op |-> op, l |-> v, r |-> w, i |-> 1, wait |-> ""]

OpCompare ==
    /\ \E op \in DOMAIN Orders : Op(op)
    /\ Begin(Ordering(Instr.op, TopN(2)[1], Peek))
    /\ stack' = Below(2)
    /\ Same(<<withs, heap>>)

Answer(order) == Return(Bool(order \in Orders[Activation.op]))

\* Of two lists the first elements that are not equal decide.  Equal lists
\* are the end of the right one, which comes first.
CmpStep ==
    /\ Active("cmp") /\ ret = "go" /\ Activation.wait = ""
    /\ LET a == Activation
           v == a.l
           w == a.r
       IN  IF Has(v, "int") /\ Has(w, "int")
           THEN Answer(IF v.int < w.int THEN "less" ELSE IF v = w THEN "equal" ELSE "greater")
           ELSE IF Has(v, "str") /\ Has(w, "str")
           THEN Answer(IF v = w THEN "equal" ELSE IF Before(v.str, w.str) THEN "less" ELSE "greater")
           ELSE IF Has(v, "list") /\ Has(w, "list")
           THEN IF a.i > Len(Items(w)) THEN Answer("greater")
                ELSE IF a.i > Len(Items(v)) THEN Answer("less")
                ELSE /\ stack' = stack \o <<Items(v)[a.i], Items(w)[a.i]>>
                     /\ Enter([a EXCEPT !.wait = "equal"], EqualityOf(TRUE))
           ELSE Fail("incomparable")
    /\ Same(<<frames, withs, heap>>)

CmpEqual ==
    /\ Active("cmp") /\ ret = "ok" /\ Activation.wait = "equal"
    /\ stack' = Front(stack)
    /\ GoOn(IF IsTrue(Peek) THEN [Activation EXCEPT !.i = @ + 1, !.wait = ""]
            ELSE [Activation EXCEPT !.wait = "force"])
    /\ Same(<<frames, withs, heap>>)

\* Both are lent out while they are compared, the first already while the
\* second is forced.
CmpForce ==
    /\ Active("cmp") /\ Activation.wait = "force"
    /\ LET v == Items(Activation.l)[Activation.i]
           w == Items(Activation.r)[Activation.i]
           next == Ordering(Activation.op, Deref(v), Deref(w))
       IN  \/ ForceFirst(v)
           \/ Settled(v, ctl) /\ ForceUnder(Holding(ctl, v), w)
           \/ /\ Settled(v, ctl) /\ Settled(w, Holding(ctl, v)) /\ ~Failed
              /\ ctl' = Append(Holding(Holding(Front(ctl), v), w), next) /\ ret' = "go"
    /\ Same(<<stack, frames, withs, heap>>)

CmpFailed == PassOn("cmp")

-----------------------------------------------------------------------------
(* Strings: Value::coerce_to_string; strong coercion takes more values.    *)

Coercion(v, strong) == [k |-> "coerce", v |-> v, strong |-> strong, wait |-> "",
                        todo |-> <<>>, acc |-> <<>>, error |-> ""]

CoerceForce ==
    /\ Active("coerce") /\ Activation.wait = ""
    /\ ForceFirst(Activation.v)
    /\ Same(<<stack, frames, withs, heap>>)

\* A thunk is lent out until its value has been coerced, whatever that
\* calls or forces.
CoerceValueOf ==
    /\ Active("coerce") /\ ~Failed /\ Activation.wait = ""
    /\ IsThunk(Activation.v) /\ Settled(Activation.v, ctl)
    /\ ctl' = Append(Holding(Front(ctl), Activation.v), [Activation EXCEPT !.v = Deref(@)])
    /\ ret' = "go"
    /\ Same(<<stack, frames, withs, heap>>)

\* An attribute set is what its __toString makes of it, or its outPath;
\* a list is its elements with spaces in between.
CoerceStep ==
    /\ Active("coerce") /\ ~Failed /\ Activation.wait = "" /\ ~IsThunk(Activation.v)
    /\ LET a == Activation
           v == a.v
           String(s) == Return([str |-> s])
       IN  IF Has(v, "str") THEN Return(v)
           ELSE IF Has(v, "attrs") /\ ContainsKey(SetAt(v), "__toString")
           THEN /\ stack' = Append(stack, v)
                /\ GoOn([a EXCEPT !.v = Selected(SetAt(v), "__toString"), !.wait = "function"])
           ELSE IF Has(v, "attrs") /\ ContainsKey(SetAt(v), "outPath")
           THEN GoOn([a EXCEPT !.v = Selected(SetAt(v), "outPath")]) /\ UNCHANGED stack
           ELSE IF ~a.strong THEN Fail("coerce")
           ELSE IF v = Null \/ v = Bool(FALSE) THEN String("")
           ELSE IF v = Bool(TRUE) THEN String("1")
           ELSE IF Has(v, "int") THEN String(ToString(v.int))
           ELSE IF Has(v, "list") /\ Items(v) = <<>> THEN String("")
           ELSE IF Has(v, "list")
           THEN UNCHANGED stack /\ Enter([a EXCEPT !.wait = "element", !.todo = Tail(Items(v))],
                                         Coercion(Head(Items(v)), TRUE))
           ELSE Fail("coerce")
    /\ Same(<<frames, withs, heap>>)

\* The set is on the stack as the argument of its __toString; the result
\* is coerced in turn.  The function, if a thunk, is lent out over both.
CoerceCall ==
    /\ Active("coerce") /\ Activation.wait = "function" /\ ~Failed
    /\ \/ /\ ForceFirst(Activation.v) /\ UNCHANGED <<stack, frames>>
       \/ /\ Settled(Activation.v, ctl)
          /\ CallOf(Deref(Activation.v), stack, frames,
                    Append(Holding(Front(ctl), Activation.v), [Activation EXCEPT !.wait = "result"]),
                    FALSE)
    /\ Same(<<withs, heap>>)

CoerceResult ==
    /\ Active("coerce") /\ ret = "ok" /\ Activation.wait = "result"
    /\ stack' = Front(stack)
    /\ GoOn(Coercion(Peek, Activation.strong))
    /\ Same(<<frames, withs, heap>>)

\* The elements that follow one that failed are coerced all the same; the
\* first error is the one that is returned.
CoerceElement ==
    /\ Active("coerce") /\ ret # "go" /\ Activation.wait = "element"
    /\ LET joined(acc) == IF acc = <<>> THEN <<Peek>>
                          ELSE <<Concatenated(Concatenated(acc[1], [str |-> " "]), Peek)>>
           a == IF Failed THEN [Activation EXCEPT !.error = IF @ = "" THEN ret ELSE @]
                ELSE [Activation EXCEPT !.acc = joined(@)]
           rest == IF Failed THEN stack ELSE Front(stack)
       IN  IF a.todo # <<>>
           THEN /\ stack' = rest
                /\ Enter([a EXCEPT !.todo = Tail(@)], Coercion(Head(a.todo), TRUE))
           ELSE /\ stack' = IF a.error = "" THEN rest \o a.acc ELSE rest
                /\ ctl' = Front(ctl)
                /\ ret' = IF a.error = "" THEN "ok" ELSE a.error
    /\ Same(<<frames, withs, heap>>)

CoerceFailed ==
    /\ Active("coerce") /\ Failed /\ Activation.wait # "element"
    /\ ctl' = Front(ctl)
    /\ Same(<<stack, frames, withs, heap, ret>>)

OpCoerceToString ==
    /\ Op("CoerceToString")
    /\ Begin(Coercion(Peek, FALSE))
    /\ stack' = Front(stack)
    /\ Same(<<withs, heap>>)

\* The fragments of a string are on the stack in reverse.
OpInterpolate ==
    /\ Op("Interpolate")
    /\ stack' = Append(Below(Instr.arg),
                       FoldLeft(LAMBDA s, t : Concatenated(t, s), [str |-> ""], TopN(Instr.arg)))
    /\ Advance(1) /\ Same(<<withs, heap>>)

\* "string" + v and v + "string".
JoinStep ==
    /\ Active("join") /\ ~Failed
    /\ LET a == Activation
           other == IF Has(a.left, "str") THEN a.right ELSE a.left
       IN  IF ret = "go" THEN Enter(a, Coercion(other, FALSE)) /\ UNCHANGED stack
           ELSE /\ stack' = Append(Front(stack), IF Has(a.left, "str") THEN Concatenated(a.left, Peek)
                                                 ELSE Concatenated(Peek, a.right))
                /\ ctl' = Front(ctl) /\ UNCHANGED ret
    /\ Same(<<frames, withs, heap>>)

JoinFailed == PassOn("join")

-----------------------------------------------------------------------------
(* Value::deep_force; a thunk that has been seen is not visited again.     *)

\* When v has been forced to the bottom, the values `then' are pushed.
DeepForcing(v, then) == [k |-> "deep", todo |-> <<v>>, seen |-> {}, then |-> then]

DeepFirst == Head(Activation.todo)

DeepForce ==
    /\ Active("deep") /\ Activation.todo # <<>>
    /\ DeepFirst \notin Activation.seen
    /\ ForceFirst(DeepFirst)
    /\ Same(<<stack, frames, withs, heap>>)

DeepStep ==
    /\ Active("deep") /\ ~Failed
    /\ \/ /\ Activation.todo = <<>>
          /\ stack' = stack \o Activation.then
          /\ ctl' = Front(ctl) /\ ret' = "ok"
       \/ /\ Activation.todo # <<>>
          /\ DeepFirst \in Activation.seen \/ Settled(DeepFirst, ctl)
          /\ LET v == DeepFirst
                 parts == IF v \in Activation.seen THEN <<>>
                          ELSE IF IsThunk(v) THEN <<Deref(v)>>
                          ELSE IF Has(v, "attrs")
                          THEN LET xs == SetToSeq(DOMAIN Fields(v))
                               IN  [i \in DOMAIN xs |-> Fields(v)[xs[i]]]
                          ELSE IF Has(v, "list") THEN Items(v)
                          ELSE <<>>
             IN  GoOn([Activation EXCEPT !.todo = parts \o Tail(@),
                                         !.seen = IF IsThunk(v) THEN @ \cup {v} ELSE @])
          /\ UNCHANGED stack
    /\ Same(<<frames, withs, heap>>)

DeepFailed == PassOn("deep")
=============================================================================
