----------------------------- MODULE TvixBuiltins -----------------------------
(***************************************************************************)
(* The builtins of tvix (src/tvix/eval/src/builtins/mod.rs).  A call of a  *)
(* builtin is an activation "builtin" with the arguments so far; those     *)
(* that visit the elements of a list or set, or call functions, go on as   *)
(* an activation of their own: "loop", "sort", "closure".  Regular         *)
(* expressions, JSON, versions, floats, paths, bit operations and the      *)
(* impure builtins are left out.                                           *)
(***************************************************************************)
EXTENDS TvixValues

Unary == {"abort", "attrNames", "attrValues", "concatLists", "functionArgs",
          "genericClosure", "head", "isAttrs", "isBool", "isFunction", "isInt",
          "isList", "isNull", "isString", "length", "listToAttrs", "stringLength",
          "tail", "throw", "toString", "tryEval", "typeOf"}
Ternary == {"foldl'", "substring"}

Arity(b) == IF b \in Unary THEN 1 ELSE IF b \in Ternary THEN 3 ELSE 2

\* Arguments that are not forced before the builtin runs.  Other lazy ones
\* are forced by their builtin in the same order.
Lazy(b, i) == b \in {"tryEval", "toString", "stringLength"} \/ (b = "foldl'" /\ i = 2)

Saturated == Len(Activation.args) = Arity(Activation.b)

\* Builtin::apply, when arguments are missing.
BuiltinPartial ==
    /\ Active("builtin") /\ ~Saturated
    /\ Return([builtin |-> Activation.b, args |-> Activation.args])
    /\ Same(<<frames, withs, heap>>)

\* Builtins that keep the first argument lent out while the second is forced.
HoldsFirst == {"add", "sub", "mul", "div", "lessThan"}

\* The activations under which the i-th argument is forced.
Under(i) ==
    IF Activation.b \in HoldsFirst /\ i = 2 THEN Holding(ctl, Activation.args[1]) ELSE ctl

ArgumentSettled(i) == Lazy(Activation.b, i) \/ Settled(Activation.args[i], Under(i))

\* The arguments are forced in order.
BuiltinForce ==
    /\ Active("builtin") /\ Saturated
    /\ \E i \in DOMAIN Activation.args :
          /\ Activation.b = "tryEval" \/ ~Lazy(Activation.b, i)
          /\ \A j \in 1..(i - 1) : ArgumentSettled(j)
          /\ ForceUnder(Under(i), Activation.args[i])
    /\ Same(<<stack, frames, withs, heap>>)

BuiltinFailed ==
    /\ Active("builtin") /\ Failed
    /\ ~(Activation.b = "tryEval" /\ ret \in Catchable)
    /\ ctl' = Front(ctl)
    /\ Same(<<stack, frames, withs, heap, ret>>)

\* The builtin b runs.
Calls(b) ==
    /\ Active("builtin") /\ Activation.b = b /\ Saturated /\ ~Failed
    /\ \A i \in DOMAIN Activation.args : ArgumentSettled(i)

Arg(i) == Deref(Activation.args[i])

-----------------------------------------------------------------------------
(* Builtins that neither force nor call anything further.  An outcome is   *)
(* a value, a list of items, a set, an error or a panic.                   *)

Value(v) == [value |-> v]
Error(kind) == [error |-> kind]
ListOf(items) == [items |-> items]
SetWith(map) == [set |-> map]

Typed(v, kind, outcome) == IF Has(v, kind) THEN outcome ELSE Error("type")

TypeNames == "int" :> "int" @@ "bool" :> "bool" @@ "str" :> "string" @@ "null" :> "null"
             @@ "list" :> "list" @@ "attrs" :> "set" @@ "closure" :> "lambda"
             @@ "builtin" :> "lambda"

TypeOf(v) == TypeNames[CHOOSE kind \in DOMAIN TypeNames : Has(v, kind)]

TypeTests == "isAttrs" :> "set" @@ "isBool" :> "bool" @@ "isFunction" :> "lambda"
             @@ "isInt" :> "int" @@ "isList" :> "list" @@ "isNull" :> "null"
             @@ "isString" :> "string"

ArithmeticBuiltins == "add" :> "Add" @@ "sub" :> "Sub" @@ "mul" :> "Mul" @@ "div" :> "Div"

\* Elements in the order of an iterator over the set.
Keys(set) == SetToSeq(DOMAIN ToMap(set))

Substring(s, start, len) ==
    LET end == IF start + len < Len(s) THEN start + len ELSE Len(s)
    IN  IF start < 0 THEN Error("index")
        ELSE IF start >= Len(s) THEN Value([str |-> ""])
        ELSE IF len < 0 THEN Error("length")
        ELSE Value([str |-> SubSeq(s, start + 1, end)])

\* removeAttrs does not force the keys: Value::to_str panics on a thunk
\* that has not been evaluated.
RemoveAttrs(set, keys) ==
    LET bad == {i \in DOMAIN keys : ~Forced(keys[i]) \/ ~Has(Deref(keys[i]), "str")}
        first == CHOOSE i \in bad : \A j \in bad : i <= j
        removed == {Deref(keys[i]).str : i \in DOMAIN keys}
    IN  IF bad = {} THEN SetWith(Restrict(ToMap(set), DOMAIN ToMap(set) \ removed))
        ELSE IF Forced(keys[first]) THEN Error("type") ELSE [panic |-> TRUE]

\* Dividing by zero is only looked for by the operator, not by builtins.div.
ArithmeticOutcome(b, x, y) ==
    IF ~Has(x, "int") \/ ~Has(y, "int") THEN Error("type")
    ELSE IF b = "div" /\ y.int = 0 THEN [panic |-> TRUE]
    ELSE Value(Arithmetic(ArithmeticBuiltins[b], x, y))

AttrNames(x) ==
    Typed(x, "attrs", ListOf([i \in DOMAIN Keys(SetAt(x)) |-> [str |-> Keys(SetAt(x))[i]]]))
AttrValues(x) ==
    Typed(x, "attrs", ListOf([i \in DOMAIN Keys(SetAt(x)) |-> Fields(x)[Keys(SetAt(x))[i]]]))
HeadOf(x) == Typed(x, "list", IF Items(x) = <<>> THEN Error("index") ELSE Value(Head(Items(x))))
TailOf(x) == Typed(x, "list", IF Items(x) = <<>> THEN Error("tail") ELSE ListOf(Tail(Items(x))))
FunctionArgs(x) ==
    LET formals == Lambda(x.closure).formals
    IN  Typed(x, "closure", SetWith([f \in DOMAIN formals |-> Bool(formals[f])]))

ElemAt(x, y) ==
    Typed(x, "list", Typed(y, "int",
        IF y.int \in 0..(Len(Items(x)) - 1) THEN Value(Items(x)[y.int + 1]) ELSE Error("index")))
GetAttr(x, y) ==
    Typed(x, "str", Typed(y, "attrs",
        IF ContainsKey(SetAt(y), x.str) THEN Value(Selected(SetAt(y), x.str)) ELSE Error("missing")))
HasKey(x, y) == Typed(x, "str", Typed(y, "attrs", Value(Bool(ContainsKey(SetAt(y), x.str)))))
IntersectAttrs(x, y) ==
    Typed(x, "attrs", Typed(y, "attrs",
        SetWith(Restrict(Fields(y), DOMAIN Fields(x) \cap DOMAIN Fields(y)))))

Plain1 == {"abort", "throw", "attrNames", "attrValues", "head", "tail", "length",
           "functionArgs", "typeOf"} \cup DOMAIN TypeTests
Plain2 == {"elemAt", "getAttr", "hasAttr", "intersectAttrs", "removeAttrs", "seq", "trace"}
          \cup DOMAIN ArithmeticBuiltins

Outcome1(b, x) ==
    CASE b \in {"abort", "throw"} -> Typed(x, "str", Error(b))
      [] b = "attrNames" -> AttrNames(x)
      [] b = "attrValues" -> AttrValues(x)
      [] b = "head" -> HeadOf(x)
      [] b = "tail" -> TailOf(x)
      [] b = "length" -> Typed(x, "list", Value([int |-> Len(Items(x))]))
      [] b = "functionArgs" -> FunctionArgs(x)
      [] b = "typeOf" -> Value([str |-> TypeOf(x)])
      [] b \in DOMAIN TypeTests -> Value(Bool(TypeOf(x) = TypeTests[b]))

Outcome2(b, x, y) ==
    CASE b = "elemAt" -> ElemAt(x, y)
      [] b = "getAttr" -> GetAttr(x, y)
      [] b = "hasAttr" -> HasKey(x, y)
      [] b = "intersectAttrs" -> IntersectAttrs(x, y)
      [] b = "removeAttrs" -> Typed(x, "attrs", Typed(y, "list", RemoveAttrs(SetAt(x), Items(y))))
      [] b \in {"seq", "trace"} -> Value(Activation.args[2])
      [] b \in DOMAIN ArithmeticBuiltins -> ArithmeticOutcome(b, x, y)

Settle(outcome) ==
    IF Has(outcome, "error") THEN Fail(outcome.error) /\ UNCHANGED <<heap, frames>>
    ELSE IF Has(outcome, "panic") THEN Panic /\ UNCHANGED <<stack, heap>>
    ELSE /\ \/ Has(outcome, "value") /\ Return(outcome.value) /\ UNCHANGED heap
            \/ /\ Has(outcome, "items")
               /\ heap' = Append(heap, [items |-> outcome.items])
               /\ Return([list |-> Len(heap) + 1])
            \/ /\ Has(outcome, "set")
               /\ heap' = Append(heap, [set |-> MapRep(outcome.set)])
               /\ Return([attrs |-> Len(heap) + 1])
         /\ UNCHANGED frames

BuiltinPlain ==
    /\ \/ \E b \in Plain1 : Calls(b) /\ Settle(Outcome1(b, Arg(1)))
       \/ \E b \in Plain2 : Calls(b) /\ Settle(Outcome2(b, Arg(1), Arg(2)))
       \/ /\ Calls("substring")
          /\ Settle(Typed(Arg(1), "int", Typed(Arg(2), "int", Typed(Arg(3), "str",
                        Substring(Arg(3).str, Arg(1).int, Arg(2).int)))))
    /\ Same(withs)

\* tryEval catches what throw and assert raise.
BuiltinTryEval ==
    /\ Active("builtin") /\ Activation.b = "tryEval" /\ Saturated
    /\ \/ ~Failed /\ Settled(Activation.args[1], ctl)
       \/ ret \in Catchable
    /\ LET ok == ~Failed
       IN  heap' = Append(heap, [set |-> MapRep([x \in {"success", "value"} |->
                    IF x = "value" /\ ok THEN Arg(1) ELSE Bool(ok)])])
    /\ Return([attrs |-> Len(heap) + 1])
    /\ Same(<<frames, withs>>)

-----------------------------------------------------------------------------
(* Builtins that end in one of the operations on values *)

Become(activation) == ctl' = Append(Front(ctl), activation) /\ ret' = "go"

BuiltinLessThan ==
    /\ Calls("lessThan")
    /\ ctl' = Append(Holding(Holding(Front(ctl), Activation.args[1]), Activation.args[2]),
                     Ordering("Less", Arg(1), Arg(2)))
    /\ ret' = "go"
    /\ Same(<<stack, frames, withs, heap>>)

BuiltinToString ==
    /\ Calls("toString")
    /\ Become(Coercion(Activation.args[1], TRUE))
    /\ Same(<<stack, frames, withs, heap>>)

BuiltinStringLength ==
    /\ Active("builtin") /\ Activation.b = "stringLength" /\ ~Failed
    /\ IF ret = "go"
       THEN ctl' = Append(ctl, Coercion(Activation.args[1], FALSE)) /\ UNCHANGED <<stack, ret>>
       ELSE /\ stack' = Append(Front(stack), [int |-> Len(Peek.str)])
            /\ ctl' = Front(ctl) /\ UNCHANGED ret
    /\ Same(<<frames, withs, heap>>)

BuiltinDeepSeq ==
    /\ Calls("deepSeq")
    /\ Become(DeepForcing(Activation.args[1], <<Activation.args[2]>>))
    /\ Same(<<stack, frames, withs, heap>>)

-----------------------------------------------------------------------------
(* Builtins that visit elements.  A loop keeps what it has collected in    *)
(* acc: items, pairs <<key, item>>, or the state of a fold; got holds what *)
(* the visit of the first item in todo gave so far.                        *)

Visiting == {"catAttrs", "concatLists", "listToAttrs"}
Calling == {"all", "any", "filter", "map", "concatMap", "partition", "genList",
            "groupBy", "mapAttrs", "foldl'"}
Loops == Visiting \cup Calling \cup {"elem", "concatStringsSep"}

\* The results of these calls are left unforced.
KeptLazy == {"map", "genList", "mapAttrs"}

Loop(b, items) ==
    [k |-> "loop", b |-> b, args |-> Activation.args, todo |-> items, got |-> <<>>,
     acc |-> IF b = "foldl'" THEN <<Activation.args[2]>> ELSE <<>>]

\* What is visited; an argument of the wrong type is an error at once.
Visited(b) ==
    LET xs == Arg(Len(Activation.args))
    IN  CASE b = "genList" -> Typed(xs, "int", ListOf([i \in 1..xs.int |-> [int |-> i - 1]]))
          [] b = "mapAttrs" ->
                Typed(xs, "attrs", ListOf([i \in DOMAIN Keys(SetAt(xs)) |-> Keys(SetAt(xs))[i]]))
          [] b \in {"catAttrs", "concatStringsSep"} ->
                Typed(Arg(1), "str", Typed(xs, "list", ListOf(Items(xs))))
          [] OTHER -> Typed(xs, "list", ListOf(Items(xs)))

BuiltinLoop ==
    /\ \E b \in Loops :
          /\ Calls(b)
          /\ LET visited == Visited(b)
             IN  IF Has(visited, "error") THEN Fail(visited.error)
                 ELSE Become(Loop(b, visited.items)) /\ UNCHANGED stack
    /\ Same(<<frames, withs, heap>>)

ThisLoop == Activation.b
Item == Head(Activation.todo)

LoopNext ==
    /\ Active("loop") /\ ret = "go" /\ Activation.got = <<>> /\ Activation.todo # <<>>
    /\ LET a == Activation
           args == IF a.b = "foldl'" THEN <<a.acc[1], Item>>
                   ELSE IF a.b = "mapAttrs" THEN <<[str |-> Item], Fields(Arg(2))[Item]>>
                   ELSE <<Item>>
       IN  \/ a.b \in Calling /\ CallWith(a.args[1], args, a)
           \/ a.b \in Visiting /\ GoOn([a EXCEPT !.got = <<Item>>]) /\ UNCHANGED stack
           \/ a.b = "concatStringsSep" /\ Enter(a, Coercion(Item, FALSE)) /\ UNCHANGED stack
           \/ /\ a.b = "elem"
              /\ stack' = stack \o <<Item, a.args[1]>>
              /\ Enter(a, EqualityOf(TRUE))
    /\ Same(<<frames, withs, heap>>)

\* The call, comparison or coercion has left its result on the stack.
LoopReturned ==
    /\ Active("loop") /\ ret = "ok" /\ Activation.got = <<>>
    /\ GoOn([Activation EXCEPT !.got = <<Peek>>])
    /\ stack' = Front(stack)
    /\ Same(<<frames, withs, heap>>)

LoopForce ==
    /\ Active("loop") /\ Activation.got # <<>> /\ ThisLoop \notin KeptLazy
    /\ ForceFirst(Activation.got[1])
    /\ Same(<<stack, frames, withs, heap>>)

\* What is done with the result for an item: it is collected, or answers
\* the whole loop.
Keep(acc, x) == [acc |-> Append(acc, x)]
Leave(acc) == [acc |-> acc]

Decided(b, w, acc) ==
    Typed(w, "bool", IF w.bool = (b = "any") THEN Value(w) ELSE Leave(acc))
Filtered(w, acc) == Typed(w, "bool", IF w.bool THEN Keep(acc, Item) ELSE Leave(acc))
Partitioned(w, acc) ==
    Typed(w, "bool", Keep(acc, <<IF w.bool THEN "right" ELSE "wrong", Item>>))
GroupedBy(w, acc) == Typed(w, "str", Keep(acc, <<w.str, Item>>))
Spliced(w, acc) == Typed(w, "list", [acc |-> acc \o Items(w)])
CatAttr(w, acc) ==
    Typed(w, "attrs", IF ContainsKey(SetAt(w), Arg(1).str)
                      THEN Keep(acc, Selected(SetAt(w), Arg(1).str)) ELSE Leave(acc))
Found(w, acc) == IF w.bool THEN Value(Bool(TRUE)) ELSE Leave(acc)

Collected(b, v, acc) ==
    CASE b \in {"map", "genList", "concatStringsSep"} -> Keep(acc, v)
      [] b = "mapAttrs" -> Keep(acc, <<Item, v>>)
      [] b = "foldl'" -> [acc |-> <<v>>]
      [] b = "elem" -> Found(Deref(v), acc)
      [] b \in {"all", "any"} -> Decided(b, Deref(v), acc)
      [] b = "filter" -> Filtered(Deref(v), acc)
      [] b = "partition" -> Partitioned(Deref(v), acc)
      [] b = "groupBy" -> GroupedBy(Deref(v), acc)
      [] b \in {"concatMap", "concatLists"} -> Spliced(Deref(v), acc)
      [] b = "catAttrs" -> CatAttr(Deref(v), acc)

\* An element of listToAttrs is forced first, then its name; its value is
\* left alone, and of two with the same name the first is kept.
ListedAttr(got, acc) ==
    LET set == Deref(Last(got))
        name == Deref(Head(got))
    IN  IF Len(got) = 1
        THEN Typed(set, "attrs", IF ~ContainsKey(SetAt(set), "name") THEN Error("missing")
                                 ELSE [got |-> <<Selected(SetAt(set), "name")>> \o got])
        ELSE Typed(name, "str",
                IF ~ContainsKey(SetAt(set), "value") THEN Error("missing")
                ELSE IF \E pair \in Range(acc) : pair[1] = name.str THEN [acc |-> acc]
                ELSE [acc |-> Append(acc, <<name.str, Selected(SetAt(set), "value")>>)])

LoopCollect ==
    /\ Active("loop") /\ ~Failed /\ Activation.got # <<>>
    /\ ThisLoop \in KeptLazy \/ Settled(Activation.got[1], ctl)
    /\ LET a == Activation
           outcome == IF a.b = "listToAttrs" THEN ListedAttr(a.got, a.acc)
                      ELSE Collected(a.b, a.got[1], a.acc)
       IN  \/ Has(outcome, "error") /\ Fail(outcome.error)
           \/ Has(outcome, "value") /\ Return(outcome.value)
           \/ /\ Has(outcome, "got")
              /\ GoOn([a EXCEPT !.got = outcome.got]) /\ UNCHANGED stack
           \/ /\ Has(outcome, "acc")
              /\ GoOn([a EXCEPT !.acc = outcome.acc, !.got = <<>>, !.todo = Tail(@)])
              /\ UNCHANGED stack
    /\ Same(<<frames, withs, heap>>)

\* The items collected under the key x.
Grouped(acc, x) ==
    LET pairs == SelectSeq(acc, LAMBDA pair : pair[1] = x)
    IN  [i \in DOMAIN pairs |-> pairs[i][2]]

\* (Mutant: every attribute is one object too far.)
SetOfLists_OneTooFar(keys, acc) ==
    LET xs == SetToSeq(keys)
        lists == [i \in DOMAIN xs |-> [items |-> Grouped(acc, xs[i])]]
        at(x) == Len(heap) + (CHOOSE i \in DOMAIN xs : xs[i] = x) + 1
    IN  /\ heap' = heap \o lists \o <<[set |-> MapRep([x \in keys |-> [list |-> at(x)]])]>>
        /\ Return([attrs |-> Len(heap) + Len(xs) + 1])
        /\ UNCHANGED frames

\* A set whose attributes are lists: the lists come first on the heap.
SetOfLists(keys, acc) ==
    LET xs == SetToSeq(keys)
        lists == [i \in DOMAIN xs |-> [items |-> Grouped(acc, xs[i])]]
        at(x) == Len(heap) + (CHOOSE i \in DOMAIN xs : xs[i] = x)
    IN  /\ heap' = heap \o lists \o <<[set |-> MapRep([x \in keys |-> [list |-> at(x)]])]>>
        /\ Return([attrs |-> Len(heap) + Len(xs) + 1])
        /\ UNCHANGED frames

\* The strings with the separator in between.
Separated(acc, separator) ==
    FoldLeft(LAMBDA s, i : Concatenated(Concatenated(s, IF i = 1 THEN [str |-> ""] ELSE separator),
                                        acc[i]),
             [str |-> ""], [i \in DOMAIN acc |-> i])

LoopDone ==
    /\ Active("loop") /\ ret = "go" /\ Activation.got = <<>> /\ Activation.todo = <<>>
    /\ LET acc == Activation.acc
           keys == {pair[1] : pair \in Range(acc)}
           b == ThisLoop
       IN  CASE b \in {"all", "any", "elem"} -> Settle(Value(Bool(b = "all")))
             [] b = "foldl'" -> Settle(Value(acc[1]))
             [] b = "concatStringsSep" -> Settle(Value(Separated(acc, Arg(1))))
             [] b = "partition" -> SetOfLists({"right", "wrong"}, acc)
             [] b = "groupBy" -> SetOfLists(keys, acc)
             [] b \in {"mapAttrs", "listToAttrs"} ->
                    Settle(SetWith([x \in keys |-> Grouped(acc, x)[1]]))
             [] OTHER -> Settle(ListOf(acc))
    /\ Same(withs)

\* mapAttrs leaves out the attributes whose call failed.
LoopFailed ==
    /\ Active("loop") /\ Failed
    /\ IF ThisLoop = "mapAttrs"
       THEN GoOn([Activation EXCEPT !.todo = Tail(@)])
       ELSE ctl' = Front(ctl) /\ UNCHANGED ret
    /\ Same(<<stack, frames, withs, heap>>)

-----------------------------------------------------------------------------
(* sort: the insertion sort of Vec::sort_by for short lists, from the end  *)
(* of the list.  The comparator only says "less" or not.  After an error   *)
(* it is still called, but elements count as equal.                        *)

Sorting(items) ==
    [k |-> "sort", args |-> Activation.args, got |-> <<>>, error |-> "",
     cur |-> <<>>, todo |-> items, passed |-> <<>>, sorted |-> <<>>]

BuiltinSort ==
    /\ Calls("sort")
    /\ IF Has(Arg(2), "list") THEN Become(Sorting(Items(Arg(2)))) /\ UNCHANGED stack
       ELSE Fail("type")
    /\ Same(<<frames, withs, heap>>)

\* The current element has found its place.
Place(a) == [a EXCEPT !.cur = <<>>, !.got = <<>>, !.passed = <<>>,
                      !.sorted = a.passed \o a.cur \o @]

SortStep ==
    /\ Active("sort") /\ ret = "go" /\ Activation.got = <<>>
    /\ LET a == Activation
       IN  IF a.cur = <<>> /\ a.todo = <<>>
           THEN Settle(IF a.error = "" THEN ListOf(a.sorted) ELSE Error(a.error))
           ELSE IF a.cur = <<>>
           THEN /\ GoOn([a EXCEPT !.cur = <<Last(a.todo)>>, !.todo = Front(@)])
                /\ UNCHANGED <<stack, frames, heap>>
           ELSE IF a.sorted = <<>>
           THEN GoOn(Place(a)) /\ UNCHANGED <<stack, frames, heap>>
           ELSE CallWith(a.args[1], <<Head(a.sorted), a.cur[1]>>, a) /\ UNCHANGED <<frames, heap>>
    /\ Same(withs)

SortForce ==
    /\ Active("sort") /\ Activation.got # <<>>
    /\ ForceFirst(Activation.got[1])
    /\ Same(<<stack, frames, withs, heap>>)

SortReturned ==
    /\ Active("sort") /\ ~Failed
    /\ LET a == Activation
       IN  \/ /\ ret = "ok" /\ a.got = <<>>
              /\ GoOn([a EXCEPT !.got = <<Peek>>])
              /\ stack' = Front(stack)
           \/ /\ a.got # <<>> /\ Settled(a.got[1], ctl)
              /\ GoOn(IF ~Has(Deref(a.got[1]), "bool")
                      THEN Place([a EXCEPT !.error = IF @ = "" THEN "type" ELSE @])
                      ELSE IF a.error = "" /\ IsTrue(Deref(a.got[1]))
                      THEN [a EXCEPT !.got = <<>>, !.passed = Append(@, Head(a.sorted)),
                                     !.sorted = Tail(@)]
                      ELSE Place(a))
              /\ UNCHANGED stack
    /\ Same(<<frames, withs, heap>>)

SortFailed ==
    /\ Active("sort") /\ Failed
    /\ GoOn(Place([Activation EXCEPT !.error = IF @ = "" THEN ret ELSE @]))
    /\ Same(<<stack, frames, withs, heap>>)

-----------------------------------------------------------------------------
(* genericClosure: the items reachable from startSet by the operator, each *)
(* key once.  done counts the keys the current one was compared with.      *)

BuiltinGenericClosure ==
    /\ Calls("genericClosure")
    /\ LET set == SetAt(Arg(1))
       IN  IF ~Has(Arg(1), "attrs") THEN Fail("type")
           ELSE IF ~ContainsKey(set, "startSet") THEN Fail("missing")
           ELSE /\ Become([k |-> "closure", set |-> set, got |-> <<Selected(set, "startSet")>>,
                           wait |-> "items", item |-> <<>>, todo |-> <<>>, res |-> <<>>,
                           keys |-> <<>>, done |-> 0])
                /\ UNCHANGED stack
    /\ Same(<<frames, withs, heap>>)

ClosureForce ==
    /\ Active("closure") /\ Activation.got # <<>>
    /\ ForceFirst(Activation.got[1])
    /\ Same(<<stack, frames, withs, heap>>)

\* What was forced is a list of items to work on, or an item with its key.
ClosureForced ==
    /\ Active("closure") /\ ~Failed /\ Activation.got # <<>> /\ Settled(Activation.got[1], ctl)
    /\ LET a == [Activation EXCEPT !.got = <<>>]
           v == Deref(Activation.got[1])
       IN  IF a.wait = "items"
           THEN IF ~Has(v, "list") THEN Fail("type")
                ELSE IF ~ContainsKey(a.set, "operator") THEN Fail("missing")
                ELSE GoOn([a EXCEPT !.todo = @ \o Items(v), !.wait = "next"]) /\ UNCHANGED stack
           ELSE IF ~Has(v, "attrs") THEN Fail("type")
           ELSE IF ~ContainsKey(SetAt(v), "key") THEN Fail("missing")
           ELSE /\ GoOn([a EXCEPT !.keys = Append(@, Selected(SetAt(v), "key")),
                                  !.wait = "compare", !.done = 0])
                /\ UNCHANGED stack
    /\ Same(<<frames, withs, heap>>)

ClosureStep ==
    /\ Active("closure") /\ ret = "go" /\ Activation.got = <<>>
    /\ LET a == Activation
           last == Len(a.keys)
       IN  IF a.wait = "next" /\ a.todo = <<>> THEN Settle(ListOf(a.res))
           ELSE IF a.wait = "next"
           THEN /\ GoOn([a EXCEPT !.item = <<Head(a.todo)>>, !.got = <<Head(a.todo)>>,
                                  !.todo = Tail(@), !.wait = "item"])
                /\ UNCHANGED <<stack, frames, heap>>
           ELSE IF a.done + 1 < last
           THEN /\ stack' = stack \o <<a.keys[a.done + 1], a.keys[last]>>
                /\ Enter([a EXCEPT !.done = @ + 1], EqualityOf(FALSE))
                /\ UNCHANGED <<frames, heap>>
           ELSE /\ CallWith(Selected(a.set, "operator"), a.item,
                            [a EXCEPT !.res = @ \o a.item, !.wait = "call"])
                /\ UNCHANGED <<frames, heap>>
    /\ Same(withs)

ClosureReturned ==
    /\ Active("closure") /\ ret = "ok" /\ Activation.got = <<>>
    /\ LET a == Activation
       IN  GoOn(IF a.wait = "call" THEN [a EXCEPT !.got = <<Peek>>, !.wait = "items"]
                ELSE IF IsTrue(Peek) THEN [a EXCEPT !.keys = Front(@), !.wait = "next"]
                ELSE a)
    /\ stack' = Front(stack)
    /\ Same(<<frames, withs, heap>>)

ClosureFailed == PassOn("closure")
=============================================================================
