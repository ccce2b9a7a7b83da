---------------------------- MODULE TvixCompiler ----------------------------
(***************************************************************************)
(* The tvix compiler (src/tvix/eval/src/compiler/mod.rs, bindings.rs) as a *)
(* function from a Nix expression to the byte code of its lambdas.         *)
(*                                                                         *)
(* The state of the compiler is a record c: ctxs, the stack of lambdas     *)
(* being compiled; lambdas, the finished ones; heap, the thunks and        *)
(* closures that are constants of a chunk and so exist before anything     *)
(* runs; errors.  An instruction is [op, arg]: its constant is kept in     *)
(* arg.  Spans, names of lambdas, warnings and paths are left out.         *)
(***************************************************************************)
EXTENDS TvixScope, SequencesExt

CONSTANTS Globals,     \* name of a global -> the instruction that pushes it
          GlobalHeap   \* what the values of the globals point to

NewContext(scope) ==
    [scope |-> scope, code |-> <<>>, captures |-> FALSE,
     formals |-> [x \in {} |-> FALSE]]

Top(c) == c.ctxs[Len(c.ctxs)]
Scope(c) == Top(c).scope
Here(c) == Len(Top(c).code)

OnScope(c, s) == [c EXCEPT !.ctxs[Len(c.ctxs)].scope = s]

Error(c, kind) == [c EXCEPT !.errors = Append(@, kind)]

PushOp(c, op, arg) ==
    [c EXCEPT !.ctxs[Len(c.ctxs)].code = Append(@, [op |-> op, arg |-> arg])]

Force(c) == PushOp(c, "Force", 0)

EmitConstant(c, v) == PushOp(c, "Constant", v)

EmitName(c, x) == EmitConstant(c, [str |-> x])

\* A jump emitted at idx now leads to the end of the code.
PatchJump(c, idx) ==
    [c EXCEPT !.ctxs[Len(c.ctxs)].code[idx].arg = Here(c) - idx]

DeclarePhantom(c, init) == OnScope(c, Declare(Scope(c), Phantom, init))

\* Declaring a local shadows the global of that name, and must be the
\* first of its name in the scope.
DeclareLocal(c, x) ==
    LET s == IF x \in DOMAIN Globals THEN Poison(Scope(c), x) ELSE Scope(c)
        twice == \E l \in Range(s.locals) : l.name = x /\ l.depth = s.depth
        d == OnScope(c, Declare(s, x, FALSE))
    IN  IF twice THEN Error(d, "VariableAlreadyDefined") ELSE d

\* The local that was declared last.
Latest(c) == Len(Scope(c).locals)

Initialise(c, idx) == OnScope(c, MarkInitialised(Scope(c), idx))

Open(c) == OnScope(c, BeginScope(Scope(c)))

Close(c) == OnScope(c, EndScope(Scope(c)))

CleanupScope(c) ==
    LET pops == PopCount(Scope(c))
    IN  IF pops > 0 THEN PushOp(Close(c), "CloseScope", pops) ELSE Close(c)

-----------------------------------------------------------------------------
(* Upvalues *)

\* Context k closes over that value; an upvalue it already has is reused.
AddUpvalue(c, k, kind) ==
    LET ups == c.ctxs[k].scope.upvalues
        old == {i \in DOMAIN ups : ups[i] = kind}
    IN  IF old # {}
        THEN [c |-> c, idx |-> CHOOSE i \in old : TRUE]
        ELSE [c |-> [c EXCEPT !.ctxs[k].scope.upvalues = Append(@, kind)],
              idx |-> Len(ups) + 1]

\* Find x in the nearest enclosing lambda and pass it inwards, one upvalue
\* per level; idx = 0 when no enclosing lambda knows it.
ResolveUpvalue(c, x) ==
    LET n == Len(c.ctxs)
        known == {k \in 1..(n - 1) : ResolveLocal(c.ctxs[k].scope, x) # 0}
        owner == CHOOSE k \in known : \A j \in known : j <= k
        local == AddUpvalue(c, owner + 1,
                    [local |-> ResolveLocal(c.ctxs[owner].scope, x)])
        Inwards(r, k) == AddUpvalue(r.c, k, [upvalue |-> r.idx])
    IN  IF known = {} THEN [c |-> c, idx |-> 0]
        ELSE FoldLeft(Inwards, local, [i \in 1..(n - owner - 1) |-> owner + 1 + i])

\* Whether some lambda being compiled has a `with'; the lambdas inside it
\* must capture the with-stack.
DynamicContexts(c) == {k \in DOMAIN c.ctxs : HasWith(c.ctxs[k].scope)}

HasDynamicAncestor(c) == DynamicContexts(c) # {}

CaptureWith(c) ==
    [c EXCEPT !.ctxs = [k \in DOMAIN @ |->
        IF \E j \in DynamicContexts(c) : j < k
        THEN [@[k] EXCEPT !.captures = TRUE] ELSE @[k]]]

\* (Mutant: the local is not marked for a finaliser.)
NeedsFinaliser_Never(c, outer) == c

\* The local `outer' holds a thunk or closure with deferred upvalues.
NeedsFinaliser(c, outer) ==
    [c EXCEPT !.ctxs[Len(c.ctxs)].scope.locals[outer].needsFinaliser = TRUE]

\* It captures itself and must be a thunk.
MustThunk(c, outer) == [c EXCEPT !.ctxs[Len(c.ctxs)].scope.locals[outer].mustThunk = TRUE]

\* The operands that tell the machine how to fill the upvalues of the
\* lambda for local `outer'; a local that is not there yet is deferred.
EmitUpvalueData(c, outer, upvalues, captures) ==
    LET Operand(d, u) ==
            IF "upvalue" \in DOMAIN u THEN PushOp(d, "DataUpvalueIdx", u.upvalue)
            ELSE LET at == StackIndex(Scope(d), u.local)
                 IN  IF ~Scope(d).locals[u.local].init
                     THEN PushOp(NeedsFinaliser(d, outer), "DataDeferredLocal", at)
                     ELSE PushOp(IF outer = u.local THEN MustThunk(d, outer) ELSE d,
                                 "DataStackIdx", at)
        static == FoldLeft(Operand, c, upvalues)
    IN  IF captures THEN PushOp(static, "DataCaptureWith", 0) ELSE static

\* A call that ends a chunk reuses its frame.
OptimiseTailCall(code) ==
    IF Last(code).op = "Call" THEN [code EXCEPT ![Len(code)].op = "TailCall"] ELSE code

-----------------------------------------------------------------------------
RECURSIVE Compile(_, _, _)

CompileForced(c, slot, e) == Force(Compile(c, slot, e))

\* An attribute key: a name, or an expression for it.
IsStatic(attr) == attr.e = "Str"

CompileAttr(c, slot, attr) ==
    IF IsStatic(attr) THEN EmitName(c, attr.s) ELSE CompileForced(c, slot, attr)

CompileIdent(c, slot, x) ==
    LET idx == ResolveLocal(Scope(c), x)
        up == ResolveUpvalue(c, x)
    IN  IF x \in DOMAIN Globals /\ ~IsPoisoned(Scope(c), x)
        THEN PushOp(c, Globals[x].op, Globals[x].arg)
        ELSE IF idx # 0 /\ Scope(c).locals[idx].init
        THEN PushOp(c, "GetLocal", StackIndex(Scope(c), idx))
        ELSE IF idx # 0 THEN Compile(c, slot, [e |-> "Upvalue", local |-> idx])
        ELSE IF up.idx # 0 THEN PushOp(up.c, "GetUpvalue", up.idx)
        ELSE IF HasDynamicAncestor(c)
        THEN Compile(CaptureWith(c), slot, [e |-> "Dynamic", x |-> x])
        ELSE Error(c, "UnknownStaticVariable")

BinOps == "+" :> "Add" @@ "-" :> "Sub" @@ "*" :> "Mul" @@ "/" :> "Div"
          @@ "//" :> "AttrsUpdate" @@ "++" :> "Concat"
          @@ "==" :> "Equal" @@ "!=" :> "Equal" @@ "<" :> "Less" @@ "<=" :> "LessOrEq"
          @@ ">" :> "More" @@ ">=" :> "MoreOrEq"

CompileBinop(c, slot, e) ==
    LET lhs == CompileForced(c, slot, e.l)
        jump == PushOp(IF e.op = "->" THEN PushOp(lhs, "Invert", 0) ELSE lhs,
                       IF e.op = "&&" THEN "JumpIfFalse" ELSE "JumpIfTrue", 0)
        rest == CompileForced(PushOp(jump, "Pop", 0), slot, e.r)
        plain == PushOp(CompileForced(lhs, slot, e.r), BinOps[e.op], 0)
    IN  IF e.op \in {"&&", "||", "->"}
        THEN PushOp(PatchJump(rest, Here(jump)), "AssertBool", 0)
        ELSE IF e.op = "!=" THEN PushOp(plain, "Invert", 0) ELSE plain

\* The fragments are pushed in reverse: the machine takes them off the top.
CompileStrParts(c, slot, e) ==
    LET Part(d, part) == IF IsStatic(part) THEN EmitConstant(d, [str |-> part.s])
                         ELSE PushOp(Compile(d, slot, part), "CoerceToString", 0)
        parts == FoldLeft(Part, c, Reverse(e.parts))
    IN  IF Len(e.parts) = 1 THEN parts ELSE PushOp(parts, "Interpolate", Len(e.parts))

CompileList(c, slot, e) ==
    LET Item(d, i) ==
            LET declared == IF i = 1 THEN d ELSE DeclarePhantom(d, FALSE)
                s == IF i = 1 THEN slot ELSE Latest(declared)
            IN  Initialise(Compile(declared, s, e.items[i]), s)
        items == FoldLeft(Item, Open(c), [i \in DOMAIN e.items |-> i])
    IN  Close(PushOp(items, "List", Len(e.items)))

CompileHasAttr(c, slot, e) ==
    LET Step(d, i) ==
            CompileAttr(IF i = 1 THEN d ELSE Force(PushOp(d, "AttrsTrySelect", 0)),
                        slot, e.path[i])
    IN  PushOp(FoldLeft(Step, CompileForced(c, slot, e.set), [i \in DOMAIN e.path |-> i]),
               "HasAttr", 0)

CompileSelect(c, slot, e) ==
    LET Step(d, attr) == PushOp(CompileAttr(Force(d), slot, attr), "AttrsSelect", 0)
    IN  FoldLeft(Step, Compile(c, slot, e.set), e.path)

CompileSelectOr(c, slot, e) ==
    LET Step(r, attr) ==
            LET d == PushOp(PushOp(CompileAttr(Force(r.c), slot, attr),
                                   "AttrsTrySelect", 0), "JumpIfNotFound", 0)
            IN  [c |-> d, jumps |-> Append(r.jumps, Here(d))]
        walk == FoldLeft(Step, [c |-> Compile(c, slot, e.set), jumps |-> <<>>], e.path)
        found == PushOp(walk.c, "Jump", 0)
        missed == FoldLeft(PatchJump, found, walk.jumps)
    IN  PatchJump(Compile(missed, slot, e.default), Here(found))

\* if-then-else; an assertion fails in place of the second branch.
CompileIfElse(c, slot, e) ==
    LET cond == PushOp(CompileForced(c, slot, e.cond), "JumpIfFalse", 0)
        body == PushOp(Compile(PushOp(cond, "Pop", 0), slot, e.body), "Jump", 0)
        other == PushOp(PatchJump(body, Here(cond)), "Pop", 0)
        else == IF e.e = "Assert" THEN PushOp(other, "AssertFail", 0)
                ELSE Compile(other, slot, e.else)
    IN  PatchJump(else, Here(body))

\* (Mutant: the body's namespace is left on the machine's with-stack.)
LeaveWith_Stays(c) == OnScope(c, PopWith(Scope(c)))

LeaveWith(c) == LET d == PushOp(c, "PopWith", 0) IN OnScope(d, PopWith(Scope(d)))

CompileWith(c, slot, e) ==
    LET ns == DeclarePhantom(Compile(Open(c), slot, e.ns), TRUE)
        inside == PushOp(OnScope(ns, PushWith(Scope(ns))),
                         "PushWith", StackIndex(Scope(ns), Latest(ns)))
    IN  CleanupScope(LeaveWith(Compile(inside, slot, e.body)))

CompileApply(c, slot, e) ==
    PushOp(CompileForced(Compile(c, slot, e.arg), slot, e.fn), "Call", 0)

\* { a, b ? default, ... }@name: the set is the first local, its
\* attributes are bound like those of a let.
CompileParamPattern(c, slot, e) ==
    LET set == IF e.bind = Phantom THEN DeclarePhantom(c, TRUE) ELSE DeclareLocal(c, e.bind)
        at == Latest(set)
        checked == LET f == Force(Initialise(set, at))
                   IN  IF e.ellipsis THEN f ELSE PushOp(f, "ValidateClosedFormals", 0)
        declared == FoldLeft(LAMBDA d, f : DeclareLocal(d, f.x), checked, e.formals)
        Bind(d, i) ==
            LET f == e.formals[i]
                got == EmitName(PushOp(d, "GetLocal", StackIndex(Scope(d), at)), f.x)
                miss == PushOp(PushOp(got, "AttrsTrySelect", 0), "JumpIfNotFound", 0)
                over == PushOp(miss, "Jump", 0)
                value == IF f.default = <<>> THEN PushOp(got, "AttrsSelect", 0)
                         ELSE PatchJump(Compile(PatchJump(over, Here(miss)), at + i,
                                                f.default[1]), Here(over))
            IN  Initialise(value, at + i)
        Finalise(d, i) ==
            IF Scope(d).locals[at + i].needsFinaliser
            THEN PushOp(d, "Finalise", StackIndex(Scope(d), at + i)) ELSE d
        each == [i \in DOMAIN e.formals |-> i]
    IN  [FoldLeft(Finalise, FoldLeft(Bind, declared, each), each)
            EXCEPT !.ctxs[Len(c.ctxs)].formals =
                [x \in {f.x : f \in Range(e.formals)} |->
                    \E f \in Range(e.formals) : f.x = x /\ f.default # <<>>]]

-----------------------------------------------------------------------------
(* Bindings of let-expressions and attribute sets: kind is "let", "attrs"  *)
(* or "rec".                                                               *)

KindOf(e) == IF e.rec THEN "rec" ELSE "attrs"

\* `inherit x y' takes the values from the surrounding scope at once; what
\* is inherited from a set is returned for later.
CompilePlainInherits(c, slot, kind, inherits) ==
    LET Name(r, x) ==
            LET useless == kind = "let" /\ LET i == ResolveLocal(Scope(r.c), x)
                                           IN  i # 0 /\ Scope(r.c).locals[i].init
                keyed == IF kind = "let" THEN r.c
                         ELSE DeclarePhantom(EmitName(r.c, x), TRUE)
                value == CompileIdent(keyed, slot, x)
                bound == IF kind = "attrs" THEN DeclarePhantom(value, FALSE)
                         ELSE DeclareLocal(value, x)
            IN  IF useless THEN r
                ELSE [r EXCEPT !.c = Initialise(bound, Latest(bound)), !.count = @ + 1]
        Inherits(r, inh) ==
            IF inh.from # <<>>
            THEN [r EXCEPT !.froms = @ \o [i \in DOMAIN inh.names |->
                                            [ns |-> inh.from[1], x |-> inh.names[i]]],
                           !.count = @ + Len(inh.names)]
            ELSE IF kind # "let" THEN FoldLeft(Name, r, inh.names)
            ELSE IF ~HasDynamicAncestor(r.c) THEN r
            ELSE FoldLeft(Name, [r EXCEPT !.c = CaptureWith(@)], inh.names)
    IN  FoldLeft(Inherits, [c |-> c, count |-> 0, froms |-> <<>>], inherits)

\* Reserve the slots of a binding: a key in attribute sets, and a value
\* that has a name where the scope is recursive and the key is static.
Track(r, kind, attr, b) ==
    LET keyed == IF kind = "let" THEN r.c ELSE DeclarePhantom(r.c, FALSE)
        valued == IF kind = "attrs" \/ ~IsStatic(attr) THEN DeclarePhantom(keyed, FALSE)
                  ELSE DeclareLocal(keyed, attr.s)
    IN  [r EXCEPT !.c = valued,
                  !.bindings = Append(@, [attr |-> attr, b |-> b,
                        key |-> IF kind = "let" THEN 0 ELSE Latest(keyed),
                        value |-> Latest(valued)])]

DeclareNamespacedInherits(r, kind, froms) ==
    FoldLeft(LAMBDA q, f : Track(q, kind, [e |-> "Str", s |-> f.x],
                                 [e |-> "From", ns |-> f.ns, x |-> f.x]), r, froms)

\* Merging { a.b = ..; } or another literal set into an existing binding.
Mergeable(b) == b.e \in {"Set", "Nested"}

Merge(b, path, value) ==
    LET nested == [e |-> "Nested", kind |-> IF b.e = "Set" THEN KindOf(b) ELSE b.kind,
                   inherits |-> b.inherits, entries |-> b.entries]
    IN  IF path # <<>>
        THEN [nested EXCEPT !.entries = Append(@, [path |-> path, value |-> value])]
        ELSE [nested EXCEPT !.inherits = @ \o value.inherits, !.entries = @ \o value.entries]

DeclareBindings(r, kind, entries) ==
    LET Entry(q, en) ==
            LET key == Head(en.path)
                path == Tail(en.path)
                same == {i \in DOMAIN q.bindings :
                            IsStatic(key) /\ q.bindings[i].attr = key}
                at == CHOOSE i \in same : \A j \in same : i <= j
                b == q.bindings[at].b
            IN  IF same # {} /\ (path # <<>> \/ en.value.e = "Set")
                THEN IF Mergeable(b)
                     THEN [q EXCEPT !.bindings[at].b = Merge(b, path, en.value)]
                     ELSE [q EXCEPT !.c = Error(@, IF b.e = "From" THEN "UnmergeableInherit"
                                                   ELSE "UnmergeableValue")]
                ELSE IF kind = "let" /\ ~IsStatic(key)
                THEN [q EXCEPT !.c = Error(@, "DynamicKeyInScope"), !.count = @ + 1]
                ELSE [Track(q, kind, key,
                            IF path = <<>> THEN en.value
                            ELSE [e |-> "Nested", kind |-> "attrs", inherits |-> <<>>,
                                  entries |-> <<[path |-> path, value |-> en.value]>>])
                        EXCEPT !.count = @ + 1]
    IN  FoldLeft(Entry, r, entries)

\* Push key and value of every binding, then resolve what was deferred.
BindValues(c, bindings) ==
    LET Bind(d, t) ==
            LET keyed == IF t.key = 0 THEN d
                         ELSE Initialise(CompileAttr(d, t.key, t.attr), t.key)
                b == IF t.b.e = "Nested" THEN t.b @@ [slot |-> t.value] ELSE t.b
            IN  Initialise(Compile(keyed, t.value, b), t.value)
        Finalise(d, t) ==
            IF Scope(d).locals[t.value].needsFinaliser
            THEN PushOp(d, "Finalise", StackIndex(Scope(d), t.value)) ELSE d
    IN  FoldLeft(Finalise, FoldLeft(Bind, c, bindings), bindings)

CompileBindings(c, slot, kind, node) ==
    LET plain == CompilePlainInherits(Open(c), slot, kind, node.inherits)
        named == DeclareNamespacedInherits(
                    [c |-> plain.c, bindings |-> <<>>, count |-> plain.count],
                    kind, plain.froms)
        all == DeclareBindings(named, kind, node.entries)
        bound == BindValues(all.c, all.bindings)
    IN  IF kind = "let" THEN bound ELSE PushOp(bound, "Attrs", all.count)

CompileAttrSet(c, slot, kind, node) == Close(CompileBindings(Open(c), slot, kind, node))

CompileLetIn(c, slot, e) ==
    CleanupScope(Compile(CompileBindings(c, slot, "let", e), slot, e.body))

\* let { ..; body = ..; } is compiled where it stands, without a thunk.
CompileLegacyLet(c, slot, e) ==
    PushOp(EmitName(CompileAttrSet(c, slot, "rec", e), "body"), "AttrsSelect", 0)

-----------------------------------------------------------------------------
\* What goes into the lambda or thunk of an expression.
Content(c, slot, e) ==
    CASE e.e = "Bin" -> CompileBinop(c, slot, e)
      [] e.e = "Interp" -> CompileStrParts(c, slot, e)
      [] e.e = "List" -> CompileList(c, slot, e)
      [] e.e = "Set" -> CompileAttrSet(c, slot, KindOf(e), e)
      [] e.e = "Nested" -> CompileAttrSet(c, e.slot, e.kind, e)
      [] e.e = "Select" -> CompileSelect(c, slot, e)
      [] e.e = "SelectOr" -> CompileSelectOr(c, slot, e)
      [] e.e \in {"If", "Assert"} -> CompileIfElse(c, slot, e)
      [] e.e = "Let" -> CompileLetIn(c, slot, e)
      [] e.e = "With" -> CompileWith(c, slot, e)
      [] e.e = "Apply" -> CompileApply(c, slot, e)
      [] e.e = "Lambda" ->
            LET d == DeclareLocal(c, e.x)
            IN  Compile(Initialise(d, Latest(d)), slot, e.body)
      [] e.e = "Pattern" -> Compile(CompileParamPattern(c, slot, e), slot, e.body)
      [] e.e = "From" -> PushOp(EmitName(CompileForced(c, slot, e.ns), e.x), "AttrsSelect", 0)
      [] e.e = "Upvalue" ->
            LET up == AddUpvalue(c, Len(c.ctxs), [local |-> e.local])
            IN  PushOp(up.c, "GetUpvalue", up.idx)
      [] e.e = "Dynamic" ->
            PushOp(EmitName([c EXCEPT !.ctxs[Len(c.ctxs)].captures = TRUE], e.x),
                   "ResolveWith", 0)

\* Compile the content in a context of its own and emit what creates the
\* thunk or closure: a constant when it closes over nothing, otherwise an
\* instruction followed by its operands.
CompileLambdaOrThunk(c, outer, isThunk, e) ==
    LET opened == [c EXCEPT !.ctxs = Append(@, NewContext(Inherit(Scope(c))))]
        closed == CleanupScope(Content(Open(DeclarePhantom(opened, FALSE)), 1, e))
        done == Top(closed)
        upvalues == done.scope.upvalues
        lambda == [code |-> OptimiseTailCall(done.code), formals |-> done.formals,
                   upvalues |-> Len(upvalues) + (IF done.captures THEN 1 ELSE 0)]
        parent == [closed EXCEPT !.ctxs = Front(@), !.lambdas = Append(@, lambda)]
        id == Len(parent.lambdas)
        object == IF isThunk THEN [suspended |-> id, upvalues |-> [values |-> <<>>, withs |-> <<>>]]
                  ELSE [upvalues |-> [values |-> <<>>, withs |-> <<>>], finalised |-> TRUE]
        address == Len(parent.heap) + 1
        constant == EmitConstant([parent EXCEPT !.heap = Append(@, object)],
                        IF isThunk THEN [thunk |-> address]
                        ELSE [closure |-> id, upvalues |-> address])
        start == PushOp(parent, IF isThunk THEN "ThunkSuspended" ELSE "ThunkClosure", id)
        data == EmitUpvalueData(start, outer, upvalues, done.captures)
        local == Scope(data).locals[outer]
    IN  IF outer > Len(Scope(c).locals) THEN Error(c, "panic")
        ELSE IF lambda.upvalues = 0 THEN constant
        ELSE IF isThunk \/ local.needsFinaliser THEN data
        ELSE IF local.mustThunk THEN PushOp(data, "Finalise", StackIndex(Scope(data), outer))
        ELSE [data EXCEPT !.ctxs[Len(c.ctxs)].code[Here(start)].op = "Closure"]

Compile(c, slot, e) ==
    CASE e.e = "Int" -> EmitConstant(c, [int |-> e.n])
      [] e.e = "Str" -> EmitConstant(c, [str |-> e.s])
      [] e.e = "Id" -> CompileIdent(c, slot, e.x)
      [] e.e = "Not" -> PushOp(CompileForced(c, slot, e.arg), "Invert", 0)
      [] e.e = "Negate" -> PushOp(CompileForced(c, slot, e.arg), "Negate", 0)
      [] e.e = "HasAttr" -> CompileHasAttr(c, slot, e)
      [] e.e = "LegacyLet" -> CompileLegacyLet(c, slot, e)
      [] OTHER -> CompileLambdaOrThunk(c, slot, e.e \notin {"Lambda", "Pattern"}, e)

\* A whole program: its lambdas, the last of which is the top level, and
\* the constants on the heap.
CompileProgram(e) ==
    LET root == DeclarePhantom([ctxs |-> <<NewContext(EmptyScope)>>, lambdas |-> <<>>,
                                heap |-> GlobalHeap, errors |-> <<>>], FALSE)
        c == Force(Compile(root, 1, e))
    IN  [lambdas |-> Append(c.lambdas, [code |-> Top(c).code, formals |-> Top(c).formals, upvalues |-> 0]),
         heap |-> c.heap, errors |-> c.errors]
=============================================================================
