---------------------------- MODULE AchillesCodegen ----------------------------
(***************************************************************************)
(* Code generation (src/users/grfn/achilles/src/codegen/llvm.rs) and, as   *)
(* far as this program uses it, the LLVM it generates code for.  The       *)
(* generator is a record g: functions, those of the module, each with its  *)
(* basic blocks; env, the operands of the names in scope; stack, the       *)
(* functions being generated; at, the function and the block the builder   *)
(* stands at; counter, for the names of nested functions; regs, the number *)
(* of results so far.                                                      *)
(*                                                                         *)
(* Generating an expression gives no operand (<<>>) or one, each with its  *)
(* LLVM type.                                                              *)
(***************************************************************************)
EXTENDS AchillesTypes

LL(kind) == [ll |-> kind, of |-> <<>>]
I64 == LL("i64")
I1 == LL("i1")
Pointer == LL("ptr")
Void == LL("void")
Operand(op, ll, of) == [op |-> op, ll |-> ll, of |-> of]

\* The LLVM type of a type; () has none (Void) and is left out of tuples.
\* There is none for functions and type variables.
RECURSIVE CodegenType(_)
CodegenType(ty) ==
    CASE ty.t = "int" -> I64 [] ty.t = "bool" -> I1 [] ty.t = "cstring" -> Pointer [] ty.t = "unit" -> Void
      [] ty.t = "tuple" ->
            [ll |-> "struct", of |-> SelectSeq([i \in DOMAIN ty.of |-> CodegenType(ty.of[i])], LAMBDA l : l # Void)]
      [] OTHER -> LL("unsupported")

RECURSIVE Supported(_)
Supported(l) == l.ll # "unsupported" /\ \A i \in DOMAIN l.of : Supported(l.of[i])

CodegenInitial ==
    [functions |-> <<>>, env |-> NewEnv, stack |-> <<>>, at |-> <<0, 0>>, counter |-> 0, regs |-> 0]

Generated(g, operand) == [tag |-> "ok", g |-> g, of |-> operand]
Abort(tag) == [tag |-> tag]

\* The `?' operator; and the unwrapping of an operand that must be there.
Go(r, Do(_, _)) == IF r.tag = "ok" THEN Do(r.g, r.of) ELSE r
Unwrap(r) == IF r.tag = "ok" /\ r.of = <<>> THEN Abort("panic") ELSE r
IntValue(r) == IF r.tag = "ok" /\ r.of[1].ll \notin {I64, I1} THEN Abort("panic") ELSE r

CurFunction(g) == Last(g.stack)
PositionAtEnd(g, block) == [g EXCEPT !.at = <<CurFunction(g), block>>]

\* A block of the function that is being generated.
AppendBasicBlock(g) ==
    [g EXCEPT !.functions[CurFunction(g)].blocks = Append(@, [instrs |-> <<>>, end |-> <<>>])]
Blocks(g) == Len(g.functions[CurFunction(g)].blocks)

\* An instruction at the builder, and its result; the end of a block.
Build(g, op, args, ll) ==
    LET r == g.regs + 1
    IN  Generated([g EXCEPT !.regs = r,
                            !.functions[g.at[1]].blocks[g.at[2]].instrs =
                                Append(@, [dst |-> r, op |-> op, args |-> args])],
                  IF ll = Void THEN <<>> ELSE <<Operand("reg", ll, r)>>)
Branch(g, end) == [g EXCEPT !.functions[g.at[1]].blocks[g.at[2]].end = end]

\* LLVM finds the first function of a name; a later one gets another.
GetFunction(g, name) == {k \in DOMAIN g.functions :
                            /\ g.functions[k].name = name
                            /\ \A j \in 1..k-1 : g.functions[j].name # name}

AddFunction(g, name, params, ret) ==
    [g EXCEPT !.functions = Append(@, [name |-> name, params |-> params, ret |-> ret, blocks |-> <<>>])]

NewFunction(g, name, params, ret) ==
    LET added == AddFunction(g, name, params, ret)
        pushed == AppendBasicBlock([added EXCEPT !.stack = Append(@, Len(added.functions))])
    IN  PositionAtEnd(pushed, 1)

\* A result that is a function cannot be returned.
FinishFunction(g, res) ==
    IF res # <<>> /\ res[1].op = "function" THEN Abort("panic")
    ELSE Generated([Branch(g, [op |-> "ret", args |-> res]) EXCEPT !.stack = Front(@)],
                   <<Operand("function", Pointer, CurFunction(g))>>)

RECURSIVE BindOperand(_, _, _), BindMembers(_, _, _, _)
\* The members of a tuple are extracted by their positions in the pattern.
BindMembers(g, pats, i, operand) ==
    IF i > Len(pats) THEN Generated(g, <<>>)
    ELSE IF i > Len(operand.ll.of) THEN Abort("panic")
    ELSE Go(Build(g, "extract", <<operand, Operand("const", I64, VInt(i))>>, operand.ll.of[i]), LAMBDA h, member :
            Go(BindOperand(h, pats[i], member[1]), LAMBDA k, none : BindMembers(k, pats, i + 1, operand)))

BindOperand(g, pat, operand) ==
    IF pat.pat = "Id" THEN Generated([g EXCEPT !.env = Set(@, pat.name, operand)], <<>>)
    ELSE IF operand.ll.ll # "struct" THEN Abort("panic")
    ELSE BindMembers(g, pat.members, 1, operand)

\* Numbers and booleans alike are constants of 64 bits.
CodegenLiteral(g, v) ==
    CASE v.val = "int" -> Generated(g, <<Operand("const", I64, v)>>)
      [] v.val = "bool" -> Generated(g, <<Operand("const", I64, VInt(IF v.is THEN 1 ELSE 0))>>)
      [] v.val = "string" -> Generated(g, <<Operand("const", Pointer, v)>>)
      [] v.val = "unit" -> Generated(g, <<>>)

\* (Mutant: the difference of the operands in the wrong order.)
Operation_Swapped(g, op, l, r) ==
    CASE op = "+" -> Build(g, "add", <<l, r>>, l.ll)
      [] op \in {"-", "*"} -> Build(g, "sub", <<r, l>>, l.ll)
      [] op = "==" -> Build(g, "eq", <<l, r>>, I1)
      [] OTHER -> Abort("panic")

\* Multiplication is generated as a subtraction.  (Division is, too, never
\* reached: no expression with it has a type.)
Operation(g, op, l, r) ==
    CASE op = "+" -> Build(g, "add", <<l, r>>, l.ll)
      [] op \in {"-", "*"} -> Build(g, "sub", <<l, r>>, l.ll)
      [] op = "==" -> Build(g, "eq", <<l, r>>, I1)
      [] OTHER -> Abort("panic")

RECURSIVE CodegenExpr(_, _), CodegenLet(_, _, _), CodegenAll(_, _, _), CodegenFunction(_, _, _, _)

\* The operands of some expressions, one after the other.
CodegenAll(g, es, done) ==
    IF es = <<>> THEN Generated(g, done)
    ELSE Go(CodegenExpr(g, Head(es)), LAMBDA h, o : CodegenAll(h, Tail(es), Append(done, o)))

\* The scope of a let ends.
Leave(g) == [g EXCEPT !.env = Front(@)]

\* A binding without an operand binds nothing.
CodegenLet(g, bindings, body) ==
    IF bindings = <<>> THEN Go(CodegenExpr(g, body), LAMBDA h, o : Generated(Leave(h), o))
    ELSE Go(CodegenExpr(g, Head(bindings).body), LAMBDA h, o :
            Go(IF o = <<>> THEN Generated(h, <<>>) ELSE BindOperand(h, Head(bindings).pat, o[1]), LAMBDA k, none :
                CodegenLet(k, Tail(bindings), body)))

\* The value of the whole comes from the block of the branch, not from the
\* block in which the branch ended.
CodegenIf(g, e) ==
    LET then == Blocks(g) + 1
        else == Blocks(g) + 2
        join == Blocks(g) + 3
        jump == [op |-> "br", to |-> join]
    IN  Go(IntValue(Unwrap(CodegenExpr(AppendBasicBlock(AppendBasicBlock(AppendBasicBlock(g))), e.condition))), LAMBDA g1, c :
        Go(CodegenExpr(PositionAtEnd(Branch(g1, [op |-> "cond", args |-> c, then |-> then, else |-> else]), then),
                       e.then), LAMBDA g2, yes :
        Go(CodegenExpr(PositionAtEnd(Branch(g2, jump), else), e.else), LAMBDA g3, no :
            LET g4 == PositionAtEnd(Branch(g3, jump), join)
                ll == CodegenType(e.type)
            IN  CASE ~Supported(ll) -> Abort("panic")
                  [] Supported(ll) /\ ll = Void -> Generated(g4, <<>>)
                  [] OTHER ->
                        IF yes = <<>> \/ no = <<>> THEN Abort("panic")
                        ELSE Build(g4, "phi", << [block |-> then, value |-> yes[1]],
                                                 [block |-> else, value |-> no[1]] >>, ll))))

\* Functions of the module come before those in scope.
CodegenCall(g, e) ==
    LET id == e.fun.name
        inModule == GetFunction(g, id)
        inScope == {k \in DOMAIN g.functions : Known(g.env, id) /\ Lookup(g.env, id) = Operand("function", Pointer, k)}
    IN  IF e.fun.node # "Ident" THEN Abort("panic")
        ELSE IF inModule \cup inScope = {} THEN Abort("error")
        ELSE LET k == CHOOSE k \in IF inModule # {} THEN inModule ELSE inScope : TRUE
             IN  Go(CodegenAll(g, e.args, <<>>), LAMBDA h, os :
                    IF \E i \in DOMAIN os : os[i] = <<>> \/ (os[i] # <<>> /\ os[i][1].op = "function") THEN Abort("panic")
                    ELSE Build(h, "call", <<k, [i \in DOMAIN os |-> os[i][1]]>>, h.functions[k].ret))

FreshIdent(prefix, n) == prefix \o ToString(n)

\* A nested function sees nothing of its surroundings; the builder and the
\* environment are put back after it.
CodegenFun(g, e) ==
    LET h == [g EXCEPT !.counter = @ + 1, !.env = NewEnv]
    IN  Go(CodegenFunction(h, FreshIdent("f", h.counter), e.args, e.body), LAMBDA k, function :
            Generated([k EXCEPT !.at = g.at, !.env = g.env], function))

\* A tuple is a constant.
CodegenTuple(g, e) ==
    Go(CodegenAll(g, e.members, <<>>), LAMBDA h, os :
        LET members == Joined(os)
            ll == CodegenType(e.type)
        IN  IF ~Supported(ll) \/ \E i \in DOMAIN members : members[i].op = "function" THEN Abort("panic")
            ELSE Generated(h, <<Operand("struct", ll, members)>>))

CodegenExpr(g, e) ==
    CASE e.node = "Ident" ->
            IF Known(g.env, e.name) THEN Generated(g, <<Lookup(g.env, e.name)>>) ELSE Abort("error")
      [] e.node = "Literal" -> CodegenLiteral(g, e.of)
      [] e.node = "Binary" ->
            Go(IntValue(Unwrap(CodegenExpr(g, e.lhs))), LAMBDA h, l :
                Go(IntValue(Unwrap(CodegenExpr(h, e.rhs))), LAMBDA k, r : Operation(k, e.op, l[1], r[1])))
      [] e.node = "Let" -> CodegenLet([g EXCEPT !.env = Push(@)], e.bindings, e.body)
      [] e.node = "If" -> CodegenIf(g, e)
      [] e.node = "Call" -> CodegenCall(g, e)
      [] e.node = "Fun" -> CodegenFun(g, e)
      [] e.node = "Tuple" -> CodegenTuple(g, e)

\* The parameters are those whose types have an LLVM type, but they are
\* looked up by their positions among all.
CodegenFunction(g, name, args, body) ==
    LET all == [i \in DOMAIN args |-> CodegenType(args[i].type)]
        params == SelectSeq(all, LAMBDA l : l # Void)
        ret == CodegenType(body.type)
        h == NewFunction(g, name, params, ret)
        named == [h EXCEPT !.env = Append(@,
                    [x \in {args[i].name : i \in DOMAIN args} |->
                        LET i == Max({j \in DOMAIN args : args[j].name = x}) IN Operand("param", params[i], i)])]
    IN  IF \E l \in Range(all) \cup {ret} : ~Supported(l) THEN Abort("panic")
        ELSE IF Len(args) > Len(params) THEN Abort("panic")
        ELSE Go(CodegenExpr(named, body), LAMBDA k, res : FinishFunction(Leave(k), res))

CodegenExtern(g, d) ==
    LET params == [i \in DOMAIN d.argTypes |-> CodegenType(d.argTypes[i])]
        ret == CodegenType(d.ret)
    IN  IF \E l \in Range(params) \cup {ret} : ~Supported(l) \/ (l = Void /\ l \in Range(params)) THEN Abort("panic")
        ELSE Generated(AddFunction(g, d.name, params, ret), <<>>)

CodegenDecl(g, d) ==
    IF d.decl = "Extern" THEN CodegenExtern(g, d) ELSE CodegenFunction(g, d.name, d.args, d.body)

(***************************************************************************)
(* What LLVM code does, as far as it is generated here.  Code that LLVM's  *)
(* rules forbid has no meaning (invalid) once it is reached.  A function   *)
(* without blocks is external: its calls are the output of the program,    *)
(* and it returns 0 or nothing.                                            *)
(***************************************************************************)
Returned(v, out) == [tag |-> "ok", value |-> v, out |-> out]
Invalid == [tag |-> "invalid", value |-> VUnit, out |-> <<>>]

RECURSIVE ValueOf(_, _, _), Call(_, _, _, _), Instrs(_, _, _, _, _, _, _)

ValueOf(o, regs, args) ==
    CASE o.op = "const" -> o.of
      [] o.op = "reg" -> regs[o.of]
      [] o.op = "param" -> args[o.of]
      [] o.op = "struct" -> VTuple([i \in DOMAIN o.of |-> ValueOf(o.of[i], regs, args)])

\* Only constants of the right types make a constant struct.
RECURSIVE Valid(_)
Valid(o) == o.op = "struct" => /\ [i \in DOMAIN o.of |-> o.of[i].ll] = o.ll.of
                               /\ \A i \in DOMAIN o.of : o.of[i].op \in {"const", "struct"} /\ Valid(o.of[i])

Instr(g, i, regs, prev, args, out) ==
    LET v(o) == ValueOf(o, regs, args)
    IN  CASE i.op \in {"add", "sub", "eq"} ->
                LET l == v(i.args[1])
                    r == v(i.args[2])
                IN  IF i.args[1].ll # i.args[2].ll THEN Invalid
                    ELSE CASE i.op = "eq" -> Returned(VBool(l = r), out)
                           [] l.val # "int" -> Invalid
                           [] OTHER -> Returned(VInt(IF i.op = "add" THEN l.of + r.of ELSE l.of - r.of), out)
          [] i.op = "extract" ->
                IF Valid(i.args[1]) THEN Returned(v(i.args[1]).members[i.args[2].of.of], out) ELSE Invalid
          [] i.op = "phi" ->
                LET from == {j \in 1..2 : i.args[j].block = prev}
                IN  IF from = {} THEN Invalid ELSE Returned(v(i.args[CHOOSE j \in from : TRUE].value), out)
          [] i.op = "call" ->
                LET given == i.args[2]
                IN  IF [j \in DOMAIN given |-> given[j].ll] # g.functions[i.args[1]].params
                       \/ \E j \in DOMAIN given : ~Valid(given[j]) THEN Invalid
                    ELSE Call(g, i.args[1], [j \in DOMAIN given |-> v(given[j])], out)

Instrs(g, k, b, left, regs, prev, state) ==
    IF left # <<>>
    THEN LET i == Head(left)
             r == Instr(g, i, regs, prev, state.args, state.out)
         IN  IF r.tag # "ok" THEN r
             ELSE Instrs(g, k, b, Tail(left), (i.dst :> r.value) @@ regs, prev, [state EXCEPT !.out = r.out])
    ELSE LET end == g.functions[k].blocks[b].end
             v(o) == ValueOf(o, regs, state.args)
             Jump(to) == Instrs(g, k, to, g.functions[k].blocks[to].instrs, regs, b, state)
         IN  CASE end.op = "br" -> Jump(end.to)
               [] end.op = "cond" ->
                    IF end.args[1].ll # I1 THEN Invalid
                    ELSE Jump(IF v(end.args[1]).is THEN end.then ELSE end.else)
               [] end.op = "ret" ->
                    IF end.args = <<>>
                    THEN IF g.functions[k].ret = Void THEN Returned(VUnit, state.out) ELSE Invalid
                    ELSE IF end.args[1].ll # g.functions[k].ret \/ ~Valid(end.args[1]) THEN Invalid
                         ELSE Returned(v(end.args[1]), state.out)

Call(g, k, args, out) ==
    LET f == g.functions[k]
    IN  IF f.blocks = <<>>
        THEN Returned(IF f.ret = Void THEN VUnit ELSE VInt(0), Append(out, <<f.name, args>>))
        ELSE Instrs(g, k, 1, f.blocks[1].instrs, [r \in {} |-> VUnit], 0, [args |-> args, out |-> out])

\* What the program does: its function main is called.
Executed(g, main) == Call(g, CHOOSE k \in GetFunction(g, main) : TRUE, <<>>, <<>>)
================================================================================
