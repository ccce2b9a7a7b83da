----------------------------- MODULE TvixMachine -----------------------------
(***************************************************************************)
(* The virtual machine of tvix (src/tvix/eval/src/vm.rs): its state and    *)
(* instructions, thunks (value/thunk.rs), closures and calls.              *)
(*                                                                         *)
(* One action per instruction.  The machine calls itself: forcing a thunk  *)
(* runs another frame inside the instruction that forces.  ctl is that     *)
(* stack of Rust activations, the innermost last; ret is what the          *)
(* activation above the last one returned: "go" (nothing, it has not       *)
(* called yet), "ok", or the kind of an error.  A panic empties ctl.       *)
(*                                                                         *)
(* Values are records named by their only field (int, bool, str, null,     *)
(* thunk, closure, builtin, attrs, list, and the internal notFound and     *)
(* deferred).  Everything behind an Rc lives on heap and is named by its   *)
(* address: thunks, the upvalues of closures, lists, attribute sets.       *)
(* Floats and paths are left out; the debug build's assertions on          *)
(* unfinalised closures are kept.                                          *)
(***************************************************************************)
EXTENDS Integers, Sequences, FiniteSets, SequencesExt, TvixAttrs

CONSTANTS Programs,   \* the programs that may be run
          Code(_)     \* a program's lambdas, and the heap they start with

\* A program's heap is a sequence of objects, of whatever kinds.
ASSUME CodeAssumption == \A p \in Programs : Code(p).heap \in Seq(Range(Code(p).heap))

VARIABLES prog,       \* the program being run
          code,       \* its lambdas
          stack,      \* VM.stack
          frames,     \* VM.frames
          withs,      \* VM.with_stack: indices of attribute sets on stack
          heap,       \* what the Rc's point to
          ctl,        \* the Rust activations
          ret,        \* what the last finished activation returned
          result      \* the value of the program

vars == <<prog, code, stack, frames, withs, heap, ctl, ret, result>>

NoUpvalues == [values |-> <<>>, withs |-> <<>>]

Null == [null |-> TRUE]
Bool(b) == [bool |-> b]
NotFound == [notFound |-> TRUE]
Hole == [hole |-> TRUE]

Has(v, kind) == kind \in DOMAIN v
IsThunk(v) == Has(v, "thunk")
IsTrue(v) == v = Bool(TRUE)

Catchable == {"throw", "assert"}

Lambda(id) == code[id]

Frame == Last(frames)
CodeOf(frame) == Lambda(frame.lambda).code
Instr == CodeOf(Frame)[Frame.ip + 1]

Activation == Last(ctl)
Running == ctl # <<>> /\ Activation.k = "run" /\ ret = "go"
Op(name) == Running /\ Instr.op = name

Peek == Last(stack)
Below(n) == SubSeq(stack, 1, Len(stack) - n)
TopN(n) == SubSeq(stack, Len(stack) - n + 1, Len(stack))
SetAt(v) == heap[v.attrs].set
Fields(v) == ToMap(SetAt(v))
Items(v) == heap[v.list].items

EnterFrame(lambda, upvalues, args, height) ==
    [lambda |-> lambda, upvalues |-> upvalues, ip |-> 0, base |-> height - args]

-----------------------------------------------------------------------------
(* How an instruction ends (VM::run).                                      *)

\* A frame that has run to completion is popped and its run returns.
Continue(fs, ip) ==
    IF ip = Len(CodeOf(Last(fs)))
    THEN frames' = Front(fs) /\ ctl' = Front(ctl) /\ ret' = "ok"
    ELSE frames' = [fs EXCEPT ![Len(fs)].ip = ip] /\ ret' = "go" /\ UNCHANGED ctl

Advance(n) == Continue(frames, Frame.ip + n)

\* On an error the frame is popped only if it was its last instruction.
Raise(kind) ==
    /\ frames' = IF Frame.ip + 1 = Len(CodeOf(Frame)) THEN Front(frames)
                 ELSE [frames EXCEPT ![Len(frames)].ip = @ + 1]
    /\ ctl' = Front(ctl)
    /\ ret' = kind

Panic == ctl' = <<>> /\ ret' = "panic" /\ UNCHANGED frames

Step == [frames EXCEPT ![Len(frames)].ip = @ + 1]

\* The innermost activation goes on as a.
GoingOnAs(a) == [ctl EXCEPT ![Len(ctl)] = a]

\* The instruction calls another activation.
Begin(activation) == frames' = Step /\ ctl' = Append(ctl, activation) /\ ret' = "go"

Same(others) == UNCHANGED <<prog, code, result, others>>

Push(v) == stack' = Append(stack, v)

-----------------------------------------------------------------------------
(* Instructions that only touch the stack *)

OpConstant == Op("Constant") /\ Push(Instr.arg) /\ Advance(1) /\ Same(<<withs, heap>>)

OpLiteral ==
    /\ \/ Op("Null") /\ Push(Null)
       \/ Op("True") /\ Push(Bool(TRUE))
       \/ Op("False") /\ Push(Bool(FALSE))
    /\ Advance(1) /\ Same(<<withs, heap>>)

OpPop == Op("Pop") /\ stack' = Front(stack) /\ Advance(1) /\ Same(<<withs, heap>>)

Concatenated(s, t) == [str |-> s.str \o t.str]

\* Integer division rounds towards zero.
Quotient(a, b) == IF (a < 0) # (b < 0) THEN -((IF a < 0 THEN -a ELSE a) \div (IF b < 0 THEN -b ELSE b))
                  ELSE (IF a < 0 THEN -a ELSE a) \div (IF b < 0 THEN -b ELSE b)

ArithmeticOps == {"Add", "Sub", "Mul", "Div"}

Arithmetic(op, a, b) ==
    [int |-> CASE op = "Add" -> a.int + b.int
               [] op = "Sub" -> a.int - b.int
               [] op = "Mul" -> a.int * b.int
               [] op = "Div" -> Quotient(a.int, b.int)]

\* Where one side is a string, + coerces the other and joins them; a zero
\* divisor is noticed before anything is popped.
OpArithmetic ==
    /\ \E op \in ArithmeticOps : Op(op)
    /\ LET a == TopN(2)[1]
           b == Peek
       IN  IF Instr.op = "Div" /\ b = [int |-> 0]
           THEN UNCHANGED stack /\ Raise("division")
           ELSE IF Has(a, "int") /\ Has(b, "int")
           THEN stack' = Append(Below(2), Arithmetic(Instr.op, a, b)) /\ Advance(1)
           ELSE IF Instr.op = "Add" /\ Has(a, "str") /\ Has(b, "str")
           THEN stack' = Append(Below(2), Concatenated(a, b)) /\ Advance(1)
           ELSE IF Instr.op = "Add" /\ (Has(a, "str") \/ Has(b, "str"))
           THEN stack' = Below(2) /\ Begin([k |-> "join", left |-> a, right |-> b])
           ELSE stack' = Below(2) /\ Raise("type")
    /\ Same(<<withs, heap>>)

OpNegate ==
    /\ Op("Negate")
    /\ IF Has(Peek, "int")
       THEN stack' = Append(Front(stack), [int |-> -Peek.int]) /\ Advance(1)
       ELSE stack' = Front(stack) /\ Raise("type")
    /\ Same(<<withs, heap>>)

OpInvert ==
    /\ Op("Invert")
    /\ IF Has(Peek, "bool")
       THEN stack' = Append(Front(stack), Bool(~Peek.bool)) /\ Advance(1)
       ELSE stack' = Front(stack) /\ Raise("type")
    /\ Same(<<withs, heap>>)

OpAssertBool ==
    /\ Op("AssertBool")
    /\ IF Has(Peek, "bool") THEN Advance(1) ELSE Raise("type")
    /\ Same(<<stack, withs, heap>>)

OpAssertFail == Op("AssertFail") /\ Raise("assert") /\ Same(<<stack, withs, heap>>)

OpJump == Op("Jump") /\ Advance(1 + Instr.arg) /\ Same(<<stack, withs, heap>>)

OpJumpIfBool ==
    /\ Op("JumpIfTrue") \/ Op("JumpIfFalse")
    /\ IF Has(Peek, "bool")
       THEN Advance(IF Peek.bool = (Instr.op = "JumpIfTrue") THEN 1 + Instr.arg ELSE 1)
       ELSE Raise("type")
    /\ Same(<<stack, withs, heap>>)

OpJumpIfNotFound ==
    /\ Op("JumpIfNotFound")
    /\ IF Peek = NotFound
       THEN stack' = Front(stack) /\ Advance(1 + Instr.arg)
       ELSE UNCHANGED stack /\ Advance(1)
    /\ Same(<<withs, heap>>)

\* Remove n values below the top one.
OpCloseScope ==
    /\ Op("CloseScope")
    /\ stack' = Append(Below(1 + Instr.arg), Peek)
    /\ Advance(1) /\ Same(<<withs, heap>>)

OpGetLocal ==
    /\ Op("GetLocal")
    /\ LET at == Frame.base + Instr.arg + 1
       IN  IF at \in DOMAIN stack THEN Push(stack[at]) /\ Advance(1)
           ELSE UNCHANGED stack /\ Panic
    /\ Same(<<withs, heap>>)

OpGetUpvalue ==
    /\ Op("GetUpvalue")
    /\ Push(Frame.upvalues.values[Instr.arg])
    /\ Advance(1) /\ Same(<<withs, heap>>)

OpPushWith ==
    /\ Op("PushWith")
    /\ withs' = Append(withs, Frame.base + Instr.arg + 1)
    /\ Advance(1) /\ Same(<<stack, heap>>)

OpPopWith == Op("PopWith") /\ withs' = Front(withs) /\ Advance(1) /\ Same(<<stack, heap>>)

-----------------------------------------------------------------------------
(* Attribute sets and lists *)

OpAttrs ==
    /\ Op("Attrs")
    /\ LET top == TopN(2 * Instr.arg)
           set == Construct([i \in 1..Instr.arg |-> <<top[2 * i - 1], top[2 * i]>>])
       IN  IF Has(set, "err")
           THEN stack' = Below(2 * Instr.arg) /\ Raise(set.err) /\ UNCHANGED heap
           ELSE /\ heap' = Append(heap, [set |-> set])
                /\ stack' = Append(Below(2 * Instr.arg), [attrs |-> Len(heap) + 1])
                /\ Advance(1)
    /\ Same(withs)

\* lhs // rhs: the right-hand side is checked first.
OpAttrsUpdate ==
    /\ Op("AttrsUpdate")
    /\ LET lhs == TopN(2)[1]
       IN  IF ~Has(Peek, "attrs")
           THEN stack' = Below(1) /\ Raise("type") /\ UNCHANGED heap
           ELSE IF ~Has(lhs, "attrs")
           THEN stack' = Below(2) /\ Raise("type") /\ UNCHANGED heap
           ELSE /\ heap' = Append(heap, [set |-> Update(SetAt(lhs), SetAt(Peek))])
                /\ stack' = Append(Below(2), [attrs |-> Len(heap) + 1])
                /\ Advance(1)
    /\ Same(withs)

OpAttrsSelect ==
    /\ Op("AttrsSelect")
    /\ LET set == TopN(2)[1]
       IN  IF ~Has(Peek, "str") THEN stack' = Below(1) /\ Raise("type")
           ELSE IF ~Has(set, "attrs") THEN stack' = Below(2) /\ Raise("type")
           ELSE IF ~ContainsKey(SetAt(set), Peek.str)
           THEN stack' = Below(2) /\ Raise("missing")
           ELSE stack' = Append(Below(2), Selected(SetAt(set), Peek.str)) /\ Advance(1)
    /\ Same(<<withs, heap>>)

\* OpAttrsTrySelect leaves the sentinel, OpHasAttr false, where the value
\* is no set or has no such attribute.
OpAttrsTry ==
    /\ Op("AttrsTrySelect") \/ Op("HasAttr")
    /\ LET set == TopN(2)[1]
           found == Has(set, "attrs") /\ ContainsKey(SetAt(set), Peek.str)
       IN  IF ~Has(Peek, "str") THEN stack' = Below(1) /\ Raise("type")
           ELSE /\ stack' = Append(Below(2),
                        IF Instr.op = "HasAttr" THEN Bool(found)
                        ELSE IF found THEN Selected(SetAt(set), Peek.str) ELSE NotFound)
                /\ Advance(1)
    /\ Same(<<withs, heap>>)

OpValidateClosedFormals ==
    /\ Op("ValidateClosedFormals")
    /\ IF ~Has(Peek, "attrs") THEN Raise("type")
       ELSE IF DOMAIN Fields(Peek) \subseteq DOMAIN Lambda(Frame.lambda).formals
       THEN Advance(1) ELSE Raise("argument")
    /\ Same(<<stack, withs, heap>>)

OpList ==
    /\ Op("List")
    /\ heap' = Append(heap, [items |-> TopN(Instr.arg)])
    /\ stack' = Append(Below(Instr.arg), [list |-> Len(heap) + 1])
    /\ Advance(1) /\ Same(withs)

OpConcat ==
    /\ Op("Concat")
    /\ LET lhs == TopN(2)[1]
       IN  IF ~Has(Peek, "list") THEN stack' = Below(1) /\ Raise("type") /\ UNCHANGED heap
           ELSE IF ~Has(lhs, "list") THEN stack' = Below(2) /\ Raise("type") /\ UNCHANGED heap
           ELSE /\ heap' = Append(heap, [items |-> Items(lhs) \o Items(Peek)])
                /\ stack' = Append(Below(2), [list |-> Len(heap) + 1])
                /\ Advance(1)
    /\ Same(withs)

-----------------------------------------------------------------------------
(* Closures and thunks *)

\* VM::populate_upvalues: the n operands after the instruction, read with
\* the value under construction already on the stack.
Operands(n) == SubSeq(CodeOf(Frame), Frame.ip + 2, Frame.ip + 1 + n)

Populated(n, st) ==
    LET static == SelectSeq(Operands(n), LAMBDA o : o.op # "DataCaptureWith")
        Value(o) == CASE o.op = "DataStackIdx" -> st[Frame.base + o.arg + 1]
                      [] o.op = "DataUpvalueIdx" -> Frame.upvalues.values[o.arg]
                      [] o.op = "DataDeferredLocal" -> [deferred |-> o.arg]
    IN  [values |-> [i \in DOMAIN static |-> Value(static[i])],
         withs |-> IF Len(static) = n THEN <<>>
                   ELSE Frame.upvalues.withs \o [i \in DOMAIN withs |-> stack[withs[i]]]]

\* An operand may name a slot that is not on the stack.
OperandMissing(n, st) ==
    \E o \in Range(Operands(n)) :
        o.op = "DataStackIdx" /\ Frame.base + o.arg + 1 \notin DOMAIN st

OpClosure ==
    /\ Op("Closure")
    /\ LET n == Lambda(Instr.arg).upvalues
       IN  IF OperandMissing(n, stack) THEN Raise("bug") /\ UNCHANGED <<stack, heap>>
           ELSE /\ heap' = Append(heap, [upvalues |-> Populated(n, stack), finalised |-> TRUE])
                /\ Push([closure |-> Instr.arg, upvalues |-> Len(heap) + 1])
                /\ Advance(n + 1)
    /\ Same(withs)

\* The thunk is on the stack before its upvalues are read, so that it can
\* capture itself.  A recursive closure is an evaluated thunk whose
\* upvalues are filled in later.
OpThunk ==
    /\ Op("ThunkSuspended") \/ Op("ThunkClosure")
    /\ LET n == Lambda(Instr.arg).upvalues
           address == Len(heap) + 1
           st == Append(stack, [thunk |-> address])
           object(u) == IF Instr.op = "ThunkSuspended"
                        THEN <<[suspended |-> Instr.arg, upvalues |-> u]>>
                        ELSE <<[value |-> [closure |-> Instr.arg, upvalues |-> address + 1]],
                               [upvalues |-> u, finalised |-> FALSE]>>
       IN  IF OperandMissing(n, st) THEN stack' = st /\ Raise("bug") /\ UNCHANGED heap
           ELSE /\ heap' = heap \o object(Populated(n, st))
                /\ stack' = st
                /\ Advance(n + 1)
    /\ Same(withs)

\* Where the upvalues of an unfinished thunk are: in the thunk itself, or
\* with its closure.
UpvaluesAt(t) == IF Has(heap[t], "suspended") THEN t ELSE heap[t].value.upvalues

Resolved(u) ==
    [u EXCEPT !.values = [i \in DOMAIN @ |->
        IF Has(@[i], "deferred") THEN stack[Frame.base + @[i].deferred + 1] ELSE @[i]]]

\* Thunk::finalise; it panics on a thunk that runs, has run or is finalised.
Finalisable(t) ==
    \/ Has(heap[t], "suspended")
    \/ /\ Has(heap[t], "value") /\ Has(heap[t].value, "closure")
       /\ ~heap[heap[t].value.upvalues].finalised

SlotsPresent(u) ==
    \A v \in Range(u.values) : Has(v, "deferred") => Frame.base + v.deferred + 1 \in DOMAIN stack

OpFinalise ==
    /\ Op("Finalise")
    /\ LET v == stack[Frame.base + Instr.arg + 1]
           at == UpvaluesAt(v.thunk)
       IN  IF Frame.base + Instr.arg + 1 \notin DOMAIN stack \/ Has(v, "closure")
           THEN Panic /\ UNCHANGED heap
           ELSE IF ~IsThunk(v) THEN Advance(1) /\ UNCHANGED heap
           ELSE IF ~Finalisable(v.thunk) THEN Panic /\ UNCHANGED heap
           ELSE IF ~SlotsPresent(heap[at].upvalues) THEN Panic /\ UNCHANGED heap
           ELSE /\ heap' = [heap EXCEPT ![at] =
                        IF at = v.thunk THEN [suspended |-> @.suspended, upvalues |-> Resolved(@.upvalues)]
                        ELSE [upvalues |-> Resolved(@.upvalues), finalised |-> TRUE]]
                /\ Advance(1)
    /\ Same(<<stack, withs>>)

\* A thunk whose value can be read: forced to something that is no thunk
\* and is not a recursive closure still under construction.
Unfinalised(v) == Has(v, "closure") /\ ~heap[v.upvalues].finalised

Forced(v) ==
    IsThunk(v) => /\ Has(heap[v.thunk], "value")
                  /\ ~IsThunk(heap[v.thunk].value)
                  /\ ~Unfinalised(heap[v.thunk].value)

Deref(v) == IF IsThunk(v) THEN heap[v.thunk].value ELSE v

\* Thunk::value lends out the thunk's RefCell.  A loan that lasts while
\* something else runs is an activation below what runs.
Holding(as, v) == IF IsThunk(v) THEN Append(as, [k |-> "borrow", thunk |-> v.thunk]) ELSE as

Borrowed(as) == {a.thunk : a \in {b \in Range(as) : b.k = "borrow"}}

BorrowEnds ==
    /\ ctl # <<>> /\ Activation.k = "borrow"
    /\ ctl' = Front(ctl)
    /\ Same(<<stack, frames, withs, heap, ret>>)

\* Forcing v under the activations as has nothing left to do.
Settled(v, as) == Forced(v) /\ (IsThunk(v) => v.thunk \notin Borrowed(as))

OpForce ==
    /\ Op("Force")
    /\ IF IsThunk(Peek)
       THEN stack' = Front(stack) /\ Begin([k |-> "force", thunk |-> Peek.thunk, push |-> TRUE])
       ELSE UNCHANGED stack /\ Advance(1)
    /\ Same(<<withs, heap>>)

InForce == ctl # <<>> /\ Activation.k = "force"

\* (Mutant: the outer representation goes to the inner thunk.)
TakenOver_Swapped(t) == [heap EXCEPT ![heap[t].value.thunk] = heap[t]]

\* The thunk t, evaluated to another, gets a copy of that one's representation.
TakenOver(t) == [heap EXCEPT ![t] = heap[heap[t].value.thunk]]

\* (Mutant: the thunk stays suspended while its code runs.)
Blackholed_Not(t) == heap

\* The thunk t, whose code starts to run, is a blackhole for as long.
Blackholed(t) == [heap EXCEPT ![t] = Hole]

\* Thunk::force, the loop.  A thunk that evaluated to another thunk takes
\* over that one's representation.  To itself, or while its value is lent
\* out, the RefCell panics, also if there is nothing left to evaluate.
ForceThunk ==
    /\ InForce /\ ret = "go"
    /\ LET t == Activation.thunk
           o == heap[t]
           lent == t \in Borrowed(ctl)
       IN  \/ /\ lent
              /\ Panic /\ UNCHANGED <<stack, heap>>
           \/ /\ ~lent /\ Has(o, "hole")
              /\ ctl' = Front(ctl) /\ ret' = "recursion"
              /\ UNCHANGED <<stack, frames, heap>>
           \/ /\ ~lent /\ Has(o, "suspended")
              /\ heap' = Blackholed(t)
              /\ frames' = Append(frames,
                    EnterFrame(o.suspended, o.upvalues, 0, Len(stack)))
              /\ ctl' = Append(ctl, [k |-> "run"])
              /\ UNCHANGED <<stack, ret>>
           \/ /\ ~lent /\ Has(o, "value") /\ IsThunk(o.value) /\ o.value.thunk # t
              /\ heap' = TakenOver(t)
              /\ UNCHANGED <<stack, frames, ctl, ret>>
           \/ /\ ~lent /\ Has(o, "value")
              /\ o.value = [thunk |-> t] \/ Unfinalised(o.value)
              /\ Panic /\ UNCHANGED <<stack, heap>>
           \/ /\ ~lent /\ Has(o, "value") /\ ~IsThunk(o.value) /\ ~Unfinalised(o.value)
              /\ IF Activation.push THEN Push(o.value) ELSE UNCHANGED stack
              /\ ctl' = Front(ctl) /\ ret' = "ok"
              /\ UNCHANGED <<frames, heap>>
    /\ Same(withs)

\* The frame of the thunk is done; an error leaves the blackhole behind.
ForceReturned ==
    /\ InForce /\ ret # "go"
    /\ IF ret = "ok"
       THEN /\ heap' = [heap EXCEPT ![Activation.thunk] = [value |-> Peek]]
            /\ stack' = Front(stack)
            /\ ret' = "go" /\ UNCHANGED ctl
       ELSE ctl' = Front(ctl) /\ UNCHANGED <<stack, heap, ret>>
    /\ Same(<<frames, withs>>)

\* Another activation needs v forced before it goes on, and keeps what as
\* lends out for as long.
ForceUnder(as, v) ==
    /\ ret \in {"go", "ok"} /\ ~Settled(v, as)
    /\ ctl' = Append(as, [k |-> "force", thunk |-> v.thunk, push |-> FALSE])
    /\ ret' = "go"

ForceFirst(v) == ForceUnder(ctl, v)

-----------------------------------------------------------------------------
(* The run loop after a nested activation returned.                        *)

RunReturned ==
    /\ ctl # <<>> /\ Activation.k = "run" /\ ret = "ok"
    /\ Continue(frames, Frame.ip)
    /\ Same(<<stack, withs, heap>>)

\* The check for the end of the code looks at whatever frame is on top.
RunFailed ==
    /\ ctl # <<>> /\ Activation.k = "run" /\ ret \notin {"go", "ok"}
    /\ frames' = IF Frame.ip = Len(CodeOf(Frame)) THEN Front(frames) ELSE frames
    /\ ctl' = Front(ctl)
    /\ Same(<<stack, withs, heap, ret>>)

-----------------------------------------------------------------------------
(* Calls *)

\* VM::call_value and tail_call_value; fs and as are the frames and
\* activations at the time of the call, st the stack.  A thunk that is
\* called is lent out until the call has ended.
CallOf(v, st, fs, as, tail) ==
    LET callee == Deref(v)
        held == Holding(as, v)
    IN  IF ~Forced(v)
        THEN stack' = st /\ ctl' = <<>> /\ ret' = "panic" /\ frames' = fs
        ELSE IF Has(callee, "closure")
        THEN LET u == heap[callee.upvalues].upvalues
             IN  /\ stack' = st
                 /\ frames' = IF tail
                        THEN [fs EXCEPT ![Len(fs)].lambda = callee.closure,
                                        ![Len(fs)].upvalues = u, ![Len(fs)].ip = 0]
                        ELSE Append(fs, EnterFrame(callee.closure, u, 1, Len(st)))
                 /\ ctl' = IF tail THEN as ELSE Append(held, [k |-> "run"])
                 /\ ret' = "go"
        ELSE IF Has(callee, "builtin")
        THEN /\ stack' = Front(st)
             /\ frames' = fs
             /\ ctl' = Append(held, [k |-> "builtin", b |-> callee.builtin,
                                     args |-> Append(callee.args, Last(st))])
             /\ ret' = "go"
        ELSE IF Has(callee, "attrs") /\ ContainsKey(SetAt(callee), "__functor")
        THEN /\ stack' = Append(st, callee)
             /\ frames' = fs
             /\ ctl' = Append(held, [k |-> "functor", f |-> Selected(SetAt(callee), "__functor"),
                                     tail |-> tail])
             /\ ret' = "go"
        ELSE \* not callable: the call returns the error to its caller
             /\ stack' = st
             /\ frames' = fs
             /\ ctl' = as
             /\ ret' = "call"

OpCall ==
    /\ Op("Call") \/ Op("TailCall")
    /\ CallOf(Peek, Front(stack), Step, ctl, Instr.op = "TailCall")
    /\ Same(<<withs, heap>>)

InFunctor == ctl # <<>> /\ Activation.k = "functor"

\* The set is the first argument of its __functor; what that returns is
\* called with the argument.
CallFunctor ==
    /\ InFunctor
    /\ \/ /\ Has(Activation, "f") /\ ret = "go"
          /\ CallOf(Activation.f, stack, frames,
                    GoingOnAs([k |-> "functor", tail |-> Activation.tail]), FALSE)
       \/ /\ ~Has(Activation, "f") /\ ret = "ok"
          /\ CallOf(Peek, Front(stack), frames, Front(ctl), Activation.tail)
       \/ /\ ret \notin {"go", "ok"}
          /\ ctl' = Front(ctl) /\ UNCHANGED <<stack, frames, ret>>
    /\ Same(<<withs, heap>>)

\* VM::call_with: the arguments are pushed, the last one first; what the
\* first call returns is forced and called with the second, and so on.
CallWith(f, args, waiting) ==
    /\ stack' = stack \o Reverse(args)
    /\ ctl' = Append(GoingOnAs(waiting),
                     [k |-> "calls", next |-> <<f>>, first |-> TRUE,
                      left |-> Len(args)])
    /\ ret' = "go"

InCalls == ctl # <<>> /\ Activation.k = "calls"

CallsReturned ==
    /\ InCalls /\ Activation.next = <<>> /\ ret = "ok"
    /\ IF Activation.left = 0 THEN ctl' = Front(ctl) /\ UNCHANGED <<stack, ret>>
       ELSE /\ ctl' = GoingOnAs([Activation EXCEPT !.next = <<Peek>>, !.first = FALSE])
            /\ stack' = Front(stack) /\ ret' = "go"
    /\ Same(<<frames, withs, heap>>)

CallsForce ==
    /\ InCalls /\ Activation.next # <<>> /\ ~Activation.first
    /\ ForceFirst(Activation.next[1])
    /\ Same(<<stack, frames, withs, heap>>)

CallsCall ==
    /\ InCalls /\ Activation.next # <<>> /\ ret \in {"go", "ok"}
    /\ Activation.first \/ Settled(Activation.next[1], ctl)
    /\ CallOf(Activation.next[1], stack, frames,
              GoingOnAs([Activation EXCEPT !.next = <<>>, !.left = @ - 1]), FALSE)
    /\ Same(<<withs, heap>>)

CallsFailed ==
    /\ InCalls /\ ret \notin {"go", "ok"}
    /\ ctl' = Front(ctl)
    /\ Same(<<stack, frames, withs, heap, ret>>)

-----------------------------------------------------------------------------
(* Dynamic scope *)

OpResolveWith ==
    /\ Op("ResolveWith")
    /\ IF Has(Peek, "str")
       THEN Begin([k |-> "resolve", x |-> Peek.str,
                   left |-> Len(Frame.upvalues.withs) + Len(withs)])
       ELSE Raise("type")
    /\ stack' = Front(stack)
    /\ Same(<<withs, heap>>)

\* The namespaces from the outermost to the innermost: those captured, then
\* the machine's own.
Namespaces == Frame.upvalues.withs \o [i \in DOMAIN withs |-> stack[withs[i]]]

InResolve == ctl # <<>> /\ Activation.k = "resolve"

\* (Mutant: the search stays with the namespace that has no such name.)
NextNamespace_Same == ctl

NextNamespace == GoingOnAs([Activation EXCEPT !.left = @ - 1])

ResolveForce ==
    /\ InResolve /\ Activation.left > 0
    /\ ForceFirst(Namespaces[Activation.left])
    /\ Same(<<stack, frames, withs, heap>>)

ResolveWith ==
    /\ InResolve
    /\ \/ ret \notin {"go", "ok"} /\ ctl' = Front(ctl) /\ UNCHANGED <<stack, ret>>
       \/ /\ ret \in {"go", "ok"} /\ Activation.left = 0
          /\ ctl' = Front(ctl) /\ ret' = "unknown" /\ UNCHANGED stack
       \/ /\ ret \in {"go", "ok"} /\ Activation.left > 0
          /\ LET ns == Deref(Namespaces[Activation.left])
             IN  /\ Settled(Namespaces[Activation.left], ctl)
                 /\ IF ~Has(ns, "attrs")
                    THEN ctl' = Front(ctl) /\ ret' = "type" /\ UNCHANGED stack
                    ELSE IF ContainsKey(SetAt(ns), Activation.x)
                    THEN ctl' = Front(ctl) /\ ret' = "ok" /\ Push(Selected(SetAt(ns), Activation.x))
                    ELSE /\ ctl' = NextNamespace
                         /\ ret' = "go" /\ UNCHANGED stack
    /\ Same(<<frames, withs, heap>>)
==============================================================================
