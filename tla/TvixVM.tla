------------------------------- MODULE TvixVM -------------------------------
(***************************************************************************)
(* The run of a compiled program on the machine of tvix (run_lambda in     *)
(* src/tvix/eval/src/vm.rs), and what must be true of it.                  *)
(***************************************************************************)
EXTENDS TvixBuiltins

\* The code is run first, then its value is forced to the bottom.
Init ==
    /\ prog \in Programs
    /\ stack = <<>> /\ withs = <<>>
    /\ LET compiled == Code(prog)
       IN  code = compiled.lambdas /\ heap = compiled.heap
    /\ frames = <<EnterFrame(Len(code), NoUpvalues, 0, 0)>>
    /\ ctl = <<[k |-> "main", deep |-> FALSE], [k |-> "run"]>>
    /\ ret = "go"
    /\ result = Null

MainReturned ==
    /\ Active("main") /\ ret # "go"
    /\ IF ret = "ok" /\ ~Activation.deep
       THEN /\ result' = Peek
            /\ stack' = Front(stack)
            /\ ctl' = <<[k |-> "main", deep |-> TRUE], DeepForcing(Peek, <<>>)>>
            /\ ret' = "go"
       ELSE /\ ctl' = <<>>
            /\ ret' = IF ret = "ok" THEN "done" ELSE ret
            /\ UNCHANGED <<stack, result>>
    /\ UNCHANGED <<prog, code, frames, withs, heap>>

\* The interpreter has finished.
Finished == ctl = <<>> /\ UNCHANGED vars

-----------------------------------------------------------------------------
Instruction ==
    \/ OpConstant \/ OpLiteral \/ OpPop \/ OpArithmetic \/ OpNegate \/ OpInvert
    \/ OpAssertBool \/ OpAssertFail \/ OpJump \/ OpJumpIfBool \/ OpJumpIfNotFound
    \/ OpCloseScope \/ OpGetLocal \/ OpGetUpvalue \/ OpPushWith \/ OpPopWith
    \/ OpAttrs \/ OpAttrsUpdate \/ OpAttrsSelect \/ OpAttrsTry
    \/ OpValidateClosedFormals \/ OpList \/ OpConcat \/ OpClosure \/ OpThunk
    \/ OpFinalise \/ OpForce \/ OpCall \/ OpResolveWith \/ OpEqual \/ OpCompare
    \/ OpCoerceToString \/ OpInterpolate

Nested ==
    \/ ForceThunk \/ ForceReturned \/ BorrowEnds \/ RunReturned \/ RunFailed
    \/ CallFunctor \/ CallsReturned \/ CallsForce \/ CallsCall \/ CallsFailed
    \/ ResolveForce \/ ResolveWith
    \/ EqNextPair \/ EqForce \/ EqFailed \/ EqCompare
    \/ CmpStep \/ CmpEqual \/ CmpForce \/ CmpFailed
    \/ CoerceForce \/ CoerceValueOf \/ CoerceStep \/ CoerceCall \/ CoerceResult
    \/ CoerceElement \/ CoerceFailed
    \/ JoinStep \/ JoinFailed
    \/ DeepForce \/ DeepStep \/ DeepFailed

BuiltinStep ==
    \/ BuiltinPartial \/ BuiltinForce \/ BuiltinFailed
    \/ BuiltinPlain \/ BuiltinTryEval \/ BuiltinLessThan \/ BuiltinToString
    \/ BuiltinStringLength \/ BuiltinDeepSeq \/ BuiltinLoop \/ BuiltinSort
    \/ BuiltinGenericClosure
    \/ LoopNext \/ LoopReturned \/ LoopForce \/ LoopCollect \/ LoopDone \/ LoopFailed
    \/ SortStep \/ SortForce \/ SortReturned \/ SortFailed
    \/ ClosureForce \/ ClosureForced \/ ClosureStep \/ ClosureReturned \/ ClosureFailed

Next == Instruction \/ Nested \/ BuiltinStep \/ MainReturned \/ Finished

Spec == Init /\ [][Next]_vars /\ WF_vars(Next)

-----------------------------------------------------------------------------
(***************************************************************************)
(* A frame that runs to completion leaves one value, in the place of its   *)
(* arguments and locals, everything below it untouched, and no `with' of   *)
(* its own, although the compiler only simulated where the values would    *)
(* be (Scope::stack_index, end_scope, CloseScope, PopWith).                *)
(***************************************************************************)
FramesBalance ==
    [][(ret' = "ok" /\ Len(frames') < Len(frames)) =>
        /\ Len(stack') = Frame.base + 1
        /\ SubSeq(stack', 1, Frame.base) = SubSeq(stack, 1, Frame.base)
        /\ \A w \in Range(withs') : w <= Frame.base]_vars

(***************************************************************************)
(* No running lambda sees a deferred upvalue: each one is resolved by the  *)
(* OpFinalise of its closure or thunk, before that can be called or forced *)
(* (needs_finaliser, Thunk::finalise).                                     *)
(***************************************************************************)
UpvaluesFinalised ==
    \A f \in Range(frames) : \A v \in Range(f.upvalues.values) : ~Has(v, "deferred")

-----------------------------------------------------------------------------
\* What an object behind an Rc is, told by its fields: a thunk (ThunkRepr),
\* the upvalues of a closure, an attribute set or a list.
ThunkKinds == {{"suspended", "upvalues"}, {"value"}, {"hole"}}
Kinds == ThunkKinds \cup {{"upvalues", "finalised"}, {"set"}, {"items"}}

IsAt(address, kinds) == address \in DOMAIN heap /\ DOMAIN heap[address] \in kinds

RefersToItsKind(v) ==
    /\ IsThunk(v) => IsAt(v.thunk, ThunkKinds)
    /\ Has(v, "closure") => IsAt(v.upvalues, {{"upvalues", "finalised"}})
    /\ Has(v, "attrs") => IsAt(v.attrs, {{"set"}})
    /\ Has(v, "list") => IsAt(v.list, {{"items"}})

\* The values an object holds.
Held(o) ==
    CASE Has(o, "value") -> {o.value}
      [] Has(o, "upvalues") -> Range(o.upvalues.values) \cup Range(o.upvalues.withs)
      [] Has(o, "set") -> {ToMap(o.set)[x] : x \in DOMAIN ToMap(o.set)}
      [] Has(o, "items") -> Range(o.items)
      [] Has(o, "hole") -> {}

(***************************************************************************)
(* What Rust's types say of every Rc: a value on the stack, in a frame or  *)
(* in an object refers to an object of its kind, and what is forced is a   *)
(* thunk, whatever was built, finalised or taken over in the meantime.     *)
(***************************************************************************)
TypeOK ==
    /\ \A o \in Range(heap) : DOMAIN o \in Kinds /\ \A v \in Held(o) : RefersToItsKind(v)
    /\ \A v \in Range(stack) : RefersToItsKind(v)
    /\ \A f \in Range(frames) : \A v \in Held(f) : RefersToItsKind(v)
    /\ \A a \in Range(ctl) :
          /\ a.k = "force" => IsAt(a.thunk, ThunkKinds)
          /\ a.k = "loop" => a.acc \in Seq(Range(a.acc))

\* The i-th activation is that of a Thunk::force whose thunk is running.
Evaluating(i) == ctl[i].k = "force" /\ (i < Len(ctl) \/ ret # "go")

(***************************************************************************)
(* A thunk is a blackhole for as long as it is being evaluated, also while *)
(* an error is on its way out, so that no two activations ever evaluate    *)
(* the same thunk (ThunkRepr::Blackhole, the two borrows of Thunk::force). *)
(***************************************************************************)
EvaluatedOnce ==
    \A i \in DOMAIN ctl : Evaluating(i) =>
        /\ heap[ctl[i].thunk] = Hole
        /\ \A j \in DOMAIN ctl : Evaluating(j) /\ ctl[j].thunk = ctl[i].thunk => j = i

(***************************************************************************)
(* A thunk keeps the value it was evaluated to, whoever forces it again    *)
(* and whichever thunk takes over its representation (Thunk::force).       *)
(***************************************************************************)
EvaluatedStays ==
    [][\A t \in DOMAIN heap :
        (Has(heap[t], "value") /\ ~IsThunk(heap[t].value)) => heap'[t] = heap[t]]_vars

(***************************************************************************)
(* The machine always comes to an end: also a thunk that needs itself      *)
(* fails instead of evaluating for ever (ThunkRepr::Blackhole).            *)
(***************************************************************************)
Terminates == <>(ctl = <<>>)
=============================================================================
