-------------------------------- MODULE LoxVM --------------------------------
(***************************************************************************)
(* The virtual machine of the bytecode interpreter of Lox                  *)
(* (src/users/tazjin/rlox/src/bytecode/vm.rs): one action per instruction. *)
(* Every source that is interpreted gets a machine of its own.             *)
(***************************************************************************)
EXTENDS LoxCompiler, TLC

VARIABLES
    chunk,     \* code, constants and interned strings, from the compiler
    ip,        \* position of the next instruction
    stack,     \* values, the top last
    globals,   \* interned name -> value
    lastDrop,  \* the value dropped last, in a sequence; empty if there is none
    printed,   \* the values printed so far
    outcome    \* "running", or how it ended, with the value

vmVars == <<chunk, ip, stack, globals, lastDrop, printed, outcome>>

Running == [tag |-> "running", value |-> Nil]

\* No source has been compiled yet.
VMInit ==
    /\ chunk = [code |-> <<>>, constants |-> <<>>, strings |-> <<>>]
    /\ ip = 1
    /\ stack = <<>>
    /\ globals = [x \in {} |-> Nil]
    /\ lastDrop = <<>>
    /\ printed = <<>>
    /\ outcome = [tag |-> "idle", value |-> Nil]

\* A new machine for the compiled source c, or the failure to compile it.
Interpret(c) ==
    /\ chunk' = [code |-> c.code, constants |-> c.constants, strings |-> c.strings]
    /\ ip' = 1
    /\ stack' = <<>>
    /\ globals' = [x \in {} |-> Nil]
    /\ lastDrop' = <<>>
    /\ printed' = <<>>
    /\ outcome' = IF c.tag = "ok" THEN Running ELSE [tag |-> c.tag, value |-> Nil]

Falsey(v) == v.type = "nil" \/ (v.type = "boolean" /\ ~v.of)

\* The characters of a string, interned or not.
ResolveStr(s) ==
    IF "heap" \in DOMAIN s THEN s.heap ELSE <<chunk.strings[s.interned]>>

\* What leaves the machine holds no reference into it.
Outside(v) == IF v.type = "string" THEN String(ResolveStr(v.of)) ELSE v

Heap(s) == [type |-> "string", of |-> [heap |-> s]]

Op == chunk.code[ip].op
Arg == chunk.code[ip].arg
Peeked == stack[Len(stack)]
Below == stack[Len(stack) - 1]
Popped(n) == SubSeq(stack, 1, Len(stack) - n)

\* Values are compared with their representation: equal strings differ if
\* one is interned and the other is not.
SameValue(a, b) == a.type = b.type /\ a.of = b.of

At(ops) == outcome = Running /\ Op \in ops

Advanced == ip' = ip + 1

\* How many values an instruction takes off the stack, or looks at.
Needed(op) ==
    CASE op \in {"Not", "Negate", "Print", "Pop", "DefineGlobal", "SetGlobal", "JumpIfFalse"} -> 1
      [] op \in {"Equal", "Less", "Greater", "Subtract", "Multiply", "Divide", "Add"} -> 2
      [] op = "GetLocal" -> Arg
      [] op = "SetLocal" -> Arg
      [] OTHER -> 0

Enough == Len(stack) >= Needed(Op)

\* The machine stops without a value: with a panic if the stack runs out.
Halt(tag) ==
    /\ outcome' = [tag |-> tag, value |-> Nil]
    /\ UNCHANGED <<chunk, ip, stack, globals, lastDrop, printed>>

StackEmpty == outcome = Running /\ ~Enough /\ Halt("panic")

\* The instruction replaces the n values on top by one.
Replace(n, v) ==
    /\ Advanced
    /\ stack' = Append(Popped(n), v)
    /\ UNCHANGED <<chunk, globals, lastDrop, printed, outcome>>

PushConstant ==
    /\ At({"Constant", "Nil", "True", "False"})
    /\ Replace(0, CASE Op = "Constant" -> chunk.constants[Arg]
                    [] Op = "Nil" -> Nil
                    [] Op = "True" -> Boolean(TRUE)
                    [] Op = "False" -> Boolean(FALSE))

Not == At({"Not"}) /\ Enough /\ Replace(1, Boolean(Falsey(Peeked)))

Equal == At({"Equal"}) /\ Enough /\ Replace(2, Boolean(SameValue(Below, Peeked)))

AreNumbers(values) == \A v \in values : v.type = "number"

Negate ==
    /\ At({"Negate"})
    /\ Enough
    /\ IF AreNumbers({Peeked}) THEN Replace(1, Number(-Peeked.of)) ELSE Halt("error")

\* The operators that need two numbers.
Arithmetic ==
    /\ At({"Less", "Greater", "Subtract", "Multiply", "Divide"})
    /\ Enough
    /\ IF ~AreNumbers({Below, Peeked}) THEN Halt("error")
       ELSE Replace(2, CASE Op = "Less" -> Boolean(Below.of < Peeked.of)
                         [] Op = "Greater" -> Boolean(Below.of > Peeked.of)
                         [] Op = "Subtract" -> Number(Below.of - Peeked.of)
                         [] Op = "Multiply" -> Number(Below.of * Peeked.of)
                         [] Op = "Divide" -> Number(Below.of \div Peeked.of))

Add ==
    /\ At({"Add"})
    /\ Enough
    /\ CASE AreNumbers({Below, Peeked}) -> Replace(2, Number(Below.of + Peeked.of))
         [] Below.type = "string" /\ Peeked.type = "string" ->
                Replace(2, Heap(ResolveStr(Below.of) \o ResolveStr(Peeked.of)))
         [] OTHER -> Halt("error")

PrintTop ==
    /\ At({"Print"})
    /\ Enough
    /\ Advanced
    /\ printed' = Append(printed, Outside(Peeked))
    /\ stack' = Popped(1)
    /\ UNCHANGED <<chunk, globals, lastDrop, outcome>>

Pop ==
    /\ At({"Pop"})
    /\ Enough
    /\ Advanced
    /\ lastDrop' = <<Peeked>>
    /\ stack' = Popped(1)
    /\ UNCHANGED <<chunk, globals, printed, outcome>>

GlobalName == chunk.constants[Arg].of.interned

DefineGlobal ==
    /\ At({"DefineGlobal"})
    /\ Enough
    /\ Advanced
    /\ globals' = (GlobalName :> Peeked) @@ globals
    /\ stack' = Popped(1)
    /\ UNCHANGED <<chunk, lastDrop, printed, outcome>>

\* An unknown global is a panic.
GetGlobal ==
    /\ At({"GetGlobal"})
    /\ IF GlobalName \in DOMAIN globals THEN Replace(0, globals[GlobalName]) ELSE Halt("panic")

\* Unlike the assignment of a local, that of a global leaves no value.
SetGlobal ==
    /\ At({"SetGlobal"})
    /\ Enough
    /\ IF GlobalName \in DOMAIN globals
       THEN /\ Advanced
            /\ globals' = [globals EXCEPT ![GlobalName] = Peeked]
            /\ stack' = Popped(1)
            /\ UNCHANGED <<chunk, lastDrop, printed, outcome>>
       ELSE Halt("panic")

GetLocal == At({"GetLocal"}) /\ Enough /\ Replace(0, stack[Arg])

SetLocal ==
    /\ At({"SetLocal"})
    /\ Enough
    /\ Advanced
    /\ stack' = [stack EXCEPT ![Arg] = Peeked]
    /\ UNCHANGED <<chunk, globals, lastDrop, printed, outcome>>

Jump ==
    /\ At({"Jump", "JumpIfFalse"})
    /\ Enough
    /\ ip' = ip + 1 + (IF Op = "Jump" \/ Falsey(Peeked) THEN Arg ELSE 0)
    /\ UNCHANGED <<chunk, stack, globals, lastDrop, printed, outcome>>

\* The result is on the stack, or else what was dropped last.
ReturnValue ==
    /\ At({"Return"})
    /\ outcome' = [tag |-> "ok",
                   value |-> Outside(CASE stack # <<>> -> Peeked
                                       [] stack = <<>> /\ lastDrop # <<>> -> lastDrop[1]
                                       [] OTHER -> Nil)]
    /\ UNCHANGED <<chunk, ip, stack, globals, lastDrop, printed>>

Instruction ==
    \/ PushConstant \/ Not \/ Equal \/ Negate \/ Arithmetic \/ Add
    \/ PrintTop \/ Pop
    \/ DefineGlobal \/ GetGlobal \/ SetGlobal \/ GetLocal \/ SetLocal
    \/ Jump \/ ReturnValue \/ StackEmpty
=============================================================================
