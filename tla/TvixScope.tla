------------------------------ MODULE TvixScope ------------------------------
(***************************************************************************)
(* The scope bookkeeping of the tvix compiler                              *)
(* (src/tvix/eval/src/compiler/scope.rs): the compiler simulates where     *)
(* every local of a lambda will be on the stack of the virtual machine.    *)
(* A scope is a record; a local is named by its position in scope.locals   *)
(* (LocalIdx, counted from 1 here).  Spans and the `used' flag serve       *)
(* warnings only and are left out.                                         *)
(***************************************************************************)
EXTENDS Naturals, Sequences, FiniteSets, TLC

\* The name of a local nobody can refer to; no identifier is empty.
Phantom == ""

EmptyScope ==
    [locals |-> <<>>, upvalues |-> <<>>, depth |-> 0, withs |-> 0,
     poisoned |-> [x \in {} |-> 0]]

\* A nested lambda starts with no locals; it counts as one `with' deeper.
Inherit(s) ==
    [EmptyScope EXCEPT !.depth = s.depth + 1,
                       !.withs = s.withs + 1,
                       !.poisoned = s.poisoned]

HasWith(s) == s.withs > 0

PushWith(s) == [s EXCEPT !.withs = @ + 1]

PopWith(s) == [s EXCEPT !.withs = @ - 1]

\* Shadowing a global is remembered at the lowest depth that does it.
Poison(s, x) ==
    IF x \in DOMAIN s.poisoned THEN s
    ELSE [s EXCEPT !.poisoned = @ @@ (x :> s.depth)]

IsPoisoned(s, x) == x \in DOMAIN s.poisoned

Declare(s, x, init) ==
    [s EXCEPT !.locals = Append(@,
        [name |-> x, depth |-> s.depth, init |-> init,
         needsFinaliser |-> FALSE, mustThunk |-> FALSE])]

MarkInitialised(s, idx) == [s EXCEPT !.locals[idx].init = TRUE]

\* The innermost local of that name, 0 when there is none.
ResolveLocal(s, x) ==
    LET found == {i \in DOMAIN s.locals : s.locals[i].name = x}
    IN  IF found = {} THEN 0
        ELSE CHOOSE i \in found : \A j \in found : j <= i

\* (Mutant: every declared local counts as a slot.)
StackIndex_AllLocals(s, idx) == idx - 1

\* Where a local will be relative to the frame's base: locals of outer
\* scopes that are not on the stack yet take no slot.
StackIndex(s, idx) ==
    (idx - 1) - Cardinality({i \in 1..(idx - 1) :
                    ~s.locals[i].init /\ s.locals[i].depth < s.locals[idx].depth})

BeginScope(s) == [s EXCEPT !.depth = @ + 1]

\* The locals that survive the end of the current scope: those before the
\* trailing run of locals of the current depth.
Kept(s) ==
    LET outer == {i \in DOMAIN s.locals : s.locals[i].depth # s.depth}
    IN  IF outer = {} THEN 0
        ELSE CHOOSE i \in outer : \A j \in outer : j <= i

EndScope(s) ==
    [s EXCEPT !.locals = SubSeq(@, 1, Kept(s)),
              !.depth = @ - 1,
              !.poisoned = [x \in {y \in DOMAIN @ : @[y] # s.depth} |-> @[x]]]

\* How many values the ended scope leaves on the stack.
PopCount(s) ==
    Cardinality({i \in (Kept(s) + 1)..Len(s.locals) : s.locals[i].init})
=============================================================================
