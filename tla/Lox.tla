--------------------------------- MODULE Lox ---------------------------------
(***************************************************************************)
(* The rlox program (src/users/tazjin/rlox/src/main.rs): one of its two    *)
(* interpreters reads sources at the prompt, one after the other.  The     *)
(* tree-walk interpreter lives through all of them; the bytecode           *)
(* interpreter starts anew with each.                                      *)
(***************************************************************************)
EXTENDS LoxScanner, LoxTreewalk, LoxVM

CONSTANTS
    Sessions(_),   \* the sources typed at the prompt, for each interpreter
    Scanned(_),    \* Scan, kept apart so that it can be evaluated once
    Parsed(_),     \* Parse, likewise
    Compiled(_)    \* Compile, likewise

VARIABLES
    interpreter,  \* "treewalk" or "bytecode"
    input,        \* the sources still to be read
    reading,      \* is one being interpreted?
    source,       \* the one read last
    m,            \* the tree-walk interpreter
    program,      \* its statements that are still to be run
    value,        \* the value of its last statement
    answers       \* what was answered to each source so far

treeVars == <<m, program, value>>
vars == <<interpreter, input, reading, source, treeVars, answers, vmVars>>

Init ==
    /\ interpreter \in {"treewalk", "bytecode"}
    /\ input \in Sessions(interpreter)
    /\ reading = FALSE
    /\ source = <<>>
    /\ m = Initial
    /\ program = <<>>
    /\ value = Nil
    /\ answers = <<>>
    /\ VMInit

Dead == answers # <<>> /\ answers[Len(answers)].tag = "panic"

Answer(tag, v, out) ==
    /\ answers' = Append(answers, [tag |-> tag, value |-> v, out |-> out])
    /\ reading' = FALSE

\* The next source is taken from the prompt.
Read ==
    /\ ~reading /\ ~Dead /\ input # <<>>
    /\ source' = Head(input)
    /\ input' = Tail(input)

\* Names that are defined in the environment of the interpreter.
KnownGlobals == DOMAIN m.envs[m.env].values

\* The tree-walk interpreter scans, parses and resolves the source, and
\* opens the environment in which it will run; the output is counted from
\* there.
ReadTreewalk ==
    /\ interpreter = "treewalk" /\ Read
    /\ LET scanned == Scanned(Head(input))
           parsed == IF scanned.tag = "ok" THEN Parsed(scanned.tokens) ELSE scanned
           resolved == IF parsed.tag = "ok" THEN Resolve(KnownGlobals, parsed.program)
                       ELSE [tag |-> parsed.tag]
           n == NewEnv(m, m.env)
       IN  IF resolved.tag = "ok"
           THEN /\ m' = [n EXCEPT !.env = Len(n.envs), !.out = <<>>]
                /\ program' = resolved.ast
                /\ value' = Nil
                /\ reading' = TRUE
                /\ UNCHANGED answers
           ELSE /\ Answer(resolved.tag, Nil, <<>>)
                /\ UNCHANGED treeVars
    /\ UNCHANGED <<interpreter, vmVars>>

\* The environment in which the source was read is current again.
Ended(r) == [r.m EXCEPT !.env = r.m.envs[@].enclosing]

\* One statement of the program; the first that fails ends it.  A `return'
\* outside of a function is an error.
RunStatement ==
    /\ interpreter = "treewalk" /\ reading /\ program # <<>>
    /\ LET r == InterpretStmt(m, Head(program))
       IN  IF r.tag = "ok"
           THEN /\ m' = r.m
                /\ value' = r.value
                /\ program' = Tail(program)
                /\ UNCHANGED <<answers, reading>>
           ELSE /\ m' = IF r.tag = "panic" THEN r.m ELSE Ended(r)
                /\ program' = <<>>
                /\ Answer(IF r.tag = "return" THEN "error" ELSE r.tag, Nil, r.m.out)
                /\ UNCHANGED value
    /\ UNCHANGED <<interpreter, input, source, vmVars>>

EndProgram ==
    /\ interpreter = "treewalk" /\ reading /\ program = <<>>
    /\ m' = Ended(Ok(m, value))
    /\ Answer("ok", value, m.out)
    /\ UNCHANGED <<interpreter, input, source, program, value, vmVars>>

\* The bytecode interpreter compiles it.
Uncompiled == [tag |-> "error", code |-> <<>>, constants |-> <<>>, strings |-> <<>>]

ReadBytecode ==
    /\ interpreter = "bytecode" /\ Read
    /\ LET scanned == Scanned(Head(input))
       IN  Interpret(IF scanned.tag = "ok" THEN Compiled(scanned.tokens) ELSE Uncompiled)
    /\ reading' = TRUE
    /\ UNCHANGED <<interpreter, treeVars, answers>>

RunInstruction ==
    /\ interpreter = "bytecode" /\ reading
    /\ Instruction
    /\ UNCHANGED <<interpreter, input, reading, source, treeVars, answers>>

EndBytecode ==
    /\ interpreter = "bytecode" /\ reading /\ outcome # Running
    /\ Answer(outcome.tag, outcome.value, printed)
    /\ UNCHANGED <<interpreter, input, source, treeVars, vmVars>>

Quit ==
    /\ ~reading /\ (input = <<>> \/ Dead)
    /\ UNCHANGED vars

Next ==
    \/ ReadTreewalk \/ RunStatement \/ EndProgram
    \/ ReadBytecode \/ RunInstruction \/ EndBytecode
    \/ Quit

Spec == Init /\ [][Next]_vars

\* Whatever a source did, the next one is interpreted in the environment of
\* the globals, even if the first failed inside of blocks and calls.
EnvironmentRestored ==
    interpreter = "treewalk" /\ ~reading /\ ~Dead => m.env = Initial.env
=============================================================================
