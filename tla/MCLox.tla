-------------------------------- MODULE MCLox --------------------------------
(***************************************************************************)
(* The two interpreters of rlox on sources that combine scopes, closures,  *)
(* control flow and errors, compared with what Lox says they mean.         *)
(***************************************************************************)
EXTENDS Lox, LoxLanguage, FiniteSets

\* What a source means to someone at the prompt of that interpreter.
CONSTANT Meaning(_, _)

MCNames == {"a", "b", "c", "f", "g", "clock", "fo", "a_1"}
MCQuoted == {"'s", "'t"}
MCNumberOf == ("0" :> 0) @@ ("1" :> 1) @@ ("2" :> 2) @@ ("3" :> 3) @@ ("7" :> 7) @@ ("2.0" :> 2) @@ ("10" :> 10)
MCSpelling ==
    [x \in {"a", "b", "c", "f", "g", "0", "1", "2", "3", "7"} |-> <<x>>]
    @@ ("clock" :> <<"c", "l", "o", "c", "k">>) @@ ("fo" :> <<"f", "o">>) @@ ("a_1" :> <<"a", "_", "1">>)
    @@ ("2.0" :> <<"2", ".", "0">>) @@ ("10" :> <<"1", "0">>)
    @@ ("'s" :> <<"\"", "s", "\"">>) @@ ("'t" :> <<"\"", "t", " ", "1", "\"">>)

\* Pieces of sources for the tree-walk interpreter.
Bindings == {
    <<"var", "a", "=", "1", ";">>,
    <<"fun", "f", "(", "a", ")", "{", "return", "a", "+", "1", ";", "}",
      "var", "a", "=", "f", "(", "1", ")", ";">>,
    <<>> }

Closures == {
    \* a counter
    <<"fun", "g", "(", ")", "{", "var", "b", "=", "0", ";", "fun", "f", "(", ")", "{",
      "b", "=", "b", "+", "1", ";", "return", "b", ";", "}", "return", "f", ";", "}",
      "var", "f", "=", "g", "(", ")", ";", "f", "(", ")", ";", "print", "f", "(", ")", ";">>,
    \* a name shadowed after the function that uses it
    <<"{", "fun", "g", "(", ")", "{", "print", "a", ";", "}", "g", "(", ")", ";",
      "var", "a", "=", "2", ";", "g", "(", ")", ";", "print", "a", ";", "}">>,
    \* a name shadowed by the caller
    <<"fun", "g", "(", ")", "{", "return", "a", ";", "}", "fun", "f", "(", ")", "{",
      "var", "a", "=", "7", ";", "return", "g", "(", ")", ";", "}", "print", "f", "(", ")", ";">>,
    \* recursion, and a parameter that shadows the function's argument
    <<"fun", "f", "(", "a", ")", "{", "if", "(", "a", "<", "1", ")", "return", "0", ";",
      "return", "a", "+", "f", "(", "a", "-", "1", ")", ";", "}", "print", "f", "(", "2", ")", ";">>,
    \* returning from inside of blocks and a loop
    <<"fun", "g", "(", "b", ")", "{", "while", "(", "true", ")", "{", "{", "if", "(", "b", ">", "1", ")",
      "return", "b", ";", "}", "b", "=", "b", "+", "1", ";", "}", "}", "print", "g", "(", "0", ")", ";">>,
    \* redefining what a function uses, in its scope
    <<"var", "b", "=", "1", ";", "fun", "g", "(", ")", "{", "return", "b", ";", "}",
      "var", "b", "=", "2", ";", "print", "g", "(", ")", "*", "3", ";">> }

Blocks == {
    <<"{", "var", "b", "=", "a", ";", "{", "var", "a", "=", "b", "+", "1", ";", "b", "=", "a", ";", "}",
      "print", "b", ";", "a", "=", "b", ";", "}">>,
    <<"for", "(", "var", "b", "=", "0", ";", "b", "<", "2", ";", "b", "=", "b", "+", "1", ")", "{",
      "print", "b", ";", "var", "c", "=", "b", ";", "c", "=", "c", "*", "2", ";", "}">>,
    <<"for", "(", "a", "=", "0", ";", "a", "<", "3", ";", ")", "{", "a", "=", "a", "+", "2", ";", "}">>,
    <<"if", "(", "a", "<=", "1", "and", "!", "nil", ")", "{", "var", "a", "=", "7", ";", "print", "a", ";", "}",
      "else", "print", "'s", ";">>,
    <<"var", "b", "=", "'s", ";", "b", "=", "b", "+", "'t", ";", "print", "b", "!=", "'s", ";">>,
    <<"var", "c", "=", "clock", "(", ")", ";", "print", "c", ">=", "-", "1", "or", "false", ";">>,
    <<"print", "7", "-", "2", "-", "1", "*", "2", ";", "print", "(", "7", "-", "3", ")", "/", "2", ";">> }

\* Sources that fail, at various depths.
Failures == {
    <<"{", "var", "b", "=", "1", ";", "fun", "g", "(", ")", "{", "{", "print", "b", ";", "c", ";", "}", "}",
      "g", "(", ")", ";", "}">>,
    <<"var", "=", "1", ";", "{", "print", "a", ";", "}">>,
    <<"{", "var", "a", "=", "a", ";", "}">>,
    <<"while", "(", "true", ")", "{", "{", "print", "-", "'s", ";", "}", "}">>,
    <<"fun", "g", "(", "a", ")", "{", "return", "a", ";", "}", "g", "(", ")", ";">>,
    <<"{", "return", "1", ";", "}">>,
    <<"1", "+", "2", "=", "3", ";">>,
    <<"var", "b", ";">>,
    <<"1", "(", ")", ";">>,
    <<"fun", "g", "(", ")", "{", "}", "print", "g", "+", "1", ";">>,
    <<"print", "clock", "(", "1", ")", ";", "}">>,
    <<"(">> }

Uses == { <<"a", ";">>, <<"{", "a", "=", "a", "+", "1", ";", "}", "print", "a", ";">>, <<>> }

TreewalkSources ==
    {b \o p \o u : b \in Bindings, p \in Closures \cup Blocks \cup Failures, u \in Uses}

\* Pieces of sources for the bytecode interpreter, which has neither
\* functions nor loops.
Globals == {
    <<"var", "a", "=", "1", ";">>,
    <<"var", "a", ";", "a", "=", "2", ";">>,
    <<"var", "a", "=", "3", "-", "1", "-", "1", ";", "var", "b", "=", "a", ";">> }

Scopes == {
    <<"{", "var", "b", "=", "2", ";", "{", "var", "c", "=", "b", "+", "a", ";", "print", "c", ";",
      "var", "b", "=", "c", "*", "2", ";", "print", "b", ";", "}", "print", "b", ";", "a", "=", "b", ";", "}">>,
    <<"{", "var", "b", "=", "1", ";", "{", "var", "b", "=", "2", ";", "var", "c", "=", "3", ";", "}",
      "var", "c", "=", "7", ";", "print", "b", ";", "print", "c", ";", "print", "c", "=", "b", ";",
      "print", "c", ";", "}">>,
    <<"if", "(", "a", "<", "2", ")", "{", "var", "b", "=", "3", ";", "print", "b", ";", "}",
      "else", "{", "var", "c", "=", "7", ";", "print", "c", ";", "}", "{", "var", "c", "=", "2", ";", "print", "c", ";", "}">>,
    <<"if", "(", "a", "==", "2", ")", "print", "1", ";", "print", "2", ";">>,
    <<"{", "var", "b", "=", "a", ";", "if", "(", "b", "!=", "1", ")", "if", "(", "b", ">=", "2", ")",
      "print", "b", ";", "else", "print", "'s", ";", "var", "c", "=", "b", ";", "print", "c", ";", "}">>,
    <<"{", "var", "b", "=", "1", ";", "var", "b", "=", "2", ";", "}">>,
    <<"{", "var", "b", "=", "b", ";", "}">>,
    <<"{", "var", "b", "=", "1", ";", "print", "b", ";">>,
    <<"if", "a", ")", "{", "print", "a", ";", "}">>,
    <<"{", "var", "1", "=", "a", ";", "}">>,
    <<"}">>, <<"print", ";">>, <<"class", "a", "{", "}">>, <<"1", "=", "2", ";">>,
    <<"var", "=", "1", ";">>,
    <<"print", "a", "+", "'s", ";">>, <<"print", "-", "nil", ";">>, <<"print", "a", "<", "'s", ";">>,
    <<"print", "c", ";">>, <<"c", "=", "1", ";">>,
    <<"print", "1", "+", "2", "*", "3", "-", "7", ";", "print", "(", "7", "-", "1", ")", "/", "2", ";">>,
    <<"print", "!", "(", "a", ">=", "2", ")", "==", "true", ";", "print", "-", "a", "*", "-", "2", ">", "false", ";">>,
    <<"var", "b", "=", "'s", "+", "'t", ";", "print", "b", ";", "print", "'s", "==", "'s", ";">>,
    <<"print", "nil", "==", "false", ";", "print", "'s", "!=", "'t", ";", "print", "2", "<=", "1", ";">> }

Results == { <<"a", "+", "1", ";">>, <<"'t", ";">>, <<>>, <<"{", "var", "b", "=", "7", ";", "print", "b", ";", "}">> }

\* What the compiler gets wrong, and the comparison leaves out: the
\* assignment to a global leaves no value for the rest of its expression,
\* an expression statement leaves one under the locals that follow, and an
\* assignment is taken for the right operand of what stands before it.
Misread == {
    <<"print", "a", "=", "2", ";">>,
    <<"{", "var", "b", "=", "1", ";", "print", "a", "=", "b", ";", "print", "a", "=", "b", ";", "b", "=", "7", ";", "}">>,
    <<"a", ";", "{", "var", "b", "=", "2", ";", "print", "b", ";", "}">>,
    <<"{", "a", "+", "b", "=", "2", ";", "}">>,
    <<"print", "'s", "+", "'t", "==", "'s", "+", "'t", ";", "var", "b", "=", "'s", ";",
      "print", "b", "+", "b", "!=", "b", ";", "print", "clock", ";">> }

Departures == {g \o s : g \in Globals, s \in Misread}

BytecodeSources ==
    {g \o s \o r : g \in Globals, s \in Scopes, r \in Results} \cup Departures

\* Each source for the tree-walk interpreter is followed by one that looks
\* for what the first defined.

\* How a source is written: lines end behind semicolons, there is a comment
\* behind each opening brace, and words are kept apart.
IsWord(t) == t \in DOMAIN Keywords \cup MCNames \cup DOMAIN MCNumberOf
RECURSIVE Written(_)
Written(t) ==
    IF Len(t) = 0 THEN <<>>
    ELSE LET gap == CASE t[1] = ";" -> <<"\n">>
                      [] t[1] = "{" -> <<" ", "/", "/", "a", "=", "\"", "\n", "\t">>
                      [] Len(t) > 1 /\ IsWord(t[1]) /\ IsWord(t[2]) -> <<" ">>
                      [] OTHER -> <<>>
         IN  CharsOf[t[1]] \o gap \o Written(Tail(t))

\* What is hard to scan: lexemes that begin like others, and what is none.
Lexical == {
    <<"fo", "=", "a_1", "=", "10", "==", "2.0", ";", "print", "fo", ";">>,
    <<"var", "a_1", "=", "10", "/", "2.0", ";", "print", "a_1", "!=", "2", ";">>,
    <<"print", "2.0", ".", "a", ";">>, <<"print", "2", ".", ";">> }
LexicalSources ==
    {Written(<<"var", "a", "=", "1", ";", "var", "fo", "=", "2", ";">> \o t) : t \in Lexical}
    \cup {Written(<<"print", "1", ";">>) \o chars : chars \in
            { <<"\"", "s">>, <<"@", ";">>, <<"1", "@", "2">>, <<"/", "/", "a">>, <<"/", "/">>, <<"/">>,
              <<"1", ".">>, <<"\"", "\n">>, <<"!", "=", "=">>, <<"7", "<", "=", "7", ";">> }}

Typed(which) ==
    LET sessions == IF which = "treewalk"
                    THEN {<<Written(s)>> \o <<Written(<<"print", "a", ";">>)>> : s \in TreewalkSources}
                    ELSE {<<Written(s)>> : s \in BytecodeSources}
    IN  sessions \cup {<<s>> : s \in LexicalSources}

ScanOnce(src) == LET r == Scan(src) IN r
ParseOnce(t) == LET r == Parse(t) IN r
CompileOnce(t) == LET c == Compile(t) IN c

-----------------------------------------------------------------------------
RECURSIVE ReadsName(_, _), OwnInitialiser(_, _), Redeclares(_, _)

\* Does the expression read the variable x?
ReadsName(e, x) ==
    CASE e.node = "Variable" -> e.name = x
      [] e.node = "Grouping" -> ReadsName(e.inner, x)
      [] e.node = "Unary" -> ReadsName(e.right, x)
      [] e.node = "Assign" -> ReadsName(e.value, x)
      [] e.node \in {"Binary", "Logical"} -> ReadsName(e.left, x) \/ ReadsName(e.right, x)
      [] e.node = "Call" -> ReadsName(e.callee, x) \/ \E i \in DOMAIN e.args : ReadsName(e.args[i], x)
      [] OTHER -> FALSE

\* The statements inside of a statement, each with whether it is in a scope
\* of its own.
Inside(s) ==
    CASE s.node \in {"Block", "Function"} -> s.body
      [] s.node = "If" -> <<s.yes>> \o s.no
      [] s.node = "While" -> <<s.body>>
      [] OTHER -> <<>>

\* A variable that is read in its own initialiser, in a scope that counts.
OwnInitialiser(stmts, counts) ==
    \E i \in DOMAIN stmts :
        LET s == stmts[i]
        IN  \/ counts /\ s.node = "Var" /\ s.init # <<>> /\ ReadsName(s.init[1], s.name)
            \/ OwnInitialiser(Inside(s), counts \/ s.node \in {"Block", "Function"})

\* A name declared twice in the same block.
Redeclares(stmts, nested) ==
    \/ nested /\ \E i, j \in DOMAIN stmts :
            /\ i < j
            /\ stmts[i].node = "Var" /\ stmts[j].node = "Var"
            /\ stmts[i].name = stmts[j].name
    \/ \E i \in DOMAIN stmts : Redeclares(Inside(stmts[i]), stmts[i].node = "Block")

\* The tree-walk interpreter lets no variable be read in its own
\* initialiser.  The bytecode interpreter allows that for globals, and
\* forbids to declare a local twice.
Forbidden(which, stmts) ==
    IF which = "treewalk" THEN OwnInitialiser(stmts, TRUE)
    ELSE OwnInitialiser(stmts, FALSE) \/ Redeclares(stmts, FALSE)

RECURSIVE NoInitialiser(_)
NoInitialiser(stmts) ==
    \E i \in DOMAIN stmts :
        \/ stmts[i].node = "Var" /\ stmts[i].init = <<>>
        \/ NoInitialiser(Inside(stmts[i]))

\* Sources the comparison leaves out, besides those above: the tree-walk
\* interpreter does not accept a variable without an initialiser.
Departs(which, src) ==
    LET t == TokensFrom(src, 1)
    IN  IF which = "treewalk" THEN NoInitialiser(Parsed(t).program)
        ELSE \E d \in Departures : t = Append(d, "eof")

\* Does the source end in an expression whose value stays on the stack?
YieldsValue(src) ==
    LET p == Parsed(TokensFrom(src, 1)).program
    IN  p # <<>> /\ p[Len(p)].node = "Expr" /\ p[Len(p)].expr.node # "Assign"

Failing == [fails |-> TRUE, value |-> Nil, out |-> <<>>]

MeaningAtPrompt(which, src) ==
    LET t == TokensFrom(src, 1)
        parsed == Parsed(t)
    IN  IF parsed.tag # "ok" \/ \E i \in DOMAIN t : t[i] = "?" THEN Failing
        ELSE IF Forbidden(which, parsed.program) THEN Failing
        ELSE MeaningOf(parsed.program)

-----------------------------------------------------------------------------
Last == answers[Len(answers)]

\* Functions are compared as such only.
Shown(v) == IF v.type \in {"function", "builtin"} THEN [type |-> "callable", of |-> 0] ELSE v

\* The last answer is the one that the meaning of its source calls for; the
\* values are compared if that says so.
Agrees(which, values) ==
    LET meant == Meaning(which, source)
    IN  (interpreter = which /\ ~reading /\ answers # <<>> /\ ~Departs(which, source)) =>
            /\ (Last.tag # "ok") = meant.fails
            /\ Last.out = meant.out
            /\ (values /\ ~meant.fails) => Shown(Last.value) = Shown(meant.value)

\* The tree-walk interpreter scopes lexically: looking a variable up at the
\* depth the resolver counted, through whatever environments blocks, loops,
\* calls and closures made at run time, finds the variable the source means,
\* and a source prints, yields or fails as it should.
TreewalkIsLox == Agrees("treewalk", TRUE)

\* The compiler knows where the locals are on the stack: a compiled source
\* prints and yields what it means.
BytecodeIsLox == Agrees("bytecode", YieldsValue(source))
=============================================================================
