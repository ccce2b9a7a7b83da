------------------------------ MODULE LoxScanner ------------------------------
(***************************************************************************)
(* The scanner of both interpreters of Lox                                 *)
(* (src/users/tazjin/rlox/src/scanner.rs).  A source is a sequence of      *)
(* characters, and a token is named by its lexeme: those of Lox are        *)
(* written as they are, those of a program's names, numbers and strings    *)
(* are named by Spelling.  The scanner is a record c: the index `at' of    *)
(* the next character, the tokens so far, and whether there was an error.  *)
(***************************************************************************)
EXTENDS Integers, Sequences, TLC

CONSTANT Spelling   \* names, numbers and strings -> their characters

Digits == {"0", "1", "2", "3", "4", "5", "6", "7", "8", "9"}
Letters == {"a", "b", "c", "d", "e", "f", "g", "h", "i", "j", "k", "l", "m", "n",
            "o", "p", "q", "r", "s", "t", "u", "v", "w", "x", "y", "z", "_"}
Spaces == {" ", "\n", "\t"}

Keywords ==
    ("and" :> <<"a", "n", "d">>) @@ ("class" :> <<"c", "l", "a", "s", "s">>)
    @@ ("else" :> <<"e", "l", "s", "e">>) @@ ("false" :> <<"f", "a", "l", "s", "e">>)
    @@ ("for" :> <<"f", "o", "r">>) @@ ("fun" :> <<"f", "u", "n">>) @@ ("if" :> <<"i", "f">>)
    @@ ("nil" :> <<"n", "i", "l">>) @@ ("or" :> <<"o", "r">>) @@ ("print" :> <<"p", "r", "i", "n", "t">>)
    @@ ("return" :> <<"r", "e", "t", "u", "r", "n">>) @@ ("super" :> <<"s", "u", "p", "e", "r">>)
    @@ ("this" :> <<"t", "h", "i", "s">>) @@ ("true" :> <<"t", "r", "u", "e">>)
    @@ ("var" :> <<"v", "a", "r">>) @@ ("while" :> <<"w", "h", "i", "l", "e">>)

Single == {"(", ")", "{", "}", ",", ".", "-", "+", ";", "*"}

\* The characters that make another token if "=" follows.
WithEqual == ("!" :> "!=") @@ ("=" :> "==") @@ ("<" :> "<=") @@ (">" :> ">=")

\* The token of a lexeme: a keyword, or else one of the program's own.
TokenOf(chars) ==
    LET of == IF \E k \in DOMAIN Keywords : Keywords[k] = chars THEN Keywords ELSE Spelling
    IN  CHOOSE k \in DOMAIN of : of[k] = chars

\* A character, or none at the end of the source.
NextChar(src, i) == IF i > Len(src) THEN "end" ELSE src[i]

\* Where the characters from i on that satisfy Go end.
EndOf(src, i, Go(_)) ==
    CHOOSE j \in i..Len(src) + 1 :
        /\ \A k \in i..j - 1 : Go(src[k])
        /\ j = Len(src) + 1 \/ ~Go(src[j])

AddToken(c, end, token) == [c EXCEPT !.at = end, !.tokens = Append(@, token)]
Skip(c, end) == [c EXCEPT !.at = end]
ScanFailed(c, end) == [c EXCEPT !.at = end, !.failed = TRUE]

AddIfNext(src, c) ==
    LET ch == src[c.at]
    IN  IF NextChar(src, c.at + 1) = "=" THEN AddToken(c, c.at + 2, WithEqual[ch])
        ELSE AddToken(c, c.at + 1, ch)

\* A slash, or a comment up to the end of its line.
ScanSlash(src, c) ==
    IF NextChar(src, c.at + 1) = "/" THEN Skip(c, EndOf(src, c.at + 2, LAMBDA ch : ch # "\n"))
    ELSE AddToken(c, c.at + 1, "/")

\* Without a closing quote the rest of the source is an error.
ScanString(src, c) ==
    LET close == EndOf(src, c.at + 1, LAMBDA ch : ch # "\"")
    IN  IF close > Len(src) THEN ScanFailed(c, close)
        ELSE AddToken(c, close + 1, TokenOf(SubSeq(src, c.at, close)))

\* Digits, and more digits behind a dot.
ScanNumber(src, c) ==
    LET whole == EndOf(src, c.at, LAMBDA ch : ch \in Digits)
        end == IF NextChar(src, whole) = "." /\ NextChar(src, whole + 1) \in Digits
               THEN EndOf(src, whole + 1, LAMBDA ch : ch \in Digits)
               ELSE whole
    IN  AddToken(c, end, TokenOf(SubSeq(src, c.at, end - 1)))

ScanIdentifier(src, c) ==
    LET end == EndOf(src, c.at, LAMBDA ch : ch \in Letters \cup Digits)
    IN  AddToken(c, end, TokenOf(SubSeq(src, c.at, end - 1)))

ScanToken(src, c) ==
    LET ch == src[c.at]
    IN  CASE ch \in Single -> AddToken(c, c.at + 1, ch)
          [] ch \in DOMAIN WithEqual -> AddIfNext(src, c)
          [] ch = "/" -> ScanSlash(src, c)
          [] ch \in Spaces -> Skip(c, c.at + 1)
          [] ch = "\"" -> ScanString(src, c)
          [] ch \in Digits -> ScanNumber(src, c)
          [] ch \in Letters -> ScanIdentifier(src, c)
          [] OTHER -> ScanFailed(c, c.at + 1)

\* The scanner goes on after an error, to find the others.
RECURSIVE ScanTokens(_, _)
ScanTokens(src, c) ==
    IF c.at > Len(src) THEN AddToken(c, c.at, "eof") ELSE ScanTokens(src, ScanToken(src, c))

Scan(src) ==
    LET c == ScanTokens(src, [at |-> 1, tokens |-> <<>>, failed |-> FALSE])
    IN  IF c.failed THEN [tag |-> "error"] ELSE [tag |-> "ok", tokens |-> c.tokens]
================================================================================
