----------------------------- MODULE MCMapReduce -----------------------------
(* Instances of MapReduce for TLC: workers w1, w2, w3 of which some accept   *)
(* one or two connections and then end.                                      *)
EXTENDS MapReduce

CONSTANTS w1, w2, w3

Three == {w1, w2, w3}
SomeFail == [w \in Workers |-> IF w = w1 THEN -1 ELSE IF w = w2 THEN 1 ELSE 2]

\* Files without words, of up to six lines of one or two bytes, with a carriage
\* return at the end of none or of one.
Wordless ==
    {[lines |-> [i \in DOMAIN n |-> [words |-> <<>>, bytes |-> n[i]]], bare |-> bare,
      returns |-> r] :
        n \in UNION {[1 .. k -> 1 .. 2] : k \in 1 .. 6}, bare \in BOOLEAN, r \in 0 .. 1}

\* A file whose words come back in several splits.
Line(words) == [words |-> words, bytes |-> 2 * Len(words)]
Text(lines) == [lines |-> [i \in DOMAIN lines |-> Line(lines[i])], bare |-> FALSE, returns |-> 0]
Texts == {Text(<<<<"a", "b", "a">>, <<"b", "c", "a">>, <<"a">>>>)}

HashOf == [w \in {"a", "b", "c"} |-> CASE w = "a" -> 4 [] w = "b" -> 7 [] w = "c" -> 2]

TextFiles == {f \in Wordless : f.bare => f.lines[Len(f.lines)].bytes > 1} \cup Texts
OldSplits == {<<>>, <<<<"c">>, <<"a">>, <<"a">>>>}
=============================================================================
