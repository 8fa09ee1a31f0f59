---------------------------- MODULE MCConversions ----------------------------
(* Conversions with names of the characters that an id has to escape.      *)
EXTENDS Conversions

MCUnreserved == {".", "0", "x"}
MCChars      == MCUnreserved \cup {"/", "%", "+", " "}
MCFileNames  == {<<"x">>, <<"0">>, <<"%", "0">>, <<"+">>, <<" ">>, <<".", "x">>}

(* Every id of up to four of these tokens.                                 *)
Letters == {Plain("/"), Plain("."), Plain("%"), Plain("+"), Plain("0"), Plain("x"),
            Escaped("/"), Escaped("%")}
MCTexts == {t \in UNION {[1 .. n -> Letters] : n \in 0 .. 4} : IsText(t)}

(* Times about the ends of every field, and of two digits of hours.        *)
MCTimes == UNION {{n - 1, n, n + 5, n + 50} :
                  n \in {1, Second, Minute, Hour, 10 * Hour, 100 * Hour}}
=============================================================================
