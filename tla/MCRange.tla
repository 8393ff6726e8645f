------------------------------- MODULE MCRange -------------------------------
\* Instances of AriaRange: bytes of two bits, four digits to a word.
EXTENDS AriaRange

\* All data of up to three bytes, four bytes that begin with a 1 or repeat, and
\* data that the models learn to expect before they are surprised.
MCMessages ==
    UNION {[1..n -> 0..1] : n \in {0, 2, 4, 6}}
    \cup {m \in [1..8 -> 0..1] : m[1] = 0}
    \cup {[i \in 1..n |-> IF i = n THEN b ELSE 0] : n \in {12, 16}, b \in 0..1}
MCRates == <<4, 2, 2>>
\* The logistic curve over eight probabilities.
MCStretch == [p \in 1..7 |-> <<-8, -4, -2, 0, 2, 4, 8>>[p]]
MCSquash == [x \in -8..8 |-> CASE x < -6 -> 1 [] x \in -6..-4 -> 2 [] x \in -3..-2 -> 3
                               [] x \in -1..1 -> 4 [] x \in 2..3 -> 5 [] x \in 4..6 -> 6 [] OTHER -> 7]
=============================================================================
