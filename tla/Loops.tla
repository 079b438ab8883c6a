------------------------------- MODULE Loops -------------------------------
(***************************************************************************)
(* Loops over a sequence, as recursive functions: what keeps the elements  *)
(* that are in a set, in their order (Iterator::filter), what adds numbers *)
(* up, and what reads digits as a number; and the loops of a power and of  *)
(* a number that loses its last digits.  SelectSeq, folds and `^` compute  *)
(* the same; these can be reasoned about.                                  *)
(***************************************************************************)
EXTENDS Integers, Sequences

Filter(s, T) ==
    LET kept[i \in 0..Len(s)] ==
            IF i = 0 THEN <<>>
            ELSE IF s[i] \in T THEN Append(kept[i - 1], s[i])
            ELSE kept[i - 1]
    IN  kept[Len(s)]

Total(s) ==
    LET sum[i \in 0..Len(s)] == IF i = 0 THEN 0 ELSE sum[i - 1] + s[i]
    IN  sum[Len(s)]

Positional(s, base) ==
    LET read[i \in 0..Len(s)] ==
            IF i = 0 THEN 0 ELSE read[i - 1] * base + s[i]
    IN  read[Len(s)]

Power(base, n) ==
    LET power[i \in 0..n] == IF i = 0 THEN 1 ELSE power[i - 1] * base
    IN  power[n]

Shorter(number, base, n) ==
    LET left[i \in 0..n] == IF i = 0 THEN number ELSE left[i - 1] \div base
    IN  left[n]
=============================================================================
