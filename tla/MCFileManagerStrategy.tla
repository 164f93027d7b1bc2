----------------------- MODULE MCFileManagerStrategy -----------------------
(* Small instances of the offline storage.                                 *)
EXTENDS FileManagerStrategy

CONSTANTS w1, w2

Writers   == {w1, w2}
OneWriter == {w1}
WriterSymmetry == Permutations(Writers)
(* One name for each second. *)
Paths5 == (1..5) \X {0}
Paths6 == (1..6) \X {0}
Paths8 == (1..8) \X {0}

(* The order of counts is that of their digits, read from the left.        *)
DigitsOf(n) == [i \in 1..Digits(n) |->
                  (n \div CountDigits^(Digits(n) - i)) % CountDigits]
DigitsBefore(s, t) ==
    \E k \in 0..Min({Len(s), Len(t)}) :
        /\ SubSeq(s, 1, k) = SubSeq(t, 1, k)
        /\ \/ k = Len(s) /\ k < Len(t)
           \/ k < Len(s) /\ k < Len(t) /\ s[k + 1] < t[k + 1]
ASSUME CountOrder ==
    \A m, n \in 0..111 : CountBefore(m, n) <=> DigitsBefore(DigitsOf(m), DigitsOf(n))

Tokens4 == 1..4
Tokens5 == 1..5
Tokens6 == 1..6
=============================================================================
