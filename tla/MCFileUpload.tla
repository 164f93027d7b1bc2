---------------------------- MODULE MCFileUpload ----------------------------
(* Small instances of the upload pipeline.                                 *)
EXTENDS FileUpload

CONSTANT w1

OneWriter == {w1}

Paths5 == (1..5) \X {0}
ThreePerSecond == (1..2) \X (0..2)

Tokens6 == 1..6

Ascending == [r \in 1..MaxRecord |-> r]
(* Record 2 is older than record 1 by more than a day, record 3 is stale.  *)
Older     == [r \in 1..MaxRecord |-> IF r = 1 THEN 20 ELSE IF r = 2 THEN 14 ELSE 4]
OneInstant    == [r \in 1..MaxRecord |-> 1]
AllOutcomes == {"SUCCESS", "FAIL", "INVALID_DATA"}
=============================================================================
