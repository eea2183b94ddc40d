--------------------------- MODULE MCJ2534Session ---------------------------
(* Instances of J2534Session for TLC. *)
EXTENDS J2534Session, TLC

CONSTANTS t1, t2, d1, d2

OneTester  == {t1}
TwoTesters == {t1, t2}
OneDevice  == {d1}
TwoDevices == {d1, d2}
=============================================================================
