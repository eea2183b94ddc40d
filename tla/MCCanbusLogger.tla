--------------------------- MODULE MCCanbusLogger ---------------------------
(* Instances of CanbusLogger for TLC. *)
EXTENDS CanbusLogger

CONSTANTS l1, l2

TwoLoggers  == {l1, l2}
AllRequests == RequestTypes
=============================================================================
