-------------------------- MODULE MCPassThruThing --------------------------
(* Instances of PassThruThing for TLC. *)
EXTENDS PassThruThing, TLC

CONSTANTS s1, s2

TwoSlots == {s1, s2}
=============================================================================
