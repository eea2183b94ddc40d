-------------------------- MODULE MCShadowRecords --------------------------
(* Instances of ShadowRecords for TLC. *)
EXTENDS ShadowRecords

Daemons == {<<"update", TRUE>>}
Gets    == {<<"get", TRUE>>, <<"get", FALSE>>}
=============================================================================
