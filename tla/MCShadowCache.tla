---------------------------- MODULE MCShadowCache ---------------------------
(* Instance of ShadowCache: a log to a file and a replay.                  *)
EXTENDS ShadowCache

FileAndReplay == {"FILE", "REPLAY"}
=============================================================================
