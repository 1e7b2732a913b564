---------------------------- MODULE MCSttSession ----------------------------
(* Small instances of SttSession for TLC.                                  *)
EXTENDS SttSession, TLC
=============================================================================
