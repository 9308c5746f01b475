---------------------------- MODULE MCSharedCell ----------------------------
(* Small instances of SharedCell: three contexts, two offered payloads. *)
EXTENDS SharedCell, TLC

CONSTANTS c1, c2, c3, v1, v2

MCContexts == {c1, c2, c3}
MCValues == {v1, v2}
=============================================================================
