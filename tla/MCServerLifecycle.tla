------------------------- MODULE MCServerLifecycle -------------------------
(***************************************************************************)
(* Small instances of ServerLifecycle and ServerMetrics for TLC.           *)
(***************************************************************************)
EXTENDS ServerMetrics, TLC
=============================================================================
