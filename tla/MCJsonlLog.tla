----------------------------- MODULE MCJsonlLog -----------------------------
(***************************************************************************)
(* Two records, each put up to three times.                                *)
(***************************************************************************)
EXTENDS JsonlLog
=============================================================================
