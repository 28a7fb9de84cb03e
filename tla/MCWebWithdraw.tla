--------------------------- MODULE MCWebWithdraw ---------------------------
(***************************************************************************)
(* Two withdrawals, of requests and answers that may come late.            *)
(***************************************************************************)
EXTENDS WebWithdraw
=============================================================================
