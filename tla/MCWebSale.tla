----------------------------- MODULE MCWebSale -----------------------------
(***************************************************************************)
(* Two orders and two sales, of wallet prompts that may be left open.      *)
(***************************************************************************)
EXTENDS WebSale
=============================================================================
