------------------------ MODULE MCSubaccountDirectory ------------------------
(***************************************************************************)
(* Two accounts of one wallet on a chain of a few blocks.                  *)
(***************************************************************************)
EXTENDS SubaccountDirectory
=============================================================================
