-------------------------- MODULE MCMakerSessions --------------------------
(***************************************************************************)
(* One auction, one bot, and one reconnection.                             *)
(***************************************************************************)
EXTENDS MakerSessions
=============================================================================
