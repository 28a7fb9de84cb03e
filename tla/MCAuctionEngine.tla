-------------------------- MODULE MCAuctionEngine --------------------------
(***************************************************************************)
(* Two auctions and two makers.  Alice has cash for one of her quotes a1   *)
(* (on r1) and a2 (on r2), or for the better a1b that replaces a1; Bob's   *)
(* b1 ties with a1.                                                        *)
(***************************************************************************)
EXTENDS AuctionEngine

CONSTANTS r1, r2, a1, a1b, b1, a2, alice, bob, taker1, taker2, aliceSub, bobSub

MCRfqs == {r1, r2}
MCQuotes == {b1, a1, a1b, a2}
MCAccounts == {taker1, taker2, aliceSub, bobSub}
MCRfqOf == b1 :> r1 @@ a1 :> r1 @@ a1b :> r1 @@ a2 :> r2
MCMakerOf == b1 :> bob @@ a1 :> alice @@ a1b :> alice @@ a2 :> alice
MCAccountOf == b1 :> bobSub @@ a1 :> aliceSub @@ a1b :> aliceSub @@ a2 :> aliceSub
MCPremium == b1 :> 1 @@ a1 :> 1 @@ a1b :> 2 @@ a2 :> 1
MCCost == b1 :> 1 @@ a1 :> 1 @@ a1b :> 2 @@ a2 :> 1
MCTakerAccount == r1 :> taker1 @@ r2 :> taker2
MCInitialCash == taker1 :> 0 @@ taker2 :> 0 @@ aliceSub :> 2 @@ bobSub :> 1
=============================================================================
