------------------------- MODULE MCAuctionLiveness -------------------------
(***************************************************************************)
(* Two auctions with one quote each, from makers and takers that share no  *)
(* account: what they share is the executor.                               *)
(***************************************************************************)
EXTENDS AuctionEngine

CONSTANTS r1, r2, a1, b2, alice, bob, taker1, taker2, aliceSub, bobSub

MCRfqs == {r1, r2}
MCQuotes == {a1, b2}
MCAccounts == {taker1, taker2, aliceSub, bobSub}
MCRfqOf == a1 :> r1 @@ b2 :> r2
MCMakerOf == a1 :> alice @@ b2 :> bob
MCAccountOf == a1 :> aliceSub @@ b2 :> bobSub
MCPremium == [q \in MCQuotes |-> 1]
MCCost == [q \in MCQuotes |-> 1]
MCTakerAccount == r1 :> taker1 @@ r2 :> taker2
MCInitialCash == [a \in MCAccounts |-> 1]
=============================================================================
