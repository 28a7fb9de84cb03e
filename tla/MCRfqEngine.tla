---------------------------- MODULE MCRfqEngine ----------------------------
(***************************************************************************)
(* One auction and one withdrawal that compete for the cash of Alice's     *)
(* subaccount and for the executor: it holds two units, her quotes a1 and  *)
(* a1b cost one and two, the withdrawal takes one.  The withdrawal's nonce *)
(* may be used by a stranger.                                              *)
(***************************************************************************)
EXTENDS RfqEngine

CONSTANTS r1, a1, a1b, w1, c1, alice, takerSub, aliceSub

MCRfqOf == a1 :> r1 @@ a1b :> r1
MCMakerOf == a1 :> alice @@ a1b :> alice
MCAccountOf == a1 :> aliceSub @@ a1b :> aliceSub
MCPremium == a1 :> 1 @@ a1b :> 2
MCTakerAccount == r1 :> takerSub
MCDebited == w1 :> aliceSub
MCAmount == w1 :> 1
MCUsedElsewhere == {<<w1, "stranger">>}
MCInitialCash == takerSub :> 0 @@ aliceSub :> 2
=============================================================================
