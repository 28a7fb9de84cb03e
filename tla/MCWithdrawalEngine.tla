------------------------ MODULE MCWithdrawalEngine ------------------------
(***************************************************************************)
(* Two withdrawals from one subaccount that has the cash for one, and two  *)
(* requests in flight.  The nonce of w2 may be used by a stranger or by    *)
(* another holder of the executor key.                                     *)
(***************************************************************************)
EXTENDS WithdrawalEngine, TLC

CONSTANTS w1, w2, c1, c2, aliceSub

MCWithdrawals == {w1, w2}
MCClients == {c1, c2}
MCAccounts == {aliceSub}
MCDebited == [w \in MCWithdrawals |-> aliceSub]
MCAmount == [w \in MCWithdrawals |-> 1]
MCInitialCash == [a \in MCAccounts |-> 1]
MCUsedElsewhere == {<<w2, "executor">>, <<w2, "stranger">>}
MCSymmetry == Permutations(MCClients)
=============================================================================
