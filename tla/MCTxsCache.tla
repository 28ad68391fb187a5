----------------------------- MODULE MCTxsCache -----------------------------
(***************************************************************************)
(* Two accounts. a1 (balance 3) has two transactions of nonce 0, the       *)
(* better one spending more so that it makes its nonce-1 successor         *)
(* infeasible; with a two-candidate limit, the better nonce-0 transaction  *)
(* arriving after both others is refused as too many. a1's cheaper nonce-0 *)
(* transaction pays a2 (balance 0), whose account is credited by the VM.   *)
(* Two layers.                                                             *)
(***************************************************************************)
EXTENDS TxsCache

CONSTANTS a1, a2, none

T1 == [principal |-> a1, nonce |-> 0, spend |-> 1, fee |-> 1, dest |-> a2]
T2 == [principal |-> a1, nonce |-> 0, spend |-> 2, fee |-> 2, dest |-> none]
T3 == [principal |-> a1, nonce |-> 1, spend |-> 2, fee |-> 1, dest |-> none]

MCAccounts == {a1, a2}
MCTxs == {T1, T2, T3}
MCInitBalance == [a \in MCAccounts |-> IF a = a1 THEN 3 ELSE 0]
MCMaxTXsPerAcct == 2
MCNumLayers == 2
MCMaxReverts == 1
MCMaxRevertDepth == 1
=============================================================================
