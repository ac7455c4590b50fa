--------------------------- MODULE MC_TxnEngine ----------------------------
(* Two accounts, one asset and two apps, all created by a1; groups of up  *)
(* to two transactions drawn from the calls below.                        *)
EXTENDS TxnEngine

CONSTANTS a1, a2

MCAddr == {a1, a2}
MCApps == {1, 2}
MCAssets == {1}

\* the role fields a ModifyAsset transaction may carry
AllRoles(m, r, f, c) == [manager |-> m, reserve |-> r, freeze |-> f, clawback |-> c]
MCModFields == {AllRoles(a1, a1, a1, a1), AllRoles(a2, a1, a1, a1), AllRoles(a1, NoAddr, a1, a1)}

MCTxnSet ==
  { PayTx(a1, a2, 1, NoAddr, 1), PayTx(a2, a1, 1, a1, 1),
    LsigPayTx(a2, a1, 1, a2, 1), LsigPayTx(a2, a1, 1, a1, 1),
    [PayTx(a2, a1, 1, NoAddr, 1) EXCEPT !.lsig = a2],
    AxferTx(a1, a2, 1, 1, NoAddr), AxferTx(a2, a1, 1, 1, a1),
    RevokeTx(a1, a1, 1, a2, 1), RevokeTx(a2, a2, 1, a1, 1), DestroyTx(a1, 1),
    FreezeTx(a1, 1, a2, TRUE), FreezeTx(a1, 1, a2, FALSE), FreezeTx(a1, 1, a1, TRUE),
    PayTx(a2, a1, 1, a2, 1), AxferTx(a2, a2, 1, 0, a1), AxferTx(a2, a1, 1, 1, a2) }
  \cup { AppTx(ty, a2, p) : ty \in AppTypes, p \in MCApps }
  \cup { ModifyTx(a1, 1, f) : f \in MCModFields }

=============================================================================
