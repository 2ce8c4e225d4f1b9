----------------------------- MODULE MCTxCapture -----------------------------
(* Small instances of TxCapture.                                           *)
EXTENDS TxCapture, TLC

CONSTANTS se1, se2, tx1, tx2, tx3, a1, a2, a3

MCSessions == {se1, se2}
OneSession == {se1}
MCTxIds == {tx1, tx2, tx3}
MCAddrs == {a1, a2, a3}

Symmetry == Permutations(MCSessions) \cup Permutations(MCTxIds)
              \cup Permutations(MCAddrs)
=============================================================================
