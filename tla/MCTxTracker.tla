----------------------------- MODULE MCTxTracker -----------------------------
(* Small instance of TxTracker: any sequence of messages.                  *)
EXTENDS TxTracker, TLC

CONSTANTS se1, se2, st1, st2, tx1, tx2, a1, a2

MCSessions == {se1, se2}
MCStreams == {st1, st2}
MCTxIds == {tx1, tx2}
MCAddrs == {a1, a2}

Symmetry == Permutations(MCSessions) \cup Permutations(MCStreams)
              \cup Permutations(MCTxIds) \cup Permutations(MCAddrs)
=============================================================================
