------------------------------- MODULE MCKV --------------------------------
(***************************************************************************)
(* Instances of KV for TLC: the write sets of its runs.                    *)
(***************************************************************************)
EXTENDS KV, TLC

E(k, v) == [key |-> k, val |-> v]

\* One key set alone, and then deleted together with a write of another.
MixedTxs == {<<E("k1", 1)>>, <<E("k1", Absent), E("k2", 1)>>}
PairTxs == {<<E("k1", 1), E("k2", 1)>>}
SingleTxs == {<<E("k1", 1)>>, <<E("k2", 1)>>}

ProcSymmetry == Permutations(Procs)
============================================================================
