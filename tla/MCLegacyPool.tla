----------------------------- MODULE MCLegacyPool -----------------------------
(* Constants of the TLC runs of LegacyPool. *)
EXTENDS LegacyPool, TLC

CONSTANTS c1, c2, w1, w2, w3, t1, t2

OneClient    == {c1}
TwoClients   == {c1, c2}
TwoWorkers   == {w1, w2}
ThreeWorkers == {w1, w2, w3}
TwoTasks     == {t1, t2}
BothModes    == {immediate_shutdown, graceful_shutdown}

Symmetry == Permutations(Workers) \cup Permutations(Tasks)
==============================================================================
