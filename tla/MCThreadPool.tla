----------------------------- MODULE MCThreadPool -----------------------------
(* Constants of the TLC runs of ThreadPool. *)
EXTENDS ThreadPool, TLC

CONSTANTS p1, p2, w1, w2, w3, t1, t2

OneProducer  == {p1}
TwoWorkers   == {w1, w2}
ThreeWorkers == {w1, w2, w3}
TwoTasks     == {t1, t2}
NoSpurious   == {}

Symmetry == Permutations(Workers) \cup Permutations(Tasks)
==============================================================================
