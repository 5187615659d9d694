------------------------------ MODULE MCReactor ------------------------------
(* Constants of the TLC runs of Reactor. *)
EXTENDS Reactor, TLC

CONSTANTS r1, r2, x1, x2, x3, w1, w2

TwoRequests == {r1, r2}
ThreeTimers == {x1, x2, x3}
TwoWorkers  == {w1, w2}
OneWorker   == {w1}
NoFaults    == {}

Symmetry == Permutations(Requests) \cup Permutations(Timers) \cup Permutations(Workers)
==============================================================================
