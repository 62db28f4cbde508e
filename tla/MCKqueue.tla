------------------------------ MODULE MCKqueue ------------------------------
(* Kqueue for TLC: three descriptor numbers are interchangeable.            *)
EXTENDS Kqueue, TLC

Symmetric == Permutations(Fds)
=============================================================================
