---- MODULE MCOrderDesk ----
(* Small instances of OrderDesk.                                           *)
EXTENDS OrderDesk, TLC

Symmetric == Permutations(Req) \cup Permutations(Resting)
====
