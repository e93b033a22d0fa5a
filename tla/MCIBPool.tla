---- MODULE MCIBPool ----
(* Small instances of IBPool: a role whose liveness is probed and one      *)
(* whose is not, and a few tasks and clients.                              *)
EXTENDS IBPool, TLC

CONSTANTS data, orders, t1, t2, t3, c1, c2, c3

Symmetric == Permutations(Task) \cup Permutations(Client)
====
