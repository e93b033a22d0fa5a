---- MODULE MCOrderPath ----
(* Small instances of OrderPath.                                           *)
EXTENDS OrderPath, TLC

Symmetric == Permutations(Req) \cup Permutations(Key)
====
