---- MODULE MCFillJournal ----
EXTENDS FillJournal, TLC
Symmetric == Permutations(Order)
====
