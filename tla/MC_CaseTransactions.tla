--------------------------- MODULE MC_CaseTransactions ---------------------------
(* A parent and its two required sub-cases, one stage, three overlapping     *)
(* requests.                                                               *)
EXTENDS CaseTransactions, TLC

CONSTANTS parent, left, right, w1, w2, w3

MC_Cases    == {parent, left, right}
MC_Parent   == [c \in MC_Cases |-> IF c = parent THEN None ELSE parent]
MC_Workers  == {w1, w2, w3}
MC_Stages   == {"s1"}
MC_AllKinds == AllKinds
MC_Siblings == {"status"}
MC_Symmetry == Permutations(MC_Workers) \cup Permutations({left, right})
=============================================================================
