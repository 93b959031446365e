------------------------------ MODULE MC_AuditChain ------------------------------
(* Two audit rows, each about a case of its own, two users, two processes. *)
EXTENDS AuditChain, TLC

CONSTANTS p1, p2, c1, c2, u1, u2

MC_Procs     == {p1, p2}
MC_Cases     == {c1, c2}
MC_Users     == {u1, u2}
MC_CaseOf    == [r \in Ids |-> IF r = 2 THEN c2 ELSE c1]
MC_Symmetry  == Permutations(MC_Procs) \cup Permutations(MC_Users)
=============================================================================
