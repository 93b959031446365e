----------------------------- MODULE MC_SlaCompanion -----------------------------
(* Two cases: one with a clock that users start, pause and resume by hand  *)
(* while requests write over each other and over firings, and one with two *)
(* clocks of one stage, the second of which may be started by hand.        *)
EXTENDS SlaCompanion

MC_Rows == 1..2
Clock(byHand, races) ==
  [policy |-> "p1", target |-> "s1", byHand |-> byHand, races |-> races]
MC_Raced == [i \in {1} |-> Clock({"pause", "unpause"}, TRUE)]
MC_Twice == [i \in MC_Rows |-> Clock(IF i = 1 THEN {} ELSE {"start"}, FALSE)]
MC_Plans == {MC_Raced, MC_Twice}
=============================================================================
