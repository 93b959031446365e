------------------------------ MODULE MC_Scheduler ------------------------------
(* The first user is the author of every schedule.  The configs differ in  *)
(* how often they fire.                                                    *)
EXTENDS Scheduler

CONSTANTS ann, often, seldom

MC_Author == [s \in Schedules |-> ann]
MC_First  == [s \in Schedules |-> often]
MC_NextMatch ==
  [c \in Configs |-> [w \in Times |-> IF c = often THEN ((w \div 2) + 1) * 2
                                                   ELSE ((w \div 3) + 1) * 3]]
=============================================================================
