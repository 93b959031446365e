---------------------------- MODULE MC_CaseLifecycle ----------------------------
(* Small case types and families.  The statuses keep their seeded          *)
(* allowed_from, which is empty; a run enables the few it needs.           *)
EXTENDS CaseLifecycle

CONSTANTS main, subA, subB     \* the cases of a run

FromAny(names) == [s \in names |-> {}]
NoStatuses == [s \in {} |-> "open"]
AllVerbs   == [s \in Targets |-> Actions]

(* One case, three stages: entering the third closes it.                   *)
Single_Parent  == [c \in Cases |-> None]
Single_StepsOf == [s \in Stages |-> CASE s = 1 -> {"k1"} [] s = 2 -> {"k2"} [] OTHER -> {}]
Single_OnEnter == [s \in Stages |-> IF s = 3 THEN "closed" ELSE "none"]
Single_Allowed == FromAny({"open", "in_progress", "on_hold", "closed", "archived", "reopened"})
(* The last stage restricts the actions it offers.                         *)
Single_Offered == [s \in Targets |-> IF s = 3 THEN {"archive", "reopen", "close"} ELSE Actions]

(* The interpreter on two stages, the first with a step: the last stage    *)
(* is never left, so steps of its own would change nothing.                *)
Interp_StepsOf == [s \in Stages |-> IF s = 1 THEN {"k1"} ELSE {}]
Interp_OnEnter == [s \in Stages |-> "none"]
Interp_Allowed == FromAny({"on_hold", "closed", "reopened"})

(* A parent and two sub-cases; the tenant has a terminal status of its own.*)
Family_Parent  == [c \in Cases |-> IF c = main THEN None ELSE main]
Family_Tenant  == [s \in {"done"} |-> "terminal"]
Family_Allowed == FromAny({"pending_subcase", "closed", "done"})
Family_OnEnter == [s \in Stages |-> "done"]
Family_StepsOf == [s \in Stages |-> {}]
=============================================================================
