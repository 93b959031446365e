----------------------------- MODULE CaseLifecycle -----------------------------
(***************************************************************************)
(* A case from creation to archive: its status, its stage, its SLA clocks, *)
(* the completion of its steps, the seal on archived and deleted cases and *)
(* the parent that waits for its sub-cases.                                *)
(*                                                                         *)
(* One action is one request, or one activity of the interpreter workflow: *)
(* everything its transaction writes.  Requests are serial here.           *)
(*                                                                         *)
(* Abstractions.  A stage is its position in the case type's declared      *)
(* order, 0 before the first.  The clock of target t (0 for the case-level *)
(* policy, a stage number otherwise) is "off" when no SLA row of t is      *)
(* active: never started, cancelled or breached; on_track and at_risk are  *)
(* both "running".  A breached row whose escalation tree has levels left   *)
(* is "late"; whether a tree has another level is a choice.                *)
(* Authorization, audit rows, notifications, urgency and priorities are    *)
(* left out: a refusal is an action that is not taken.                     *)
(***************************************************************************)
EXTENDS Naturals

CONSTANTS
  Cases,
  None,             \* "no case"
  Parent,           \* Parent[c]: the case that c can be a sub-case of, or None
  Required,         \* sub-cases linked with the `required` flag
  NumStages,
  Steps,
  StepsOf,          \* StepsOf[s]: the required, not automated steps of stage s
  OnEnter,          \* OnEnter[s]: on_enter_status of stage s, or "none"
  StageSla,         \* stages with an sla_policy_id
  TenantSet,        \* the tenant's own statuses: name -> category
  AllowedFrom,      \* enabled status -> statuses it may be reached from ({}: any)
  Offered,          \* Offered[s]: the actions stage s offers
  EscalationStatus, \* status set by an escalation level of an SLA, or "none"
  Interpreted,      \* cases run by the interpreter workflow
  ManualSla,        \* whether the SLA endpoints are used by hand
  RuleStatuses,     \* statuses that rules set (velaris.status)
  ModuleSteps,      \* steps completed by payments, CRM, KYC or document modules
  CustomerSteps,    \* steps completed by the customer in the portal
  RiskHolds         \* {FALSE}, or {FALSE, TRUE} where HxSentinel holds cases

Stages  == 1..NumStages
Targets == 0..NumStages

(* The status set seeded for every tenant, by category.                    *)
PlatformSet ==
  [s \in {"new", "open", "reopened", "in_progress", "escalated", "pending", "on_hold",
          "pending_external", "pending_subcase", "resolved", "closed", "cancelled",
          "archived"} |->
     IF s \in {"new", "open", "reopened"} THEN "open"
     ELSE IF s \in {"in_progress", "escalated"} THEN "working"
     ELSE IF s \in {"pending", "on_hold", "pending_external", "pending_subcase"}
       THEN "waiting"
     ELSE "terminal"]

Known == DOMAIN PlatformSet \cup DOMAIN TenantSet

(* resolve_set for a case's own scope: the tenant's rows over the          *)
(* platform's, and without a tenant: the platform's alone.  is_terminal    *)
(* and the category "terminal" are one here.                               *)
Category(s) == IF s \in DOMAIN TenantSet THEN TenantSet[s]
               ELSE IF s \in DOMAIN PlatformSet THEN PlatformSet[s] ELSE "unknown"
PlatformCategory(s) == IF s \in DOMAIN PlatformSet THEN PlatformSet[s] ELSE "unknown"

Terminal(s) == Category(s) = "terminal"
(* Mutant: the list that decided before in_progress existed.               *)
WorkableOldList(s) == s \in {"open", "new", "reopened"}
Workable(s) == Category(s) \notin {"terminal", "waiting"}

(* The status actions of the registry and the status each leads to;        *)
(* change_status names its target.                                         *)
StatusEffect ==
  {<<"open", "open">>, <<"close", "closed">>, <<"resolve", "resolved">>,
   <<"reopen", "reopened">>, <<"cancel", "cancelled">>, <<"put_on_hold", "on_hold">>,
   <<"archive", "archived">>, <<"escalate", "escalated">>}
Verbs   == {effect[1] : effect \in StatusEffect} \cup {"change_status"}
Actions == Verbs \cup {"delete", "restore"}

ASSUME LifecycleAssumption ==
  /\ None \notin Cases
  /\ Parent \in [Cases -> Cases \cup {None}]
  /\ Required \subseteq Cases
  /\ NumStages \in Nat
  /\ StepsOf \in [Stages -> SUBSET Steps]
  /\ OnEnter \in [Stages -> Known \cup {"none"}]
  /\ StageSla \subseteq Stages
  /\ DOMAIN AllowedFrom \subseteq Known
  /\ Offered \in [Targets -> SUBSET Actions]
  /\ Offered[0] = Actions       \* no stage, no restriction
  /\ EscalationStatus \in Known \cup {"none"}
  /\ "none" \notin Known
  /\ Interpreted \subseteq Cases
  /\ ManualSla \in BOOLEAN
  /\ RuleStatuses \subseteq Known
  /\ ModuleSteps \subseteq Steps /\ CustomerSteps \subseteq Steps
  /\ RiskHolds \subseteq BOOLEAN

VARIABLES
  row,     \* row[c]: case_instances, with the SLA, completion and link rows of c
  held,    \* cases under an active legal hold
  interp   \* interp[c]: the interpreter workflow of c and the stage it enters next

vars == <<row, held, interp>>

Clock == {"off", "running", "paused"}
Completion == [stage : Targets, status : {"none", "completed", "rejected"}]
Row == [status : Known \cup {"none"}, stage : Targets, deleted : BOOLEAN,
        linked : BOOLEAN, sla : [Targets -> Clock], late : SUBSET Targets,
        done : [Steps -> Completion]]

TypeOK ==
  /\ row \in [Cases -> Row]
  /\ held \subseteq Cases
  /\ interp \in [Cases -> [pc : {"none", "plan", "check", "advance", "enter", "stopped"},
                           target : Targets]]

Exists(c) == row[c].status # "none"

CaseRow(status, stage, deleted, linked, sla, late, done) ==
  [status |-> status, stage |-> stage, deleted |-> deleted, linked |-> linked,
   sla |-> sla, late |-> late, done |-> done]

NoCompletion == [stage |-> 0, status |-> "none"]

(* A new row; a case that is created by create_case gets its case-level    *)
(* clock, one created as a child or by split does not.                     *)
NewRow(linked) ==
  CaseRow("new", 0, FALSE, linked,
          [t \in Targets |-> IF t = 0 /\ ~linked THEN "running" ELSE "off"], {},
          [k \in Steps |-> NoCompletion])

Absent == CaseRow("none", 0, FALSE, FALSE, [t \in Targets |-> "off"], {},
                  [k \in Steps |-> NoCompletion])

Init ==
  /\ row = [c \in Cases |-> Absent]
  /\ held = {}
  /\ interp = [c \in Cases |-> [pc |-> "none", target |-> 0]]
-----------------------------------------------------------------------------
(* Mutant: the three statuses that ended a case before archived existed.   *)
ClocksAfterOldTuple(old, new, sla) ==
  [t \in Targets |->
     IF new \in {"resolved", "closed", "cancelled"} THEN "off"
     ELSE IF PlatformCategory(new) = "waiting" /\ sla[t] = "running" THEN "paused"
     ELSE sla[t]]

(* pause_sla and resume_sla on one clock.                                  *)
Pause(clock)  == IF clock = "running" THEN "paused" ELSE clock
Resume(clock) == IF clock = "paused" THEN "running" ELSE clock

(* on_status_changed on the clocks.  Its resolve_set has no scope, so the  *)
(* tenant's own statuses are unknown to it.                                *)
ClocksAfter(old, new, sla) ==
  [t \in Targets |->
     IF PlatformCategory(new) = "terminal" THEN "off"
     ELSE IF PlatformCategory(new) = "waiting" THEN Pause(sla[t])
     ELSE IF PlatformCategory(old) = "waiting" THEN Resume(sla[t])
     ELSE sla[t]]

(* apply_status_change on the row of the case itself.                      *)
WithStatus(r, new) ==
  CaseRow(new, r.stage, r.deleted, r.linked, ClocksAfter(r.status, new, r.sla), r.late,
          r.done)

(* A write of the status column alone.                                     *)
StatusOnly(r, new) == CaseRow(new, r.stage, r.deleted, r.linked, r.sla, r.late, r.done)

(* Mutant: only a case that was closed counts as finished.                 *)
RowsAfterClosedOnly(rows, c) ==
  IF /\ rows[c].status = "closed" /\ rows[c].linked /\ Parent[c] # None
     /\ rows[Parent[c]].status = "pending_subcase"
  THEN [rows EXCEPT ![Parent[c]] = StatusOnly(rows[Parent[c]], "open")] ELSE rows

AllRequiredResolved(rows, p) ==
  \A d \in Cases : Parent[d] = p /\ d \in Required /\ rows[d].linked => Terminal(rows[d].status)

(* propagate_status_change, after every status change of c: once all the   *)
(* required sub-cases are finished, a waiting parent is opened.  Only the  *)
(* column is written: no lifecycle hook runs for the parent.               *)
RowsAfter(rows, c) ==
  LET p == Parent[c]
  IN  IF /\ Terminal(rows[c].status) /\ rows[c].linked /\ p # None
         /\ AllRequiredResolved(rows, p)
         /\ rows[p].status = "pending_subcase"
      THEN [rows EXCEPT ![p] = StatusOnly(rows[p], "open")]
      ELSE rows

(* validate_transition, in the tenant's scope or without one.              *)
Valid(from, to, scoped) ==
  /\ to \in DOMAIN AllowedFrom
  /\ scoped \/ to \in DOMAIN PlatformSet
  /\ AllowedFrom[to] = {} \/ from \in AllowedFrom[to]

(* Mutant: deletion is the only seal.                                      *)
SealedDeletedOnly(r, verb) == r.deleted /\ verb # "restore"

(* sealed_reason: a deleted case accepts only restore, an archived one     *)
(* only reopen.                                                            *)
Sealed(r, verb) ==
  \/ r.deleted /\ verb # "restore"
  \/ ~r.deleted /\ r.status = "archived" /\ verb # "reopen"

(* action_offered: what the designer of the stage left on its menu.        *)
Offers(r, verb) == verb \in Offered[r.stage]

(* start_stage_slas: the stage's SLA, unless one is active already.        *)
StartStageSla(sla, s) ==
  [t \in Targets |-> IF t = s /\ s \in StageSla /\ sla[t] = "off" THEN "running" ELSE sla[t]]

(* Mutant: the pointer is left on the stage after the one entered.         *)
EnteredOffByOne(r, s) ==
  CaseRow(r.status, s + 1, r.deleted, r.linked, r.sla, r.late, r.done)

(* Entering stage s: the pointer and the stage's SLA, then on_enter_status *)
(* when the transition is valid.                                           *)
Entered(r, s) ==
  CaseRow(r.status, s, r.deleted, r.linked, StartStageSla(r.sla, s), r.late, r.done)

SetsStatus(r, s, scoped) ==
  /\ ~r.deleted                 \* apply_status_change does not find a deleted case
  /\ OnEnter[s] # "none"
  /\ OnEnter[s] # r.status
  /\ Valid(r.status, OnEnter[s], scoped)

AfterEntry(r, s, scoped) ==
  IF SetsStatus(r, s, scoped) THEN WithStatus(Entered(r, s), OnEnter[s]) ELSE Entered(r, s)

(* Write r into the row of c; a status change propagates to the parent.    *)
Commit(c, r, changed) ==
  row' = IF changed THEN RowsAfter([row EXCEPT ![c] = r], c) ELSE [row EXCEPT ![c] = r]
-----------------------------------------------------------------------------
(* The interpreter workflow of a case type that asks for it starts with    *)
(* the case.                                                               *)
InterpreterStart(c) == [pc |-> IF c \in Interpreted THEN "plan" ELSE "none", target |-> 0]

CreateCase(c) ==
  /\ ~Exists(c)
  /\ row' = [row EXCEPT ![c] = NewRow(FALSE)]
  /\ interp' = [interp EXCEPT ![c] = InterpreterStart(c)]
  /\ UNCHANGED held

(* create_child_case and the split action: a linked child, never required. *)
CreateChild(c) ==
  /\ ~Exists(c)
  /\ c \notin Required
  /\ Parent[c] # None
  /\ Exists(Parent[c])
  /\ ~Sealed(row[Parent[c]], "split")
  /\ row' = [row EXCEPT ![c] = NewRow(TRUE)]
  /\ UNCHANGED <<held, interp>>

(* add_relationship, of type child with propagate_status.                  *)
LinkChild(c) ==
  /\ Exists(c)
  /\ ~row[c].linked
  /\ ~row[c].deleted
  /\ Parent[c] # None
  /\ Exists(Parent[c])
  /\ ~Sealed(row[Parent[c]], "link")
  /\ row' = [row EXCEPT ![c] = CaseRow(row[c].status, row[c].stage, FALSE, TRUE,
                                      row[c].sla, row[c].late, row[c].done)]
  /\ UNCHANGED <<held, interp>>

(* _h_status: the action's own status, or the one change_status names.     *)
LeadsTo(verb, target) == verb = "change_status" \/ <<verb, target>> \in StatusEffect

(* The dispatcher: seal, the stage's action list, validate_transition,     *)
(* then the whole status change.  Statuses an action's configuration also  *)
(* has to be done from only refuse more.  What _h_escalate does besides,   *)
(* firing the next level of each running or breached clock, is a step of   *)
(* its own: SlaTimer or LateLevel with a level.                            *)
ChangeStatus(c, verb, target) ==
  /\ Exists(c)
  /\ ~Sealed(row[c], verb)
  /\ Offers(row[c], verb)
  /\ LeadsTo(verb, target)
  /\ Valid(row[c].status, target, TRUE)
  /\ Commit(c, WithStatus(row[c], target), TRUE)
  /\ UNCHANGED <<held, interp>>

(* apply_rule_to_case: the status a rule sets is not validated.            *)
ApplyRule(c, target) ==
  /\ Exists(c)
  /\ ~Sealed(row[c], "rule")
  /\ target \in RuleStatuses
  /\ Commit(c, WithStatus(row[c], target), TRUE)
  /\ UNCHANGED <<held, interp>>

SetDeleted(r, deleted) == CaseRow(r.status, r.stage, deleted, r.linked, r.sla, r.late, r.done)

(* The delete action: refused under a legal hold.                          *)
Delete(c) ==
  /\ Exists(c)
  /\ ~Sealed(row[c], "delete")
  /\ c \notin held
  /\ Offers(row[c], "delete")
  /\ row' = [row EXCEPT ![c] = SetDeleted(row[c], TRUE)]
  /\ UNCHANGED <<held, interp>>

(* An archived case that is not deleted refuses restore like all the rest. *)
Restore(c) ==
  /\ Exists(c)
  /\ ~Sealed(row[c], "restore")
  /\ Offers(row[c], "restore")
  /\ row[c].deleted
  /\ row' = [row EXCEPT ![c] = SetDeleted(row[c], FALSE)]
  /\ UNCHANGED <<held, interp>>

(* transition_stage; an open HxSentinel hold refuses it.                   *)
StageMove(c, s) ==
  /\ Exists(c)
  /\ ~Sealed(row[c], "stage")
  /\ Commit(c, AfterEntry(row[c], s, TRUE), SetsStatus(row[c], s, TRUE))
  /\ UNCHANGED <<held, interp>>

(* The first half of complete_step: the upserted completion, and           *)
(* in_progress when the stage has no status of its own.                    *)
Recorded(r, k, s, ok) ==
  CaseRow(r.status, r.stage, r.deleted, r.linked, r.sla, r.late,
          [r.done EXCEPT ![k] =
             [stage |-> s, status |-> IF ok THEN "completed" ELSE "rejected"]])

AutoInProgress(r, s, ok) ==
  /\ ok
  /\ OnEnter[s] = "none"
  /\ r.status \in {"new", "open", "reopened"}
  /\ Valid(r.status, "in_progress", TRUE)

Worked(r, k, s, ok) ==
  LET rec == Recorded(r, k, s, ok)
  IN  IF AutoInProgress(r, s, ok) THEN WithStatus(rec, "in_progress") ELSE rec

(* _auto_advance_if_complete: every required step of stage s is completed, *)
(* there is at least one, and s is not the last stage.                     *)
CanAdvance(r, s) ==
  /\ s # 0
  /\ StepsOf[s] # {}
  /\ \A k \in StepsOf[s] : r.done[k] = [stage |-> s, status |-> "completed"]
  /\ s < NumStages

(* complete_step with the stage_id of the request's body.  riskHold: an    *)
(* open HxSentinel hold stops the advance.                                 *)
CompleteStep(c, k, s, ok, riskHold) ==
  LET r == Worked(row[c], k, s, ok)
      advances == ok /\ Workable(r.status) /\ CanAdvance(r, s) /\ ~riskHold
  IN
  /\ Exists(c)
  /\ ~Sealed(row[c], "step")
  /\ Commit(c, IF advances THEN AfterEntry(r, s + 1, FALSE) ELSE r,
            AutoInProgress(row[c], s, ok) \/ (advances /\ SetsStatus(r, s + 1, FALSE)))
  /\ UNCHANGED <<held, interp>>

(* What the portal lists as the customer's open actions.                   *)
CustomerAction(r, k) ==
  /\ ~r.deleted
  /\ ~Terminal(r.status)
  /\ r.stage # 0
  /\ k \in CustomerSteps \cap StepsOf[r.stage]

(* account_complete_action: a customer's step of the current stage, once.  *)
(* Its own list of statuses decides whether the case advances.             *)
PortalStep(c, k, ok, riskHold) ==
  LET s == row[c].stage
      r == Recorded(row[c], k, s, ok)
      advances == /\ ok /\ row[c].status \in {"open", "new", "reopened"}
                  /\ CanAdvance(r, s) /\ ~riskHold
  IN
  /\ Exists(c)
  /\ CustomerAction(row[c], k)
  /\ row[c].done[k].status = "none"
  /\ Commit(c, IF advances THEN AfterEntry(r, s + 1, FALSE) ELSE r,
            advances /\ SetsStatus(r, s + 1, FALSE))
  /\ UNCHANGED <<held, interp>>

(* A module's result arrives, by webhook or after a call: its step is      *)
(* completed (the stage of an earlier record stays) and the current stage  *)
(* is advanced, whatever the status of the case is by then.                *)
ModuleStep(c, k, riskHold) ==
  LET s == row[c].stage
      r == Recorded(row[c], k,
                    IF row[c].done[k].status = "none" THEN s ELSE row[c].done[k].stage, TRUE)
      advances == CanAdvance(r, s) /\ ~riskHold
  IN
  /\ Exists(c)
  /\ k \in ModuleSteps
  /\ Commit(c, IF advances THEN AfterEntry(r, s + 1, FALSE) ELSE r,
            advances /\ SetsStatus(r, s + 1, FALSE))
  /\ UNCHANGED <<held, interp>>
-----------------------------------------------------------------------------
(* CaseInterpreterWorkflow.  Each activity is a transaction of its own;    *)
(* none of them asks whether the case is sealed.  A case is terminal to it *)
(* by the platform's statuses only.                                        *)
InterpreterStep(c, pc, target) == interp' = [interp EXCEPT ![c] = [pc |-> pc, target |-> target]]

InterpreterPlan(c) ==
  /\ interp[c].pc = "plan"
  /\ InterpreterStep(c, IF PlatformCategory(row[c].status) = "terminal" THEN "stopped"
                        ELSE IF row[c].stage = 0 /\ NumStages > 0 THEN "enter" ELSE "check",
                     IF NumStages > 0 THEN 1 ELSE 0)
  /\ UNCHANGED <<row, held>>

InterpreterCheck(c) ==
  /\ interp[c].pc = "check"
  /\ InterpreterStep(c, IF PlatformCategory(row[c].status) = "terminal" THEN "stopped"
                        ELSE "advance", 0)
  /\ UNCHANGED <<row, held>>

(* Mutant: the workflow ends when there was nothing to advance.            *)
InterpreterAdvanceOnce(c, riskHold, renew) ==
  LET s == row[c].stage
      advances == CanAdvance(row[c], s) /\ ~riskHold
  IN
  /\ interp[c].pc = "advance"
  /\ IF advances THEN Commit(c, AfterEntry(row[c], s + 1, FALSE), SetsStatus(row[c], s + 1, FALSE))
                 ELSE UNCHANGED row
  /\ InterpreterStep(c, IF advances THEN "enter" ELSE "stopped", IF advances THEN s + 1 ELSE 0)
  /\ UNCHANGED held

(* try_advance: the case's current stage, whatever its status is by now.   *)
(* renew: the history is long and the workflow continues as new.           *)
InterpreterAdvance(c, riskHold, renew) ==
  LET s == row[c].stage
      advances == CanAdvance(row[c], s) /\ ~riskHold
  IN
  /\ interp[c].pc = "advance"
  /\ IF advances THEN Commit(c, AfterEntry(row[c], s + 1, FALSE), SetsStatus(row[c], s + 1, FALSE))
                 ELSE UNCHANGED row
  /\ InterpreterStep(c, IF advances THEN "enter" ELSE IF renew THEN "plan" ELSE "check",
                     IF advances THEN s + 1 ELSE 0)
  /\ UNCHANGED held

(* enter_stage, by on_stage_entered.                                       *)
InterpreterEnter(c) ==
  LET s == interp[c].target
  IN
  /\ interp[c].pc = "enter"
  /\ Commit(c, AfterEntry(row[c], s, FALSE), SetsStatus(row[c], s, FALSE))
  /\ InterpreterStep(c, "check", 0)
  /\ UNCHANGED held
-----------------------------------------------------------------------------
WithClock(r, t, clock) ==
  CaseRow(r.status, r.stage, r.deleted, r.linked, [r.sla EXCEPT ![t] = clock], r.late,
          r.done)

(* fire_sla_event on a row that is on_track or at_risk: it breaches, its   *)
(* escalation levels fire, or both.  A level's "status" action writes the  *)
(* column and nothing else.  more: levels are left after a breach.         *)
Escalated(r, level) == StatusOnly(r, IF level THEN EscalationStatus ELSE r.status)

WithLate(r, late) ==
  CaseRow(r.status, r.stage, r.deleted, r.linked, r.sla, late, r.done)

SlaTimer(c, t, breach, level, more) ==
  /\ row[c].sla[t] = "running"
  /\ breach \/ level
  /\ level \/ more => EscalationStatus # "none"
  /\ more => breach
  /\ row' = [row EXCEPT ![c] =
       Escalated(WithLate(WithClock(row[c], t, IF breach THEN "off" ELSE "running"),
                          IF more THEN row[c].late \cup {t} ELSE row[c].late),
                 level)]
  /\ UNCHANGED <<held, interp>>

(* fire_sla_event on a breached row: cancelling the clocks of a case that  *)
(* ends does not reach it, so its levels go on firing.                     *)
LateLevel(c, t, more) ==
  /\ t \in row[c].late
  /\ row' = [row EXCEPT ![c] =
       Escalated(WithLate(row[c], IF more THEN row[c].late ELSE row[c].late \ {t}), TRUE)]
  /\ UNCHANGED <<held, interp>>

(* The SLA endpoints: start, pause and resume, on any case that can be     *)
(* read.  A second active row of a target, which start also inserts, has   *)
(* no place here: SlaCompanion has the rows.                               *)
ManualClock(c, t, from, to) ==
  /\ ManualSla
  /\ Exists(c)
  /\ <<from, to>> \in {<<"off", "running">>, <<"running", "paused">>, <<"paused", "running">>}
  /\ row[c].sla[t] = from
  /\ row' = [row EXCEPT ![c] = WithClock(row[c], t, to)]
  /\ UNCHANGED <<held, interp>>

(* legal_hold.place and legal_hold.release: one active hold per case.      *)
PlaceHold(c) ==
  /\ Exists(c)
  /\ c \notin held
  /\ held' = held \cup {c}
  /\ UNCHANGED <<row, interp>>

ReleaseHold(c) ==
  /\ c \in held
  /\ held' = held \ {c}
  /\ UNCHANGED <<row, interp>>

Next ==
  \E c \in Cases :
    \/ CreateCase(c) \/ CreateChild(c) \/ LinkChild(c)
    \/ \E verb \in Verbs, target \in DOMAIN AllowedFrom : ChangeStatus(c, verb, target)
    \/ Delete(c) \/ Restore(c) \/ PlaceHold(c) \/ ReleaseHold(c)
    \/ \E s \in Stages : StageMove(c, s)
    \/ \E target \in RuleStatuses : ApplyRule(c, target)
    \/ \E k \in Steps, riskHold \in RiskHolds :
         \/ ModuleStep(c, k, riskHold)
         \/ \E ok \in BOOLEAN : PortalStep(c, k, ok, riskHold)
         \/ \E s \in Stages, ok \in BOOLEAN : CompleteStep(c, k, s, ok, riskHold)
    \/ InterpreterPlan(c) \/ InterpreterCheck(c) \/ InterpreterEnter(c)
    \/ \E riskHold \in RiskHolds, renew \in BOOLEAN : InterpreterAdvance(c, riskHold, renew)
    \/ \E t \in Targets, more \in BOOLEAN :
         \/ LateLevel(c, t, more)
         \/ \E breach, level \in BOOLEAN : SlaTimer(c, t, breach, level, more)
    \/ \E t \in Targets, from \in Clock, to \in Clock : ManualClock(c, t, from, to)

Spec == Init /\ [][Next]_vars

(* Temporal retries an activity until it succeeds and wakes the workflow   *)
(* by its poll timer without any signal.  An HxSentinel hold is cleared    *)
(* again and again: the stage is sooner or later asked for while none is   *)
(* open.                                                                   *)
Fairness ==
  \A c \in Interpreted :
    /\ WF_vars(InterpreterPlan(c)) /\ WF_vars(InterpreterCheck(c))
    /\ WF_vars(InterpreterEnter(c))
    /\ WF_vars(\E riskHold \in RiskHolds, renew \in BOOLEAN :
                 InterpreterAdvance(c, riskHold, renew))
    /\ SF_vars(\E renew \in BOOLEAN : InterpreterAdvance(c, FALSE, renew))

FairSpec == Spec /\ Fairness
-----------------------------------------------------------------------------
(* No clock runs, or waits to run again, on an archived case: whatever was *)
(* started before it was archived is cancelled, and nothing starts after.  *)
(* Otherwise the case would breach and escalate while it is sealed.        *)
ArchivedClocksStopped ==
  \A c \in Cases : row[c].status = "archived" => \A t \in Targets : row[c].sla[t] = "off"

(* The seal (seal.py, "Archived and deleted cases are inert"): an archived *)
(* case leaves that status only by reopen, and its stage, step completions *)
(* and clocks stay as they are until then.  This takes the gate of every   *)
(* write route together with ArchivedClocksStopped, since a running clock  *)
(* would breach.  It holds while no escalation level sets a status.        *)
ArchivedSealed ==
  [][\A c \in Cases :
       row[c].status = "archived" =>
         /\ row'[c].stage = row[c].stage
         /\ row'[c].done = row[c].done
         /\ row'[c].sla = row[c].sla
         /\ row'[c].status \in {"archived", "reopened"}]_vars

(* A parent never misses the end of its last required sub-case: in the     *)
(* step in which a linked sub-case ends with no required one left open,    *)
(* the parent stops waiting for sub-cases.                                 *)
Finished(r) == r.status # "none" /\ Terminal(r.status)
ParentReleased ==
  [][\A c \in Cases :
       LET p == Parent[c] IN
       ( /\ p # None /\ row[c].linked
         /\ ~Finished(row[c]) /\ Finished(row'[c])
         /\ \A d \in Required : Parent[d] = p /\ row[d].linked => Finished(row'[d]) )
       => row'[p].status # "pending_subcase"]_vars

(* No finished stage is left standing: the step that completes the last    *)
(* required step of the stage a case is in also advances the case, unless  *)
(* the case waits or has ended (complete_step, _auto_advance_if_complete). *)
(* Where HxSentinel may hold cases it says nothing.                        *)
CompletionAdvances ==
  [][\A c \in Cases :
       ( /\ RiskHolds = {FALSE}
         /\ row[c].done # row'[c].done
         /\ row'[c].stage = row[c].stage
         /\ Category(row'[c].status) \notin {"terminal", "waiting"} )
       => (CanAdvance(row'[c], row'[c].stage) => CanAdvance(row[c], row[c].stage))]_vars

(* "A missed signal delays an advance, it never strands a case": while the *)
(* interpreter runs, a stage whose required steps are all completed is     *)
(* left or the case ends, whatever requests come in between.               *)
InterpreterAdvances ==
  \A c \in Interpreted : \A s \in Stages :
    (interp[c].pc \notin {"none", "stopped"} /\ row[c].stage = s /\ CanAdvance(row[c], s))
      ~> (row[c].stage # s \/ ~CanAdvance(row[c], s)
                           \/ PlatformCategory(row[c].status) = "terminal")
-----------------------------------------------------------------------------
(* What comments of the code say and the model refutes.                    *)

(* The interpreter works on "a running case without rewinding it": none of *)
(* its steps moves a case back to an earlier stage.                        *)
NeverRewinds ==
  [][\A c \in Cases : interp'[c] # interp[c] => row'[c].stage >= row[c].stage]_vars

(* "Archived and deleted cases are inert" (seal.py): a deleted case keeps  *)
(* its status until it is restored.                                        *)
DeletedInert ==
  [][\A c \in Cases :
       row[c].deleted /\ row'[c].deleted => row'[c].status = row[c].status]_vars

(* "PAUSES a case's SLAs on reaching either and resumes them on leaving"   *)
(* (pending_external and pending_subcase): a paused clock belongs to a     *)
(* case that waits.                                                        *)
PausedOnlyWhileWaiting ==
  \A c \in Cases : Category(row[c].status) # "waiting" =>
    \A t \in Targets : row[c].sla[t] # "paused"

(* A finished case has no SLA clock: close "stops its SLAs", and a clock   *)
(* is never left "running forever on a closed case".                       *)
EndedClocksStopped ==
  \A c \in Cases : Terminal(row[c].status) => \A t \in Targets : row[c].sla[t] # "running"

(* complete_step "auto-advances the case to the next stage": recording a   *)
(* step never moves the case back to a stage it has left.                  *)
StepNeverMovesBack ==
  [][\A c \in Cases : row'[c].done # row[c].done => row'[c].stage >= row[c].stage]_vars
=============================================================================
