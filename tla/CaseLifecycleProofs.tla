-------------------------- MODULE CaseLifecycleProofs --------------------------
(***************************************************************************)
(* Proofs about CaseLifecycle for every set of cases, case type, status    *)
(* set and action list.                                                    *)
(*                                                                         *)
(* Every action writes one row and, when it changes a status, perhaps the  *)
(* parent's (WriteEffect).  The constructors of rows are then looked at    *)
(* one by one.                                                             *)
(***************************************************************************)
EXTENDS CaseLifecycle, TLAPS

(* The fields of the row that CaseRow builds.                              *)
LEMMA CaseRowFields ==
  ASSUME NEW status, NEW stage, NEW deleted, NEW linked, NEW sla, NEW late, NEW done
  PROVE  LET r == CaseRow(status, stage, deleted, linked, sla, late, done)
         IN  /\ r.status = status /\ r.stage = stage /\ r.deleted = deleted
             /\ r.linked = linked /\ r.sla = sla /\ r.late = late /\ r.done = done
  BY DEF CaseRow

LEMMA CaseRowType ==
  ASSUME NEW status \in Known \cup {"none"}, NEW stage \in Targets, NEW deleted \in BOOLEAN,
         NEW linked \in BOOLEAN, NEW sla \in [Targets -> Clock], NEW late \in SUBSET Targets,
         NEW done \in [Steps -> Completion]
  PROVE  CaseRow(status, stage, deleted, linked, sla, late, done) \in Row
  BY DEF CaseRow, Row

LEMMA RowFields ==
  ASSUME NEW r \in Row
  PROVE  /\ r.status \in Known \cup {"none"} /\ r.stage \in Targets
         /\ r.deleted \in BOOLEAN /\ r.linked \in BOOLEAN
         /\ r.sla \in [Targets -> Clock] /\ r.late \in SUBSET Targets
         /\ r.done \in [Steps -> Completion]
  BY DEF Row

(* The seeded statuses the proofs mention.                                 *)
LEMMA Seeded ==
  /\ {"new", "open", "in_progress", "archived", "reopened"} \subseteq Known
  /\ PlatformCategory("archived") = "terminal"
  /\ PlatformCategory("reopened") = "open"
  <1>1. {"new", "open", "in_progress", "archived", "reopened"} \subseteq DOMAIN PlatformSet
    BY DEF PlatformSet
  <1>2. PlatformSet["archived"] = "terminal" /\ PlatformSet["reopened"] = "open"
    BY DEF PlatformSet
  <1>. QED  BY <1>1, <1>2 DEF Known, PlatformCategory

LEMMA Stops == Stages \subseteq Targets /\ 0 \in Targets
  BY LifecycleAssumption DEF Stages, Targets
-----------------------------------------------------------------------------
(* Types of the row constructors.                                          *)
LEMMA ClocksType ==
  ASSUME NEW old, NEW new, NEW sla \in [Targets -> Clock]
  PROVE  ClocksAfter(old, new, sla) \in [Targets -> Clock]
  BY DEF ClocksAfter, Pause, Resume, Clock

LEMMA WithStatusType ==
  ASSUME NEW r \in Row, NEW new \in Known
  PROVE  WithStatus(r, new) \in Row /\ StatusOnly(r, new) \in Row
  <1>1. ClocksAfter(r.status, new, r.sla) \in [Targets -> Clock]
    BY ClocksType, RowFields
  <1>. QED  BY <1>1, RowFields, CaseRowType DEF WithStatus, StatusOnly

LEMMA SetDeletedType ==
  ASSUME NEW r \in Row, NEW deleted \in BOOLEAN
  PROVE  SetDeleted(r, deleted) \in Row
  BY RowFields, CaseRowType DEF SetDeleted

LEMMA EnteredType ==
  ASSUME NEW r \in Row, NEW s \in Targets
  PROVE  Entered(r, s) \in Row
  <1>1. StartStageSla(r.sla, s) \in [Targets -> Clock]
    BY RowFields DEF StartStageSla, Clock
  <1>. QED  BY <1>1, RowFields, CaseRowType DEF Entered

LEMMA AfterEntryType ==
  ASSUME NEW r \in Row, NEW s \in Targets, NEW scoped
  PROVE  AfterEntry(r, s, scoped) \in Row
  <1>1. Entered(r, s) \in Row
    BY EnteredType
  <1>2. SetsStatus(r, s, scoped) => OnEnter[s] \in Known
    BY LifecycleAssumption DEF SetsStatus, Valid
  <1>. QED  BY <1>1, <1>2, WithStatusType DEF AfterEntry

LEMMA RecordedType ==
  ASSUME NEW r \in Row, NEW k \in Steps, NEW s \in Targets, NEW ok
  PROVE  Recorded(r, k, s, ok) \in Row
  <1>1. [stage |-> s, status |-> IF ok THEN "completed" ELSE "rejected"] \in Completion
    BY DEF Completion
  <1>2. [r.done EXCEPT ![k] = [stage |-> s, status |-> IF ok THEN "completed" ELSE "rejected"]]
          \in [Steps -> Completion]
    BY <1>1, RowFields
  <1>. QED  BY <1>2, RowFields, CaseRowType DEF Recorded

LEMMA WorkedType ==
  ASSUME NEW r \in Row, NEW k \in Steps, NEW s \in Targets, NEW ok
  PROVE  Worked(r, k, s, ok) \in Row
  BY RecordedType, WithStatusType, Seeded DEF Worked

LEMMA NewRowType ==
  ASSUME NEW linked \in BOOLEAN
  PROVE  NewRow(linked) \in Row /\ Absent \in Row
  <1>1. [t \in Targets |-> IF t = 0 /\ ~linked THEN "running" ELSE "off"] \in [Targets -> Clock]
    BY DEF Clock
  <1>2. [t \in Targets |-> "off"] \in [Targets -> Clock]
    BY DEF Clock
  <1>3. [k \in Steps |-> NoCompletion] \in [Steps -> Completion]
    BY Stops DEF NoCompletion, Completion
  <1>. QED  BY <1>1, <1>2, <1>3, CaseRowType, Seeded, Stops DEF NewRow, Absent

LEMMA TimerType ==
  ASSUME NEW r \in Row, NEW t \in Targets, NEW clock \in Clock, NEW late \in SUBSET Targets
  PROVE  WithClock(r, t, clock) \in Row /\ WithLate(r, late) \in Row
  <1>1. [r.sla EXCEPT ![t] = clock] \in [Targets -> Clock]
    BY RowFields
  <1>. QED  BY <1>1, RowFields, CaseRowType DEF WithClock, WithLate

LEMMA NextStage ==
  ASSUME NEW r, NEW s \in Targets, CanAdvance(r, s)
  PROVE  s \in Stages /\ s + 1 \in Stages
  BY LifecycleAssumption DEF CanAdvance, Targets, Stages
-----------------------------------------------------------------------------
(* What a transaction that writes r into the row of c leaves behind.       *)
Put(d, c, r) == IF d = c THEN r ELSE row[d]
Released(r, new) == r.status = "pending_subcase" /\ new = StatusOnly(r, "open")
Writes(c, r) ==
  /\ row' \in [Cases -> Row]
  /\ \A d \in Cases : row'[d] = Put(d, c, r) \/ Released(Put(d, c, r), row'[d])

LEMMA WriteOne ==
  ASSUME NEW c \in Cases, NEW r \in Row, row \in [Cases -> Row], row' = [row EXCEPT ![c] = r]
  PROVE  Writes(c, r)
  BY DEF Writes, Put

LEMMA WriteEffect ==
  ASSUME NEW c \in Cases, NEW r \in Row, NEW changed, row \in [Cases -> Row],
         Commit(c, r, changed)
  PROVE  Writes(c, r)
  <1>. DEFINE new == [row EXCEPT ![c] = r]
              p == Parent[c]
  <1>1. new \in [Cases -> Row] /\ \A d \in Cases : new[d] = Put(d, c, r)
    BY DEF Put
  <1>2. CASE row' = new
    BY <1>1, <1>2 DEF Writes
  <1>3. CASE row' = RowsAfter(new, c)
    <2>1. CASE RowsAfter(new, c) = new
      BY <1>1, <1>3, <2>1 DEF Writes
    <2>2. CASE /\ p # None /\ new[p].status = "pending_subcase"
               /\ RowsAfter(new, c) = [new EXCEPT ![p] = StatusOnly(new[p], "open")]
      <3>. HIDE DEF new
      <3>1. p \in Cases
        BY <2>2, LifecycleAssumption
      <3>2. StatusOnly(new[p], "open") \in Row
        BY <1>1, <3>1, WithStatusType, Seeded
      <3>. QED  BY <1>1, <1>3, <2>2, <3>1, <3>2 DEF Writes, Released
    <2>. QED  BY <2>1, <2>2 DEF RowsAfter
  <1>. QED  BY <1>2, <1>3 DEF Commit
-----------------------------------------------------------------------------
LEMMA InterpreterStepType ==
  ASSUME NEW c \in Cases, NEW target \in Targets, TypeOK,
         NEW pc \in {"none", "plan", "check", "advance", "enter", "stopped"},
         InterpreterStep(c, pc, target)
  PROVE  interp' \in [Cases -> [pc : {"none", "plan", "check", "advance", "enter", "stopped"},
                               target : Targets]]
  BY DEF InterpreterStep, TypeOK

(* Every step leaves well-formed rows.                                     *)
LEMMA TypeStep ==
  ASSUME TypeOK, [Next]_vars
  PROVE  TypeOK'
  <1>. USE LifecycleAssumption
  <1>0. CASE UNCHANGED vars
    BY <1>0 DEF TypeOK, vars
  <1>. SUFFICES ASSUME Next PROVE TypeOK'
    BY <1>0
  <1>1. row \in [Cases -> Row] /\ held \subseteq Cases
    BY DEF TypeOK
  <1>2. ASSUME NEW c \in Cases, CreateCase(c) \/ CreateChild(c)
        PROVE  TypeOK'
    <2>1. NewRow(FALSE) \in Row /\ NewRow(TRUE) \in Row
      BY NewRowType
    <2>2. CASE CreateChild(c)
      BY <1>1, <2>1, <2>2 DEF CreateChild, TypeOK
    <2>3. CASE CreateCase(c)
      <3>1. row' \in [Cases -> Row] /\ held' = held
        BY <1>1, <2>1, <2>3 DEF CreateCase
      <3>2. InterpreterStep(c, IF c \in Interpreted THEN "plan" ELSE "none", 0)
        BY <2>3 DEF CreateCase, InterpreterStart, InterpreterStep
      <3>. QED  BY <3>1, <3>2, InterpreterStepType, Stops DEF TypeOK
    <2>. QED  BY <1>2, <2>2, <2>3
  <1>3. ASSUME NEW c \in Cases, LinkChild(c)
        PROVE  TypeOK'
    <2>1. CaseRow(row[c].status, row[c].stage, FALSE, TRUE, row[c].sla, row[c].late, row[c].done)
            \in Row
      BY <1>1, RowFields, CaseRowType
    <2>. QED  BY <1>1, <1>3, <2>1 DEF LinkChild, TypeOK
  <1>4. ASSUME NEW c \in Cases, NEW verb \in Verbs, NEW target \in DOMAIN AllowedFrom,
               ChangeStatus(c, verb, target)
        PROVE  TypeOK'
    <2>1. WithStatus(row[c], target) \in Row
      BY <1>1, WithStatusType
    <2>2. Commit(c, WithStatus(row[c], target), TRUE) /\ UNCHANGED <<held, interp>>
      BY <1>4 DEF ChangeStatus
    <2>. QED  BY <1>1, <2>1, <2>2, WriteEffect DEF Writes, TypeOK
  <1>5. ASSUME NEW c \in Cases, Delete(c) \/ Restore(c)
        PROVE  TypeOK'
    <2>1. SetDeleted(row[c], TRUE) \in Row /\ SetDeleted(row[c], FALSE) \in Row
      BY <1>1, SetDeletedType
    <2>2. CASE Delete(c)
      BY <1>1, <2>1, <2>2 DEF Delete, TypeOK
    <2>3. CASE Restore(c)
      BY <1>1, <2>1, <2>3 DEF Restore, TypeOK
    <2>. QED  BY <1>5, <2>2, <2>3
  <1>6. ASSUME NEW c \in Cases, PlaceHold(c) \/ ReleaseHold(c)
        PROVE  TypeOK'
    BY <1>1, <1>6 DEF PlaceHold, ReleaseHold, TypeOK
  <1>7. ASSUME NEW c \in Cases, NEW s \in Stages, StageMove(c, s)
        PROVE  TypeOK'
    <2>1. AfterEntry(row[c], s, TRUE) \in Row
      BY <1>1, AfterEntryType, Stops
    <2>2. Commit(c, AfterEntry(row[c], s, TRUE), SetsStatus(row[c], s, TRUE))
          /\ UNCHANGED <<held, interp>>
      BY <1>7 DEF StageMove
    <2>. QED  BY <1>1, <2>1, <2>2, WriteEffect DEF Writes, TypeOK
  <1>8. ASSUME NEW c \in Cases, NEW target \in RuleStatuses, ApplyRule(c, target)
        PROVE  TypeOK'
    <2>1. WithStatus(row[c], target) \in Row
      BY <1>1, WithStatusType
    <2>2. Commit(c, WithStatus(row[c], target), TRUE) /\ UNCHANGED <<held, interp>>
      BY <1>8 DEF ApplyRule
    <2>. QED  BY <1>1, <2>1, <2>2, WriteEffect DEF Writes, TypeOK
  <1>9. ASSUME NEW c \in Cases, NEW k \in Steps, NEW riskHold, ModuleStep(c, k, riskHold)
        PROVE  TypeOK'
    <2>. DEFINE s == row[c].stage
                at == IF row[c].done[k].status = "none" THEN s ELSE row[c].done[k].stage
                r == Recorded(row[c], k, at, TRUE)
                advances == CanAdvance(r, s) /\ ~riskHold
    <2>1. s \in Targets /\ at \in Targets
      BY <1>1, RowFields DEF Completion
    <2>2. r \in Row
      BY <1>1, <2>1, RecordedType
    <2>3. advances => AfterEntry(r, s + 1, FALSE) \in Row
      BY <2>1, <2>2, AfterEntryType, NextStage, Stops
    <2>4. /\ Commit(c, IF advances THEN AfterEntry(r, s + 1, FALSE) ELSE r,
                    advances /\ SetsStatus(r, s + 1, FALSE))
          /\ UNCHANGED <<held, interp>>
      BY <1>9 DEF ModuleStep
    <2>. HIDE DEF s, at, r, advances
    <2>. QED  BY <1>1, <2>2, <2>3, <2>4, WriteEffect DEF Writes, TypeOK
  <1>10. ASSUME NEW c \in Cases, NEW k \in Steps, NEW ok \in BOOLEAN, NEW riskHold,
                PortalStep(c, k, ok, riskHold)
         PROVE  TypeOK'
    <2>. DEFINE s == row[c].stage
                r == Recorded(row[c], k, s, ok)
                advances == /\ ok /\ row[c].status \in {"open", "new", "reopened"}
                            /\ CanAdvance(r, s) /\ ~riskHold
    <2>1. s \in Targets
      BY <1>1, RowFields
    <2>2. r \in Row
      BY <1>1, <2>1, RecordedType
    <2>3. advances => AfterEntry(r, s + 1, FALSE) \in Row
      BY <2>1, <2>2, AfterEntryType, NextStage, Stops
    <2>4. /\ Commit(c, IF advances THEN AfterEntry(r, s + 1, FALSE) ELSE r,
                    advances /\ SetsStatus(r, s + 1, FALSE))
          /\ UNCHANGED <<held, interp>>
      BY <1>10 DEF PortalStep
    <2>. HIDE DEF s, r, advances
    <2>. QED  BY <1>1, <2>2, <2>3, <2>4, WriteEffect DEF Writes, TypeOK
  <1>11. ASSUME NEW c \in Cases, NEW k \in Steps, NEW s \in Stages, NEW ok \in BOOLEAN,
                NEW riskHold, CompleteStep(c, k, s, ok, riskHold)
         PROVE  TypeOK'
    <2>. DEFINE r == Worked(row[c], k, s, ok)
                advances == ok /\ Workable(r.status) /\ CanAdvance(r, s) /\ ~riskHold
    <2>1. r \in Row
      BY <1>1, WorkedType, Stops
    <2>2. advances => AfterEntry(r, s + 1, FALSE) \in Row
      BY <2>1, AfterEntryType, NextStage, Stops
    <2>3. /\ Commit(c, IF advances THEN AfterEntry(r, s + 1, FALSE) ELSE r,
                    AutoInProgress(row[c], s, ok) \/ (advances /\ SetsStatus(r, s + 1, FALSE)))
          /\ UNCHANGED <<held, interp>>
      BY <1>11 DEF CompleteStep
    <2>. HIDE DEF r, advances
    <2>. QED  BY <1>1, <2>1, <2>2, <2>3, WriteEffect DEF Writes, TypeOK
  <1>12. ASSUME NEW c \in Cases, InterpreterPlan(c) \/ InterpreterCheck(c)
         PROVE  TypeOK'
    <2>1. (IF NumStages > 0 THEN 1 ELSE 0) \in Targets
      BY DEF Targets
    <2>. QED  BY <1>12, <2>1, Stops DEF InterpreterPlan, InterpreterCheck, InterpreterStep, TypeOK
  <1>13. ASSUME NEW c \in Cases, InterpreterEnter(c)
         PROVE  TypeOK'
    <2>. DEFINE s == interp[c].target
    <2>1. s \in Targets
      BY DEF TypeOK
    <2>2. AfterEntry(row[c], s, FALSE) \in Row
      BY <1>1, <2>1, AfterEntryType
    <2>3. /\ Commit(c, AfterEntry(row[c], s, FALSE), SetsStatus(row[c], s, FALSE))
          /\ InterpreterStep(c, "check", 0) /\ UNCHANGED held
      BY <1>13 DEF InterpreterEnter
    <2>4. row' \in [Cases -> Row]
      BY <1>1, <2>2, <2>3, WriteEffect DEF Writes
    <2>. QED  BY <2>3, <2>4, InterpreterStepType, Stops DEF TypeOK
  <1>14. ASSUME NEW c \in Cases, NEW riskHold, NEW renew, InterpreterAdvance(c, riskHold, renew)
         PROVE  TypeOK'
    <2>. DEFINE s == row[c].stage
                advances == CanAdvance(row[c], s) /\ ~riskHold
    <2>1. s \in Targets
      BY <1>1, RowFields
    <2>2. advances => s + 1 \in Targets /\ AfterEntry(row[c], s + 1, FALSE) \in Row
      BY <1>1, <2>1, AfterEntryType, NextStage, Stops
    <2>3. /\ IF advances
            THEN Commit(c, AfterEntry(row[c], s + 1, FALSE), SetsStatus(row[c], s + 1, FALSE))
            ELSE UNCHANGED row
          /\ InterpreterStep(c, IF advances THEN "enter" ELSE IF renew THEN "plan" ELSE "check",
                             IF advances THEN s + 1 ELSE 0)
          /\ UNCHANGED held
      BY <1>14 DEF InterpreterAdvance
    <2>. HIDE DEF s, advances
    <2>4. row' \in [Cases -> Row]
      BY <1>1, <2>2, <2>3, WriteEffect DEF Writes
    <2>5. (IF advances THEN s + 1 ELSE 0) \in Targets
      BY <2>2, Stops
    <2>. QED  BY <2>3, <2>4, <2>5, InterpreterStepType DEF TypeOK
  <1>15. ASSUME NEW c \in Cases, NEW t \in Targets, NEW breach \in BOOLEAN,
                NEW level \in BOOLEAN, NEW more \in BOOLEAN, SlaTimer(c, t, breach, level, more)
         PROVE  TypeOK'
    <2>. DEFINE clocked == WithClock(row[c], t, IF breach THEN "off" ELSE "running")
                late == IF more THEN row[c].late \cup {t} ELSE row[c].late
                r == Escalated(WithLate(clocked, late), level)
    <2>1. clocked \in Row /\ late \in SUBSET Targets
      BY <1>1, RowFields, TimerType DEF Clock
    <2>2. WithLate(clocked, late) \in Row
      BY <2>1, TimerType DEF Clock
    <2>3. level => EscalationStatus \in Known
      BY <1>15 DEF SlaTimer
    <2>4. r \in Row
      <3>. HIDE DEF clocked, late
      <3>. QED  BY <2>2, <2>3, RowFields, CaseRowType DEF Escalated, StatusOnly
    <2>5. row' = [row EXCEPT ![c] = r] /\ UNCHANGED <<held, interp>>
      BY <1>15 DEF SlaTimer
    <2>. HIDE DEF r
    <2>. QED  BY <1>1, <2>4, <2>5 DEF TypeOK
  <1>16. ASSUME NEW c \in Cases, NEW t \in Targets, NEW more \in BOOLEAN, LateLevel(c, t, more)
         PROVE  TypeOK'
    <2>. DEFINE late == IF more THEN row[c].late ELSE row[c].late \ {t}
                r == Escalated(WithLate(row[c], late), TRUE)
    <2>1. late \in SUBSET Targets
      BY <1>1, RowFields
    <2>2. WithLate(row[c], late) \in Row
      BY <1>1, <2>1, TimerType DEF Clock
    <2>3. r \in Row
      <3>. HIDE DEF late
      <3>. QED  BY <2>2, RowFields, CaseRowType DEF Escalated, StatusOnly
    <2>4. row' = [row EXCEPT ![c] = r] /\ UNCHANGED <<held, interp>>
      BY <1>16 DEF LateLevel
    <2>. HIDE DEF r
    <2>. QED  BY <1>1, <2>3, <2>4 DEF TypeOK
  <1>17. ASSUME NEW c \in Cases, NEW t \in Targets, NEW from \in Clock, NEW to \in Clock,
                ManualClock(c, t, from, to)
         PROVE  TypeOK'
    <2>1. WithClock(row[c], t, to) \in Row
      BY <1>1, TimerType DEF Clock
    <2>. QED  BY <1>1, <1>17, <2>1 DEF ManualClock, TypeOK
  <1>. QED
    BY <1>2, <1>3, <1>4, <1>5, <1>6, <1>7, <1>8, <1>9, <1>10, <1>11, <1>12, <1>13, <1>14,
       <1>15, <1>16, <1>17 DEF Next

(* Whatever the case type, the status set and the requests: a case is only *)
(* ever in a known status and a declared stage, its clocks and completions *)
(* name declared stages, and the interpreter aims at one.                  *)
THEOREM TypeCorrect == Spec => []TypeOK
  <1>1. Init => TypeOK
    <2>1. Absent \in Row /\ 0 \in Targets
      BY NewRowType, Stops
    <2>. QED  BY <2>1 DEF Init, TypeOK
  <1>. QED  BY <1>1, TypeStep, PTL DEF Spec
-----------------------------------------------------------------------------
(* The seal.  It is proved for the routes that ask for it: without the     *)
(* SLA endpoints and the module completions, which do not (section 4 of    *)
(* the README has a state each reaches), for tenants whose own "archived"  *)
(* is terminal too, and for escalation levels that do not archive a case   *)
(* behind its clocks' back.                                                *)
Guarded ==
  /\ ~ManualSla /\ ModuleSteps = {}
  /\ Category("archived") = "terminal"
  /\ EscalationStatus # "archived"

(* The interpreter does not ask for the seal either, but it stops at a     *)
(* status that is terminal: no case is archived after the interpreter has  *)
(* looked at its status and before the advance or entry that follows.      *)
ArchivedBetweenRounds ==
  \A c \in Cases : row[c].status = "archived" => interp[c].pc \notin {"advance", "enter"}

Stopped(r) == r.status = "archived" => \A t \in Targets : r.sla[t] = "off"

Quiet(old, new) ==
  old.status = "archived" =>
    /\ new.stage = old.stage /\ new.done = old.done /\ new.sla = old.sla
    /\ new.status \in {"archived", "reopened"}

(* Stopped alone says nothing of a breached row with levels left, which    *)
(* would write the status of an archived case.                             *)
SealInv ==
  /\ TypeOK
  /\ \A c \in Cases : Stopped(row[c])
  /\ EscalationStatus = "none" => \A c \in Cases : row[c].late = {}

(* What is asked of the row a transaction writes over an old one.          *)
GoodRow(old, r) ==
  /\ Stopped(r)
  /\ EscalationStatus = "none" => Quiet(old, r) /\ r.late = {}

LEMMA WithStatusStops ==
  ASSUME NEW r \in Row, NEW new
  PROVE  Stopped(WithStatus(r, new)) /\ WithStatus(r, new).late = r.late
  <1>1. /\ WithStatus(r, new).status = new /\ WithStatus(r, new).late = r.late
        /\ WithStatus(r, new).sla = ClocksAfter(r.status, new, r.sla)
    BY CaseRowFields DEF WithStatus
  <1>2. new = "archived" => \A t \in Targets : ClocksAfter(r.status, new, r.sla)[t] = "off"
    BY Seeded DEF ClocksAfter
  <1>. QED  BY <1>1, <1>2 DEF Stopped

LEMMA EntryStops ==
  ASSUME NEW r \in Row, NEW s \in Targets, NEW scoped, r.status # "archived"
  PROVE  Stopped(AfterEntry(r, s, scoped)) /\ AfterEntry(r, s, scoped).late = r.late
  <1>1. Entered(r, s) \in Row /\ Entered(r, s).status = r.status /\ Entered(r, s).late = r.late
    BY EnteredType, CaseRowFields DEF Entered
  <1>2. Stopped(Entered(r, s))
    BY <1>1 DEF Stopped
  <1>. QED  BY <1>1, <1>2, WithStatusStops DEF AfterEntry

LEMMA WorkStops ==
  ASSUME NEW r \in Row, NEW k \in Steps, NEW s \in Targets, NEW ok, r.status # "archived"
  PROVE  /\ Recorded(r, k, s, ok).status = r.status /\ Recorded(r, k, s, ok).late = r.late
         /\ Worked(r, k, s, ok).status # "archived" /\ Worked(r, k, s, ok).late = r.late
  <1>1. Recorded(r, k, s, ok) \in Row /\ Recorded(r, k, s, ok).status = r.status
        /\ Recorded(r, k, s, ok).late = r.late
    BY RecordedType, CaseRowFields DEF Recorded
  <1>2. WithStatus(Recorded(r, k, s, ok), "in_progress").status = "in_progress"
    BY CaseRowFields DEF WithStatus
  <1>3. WithStatus(Recorded(r, k, s, ok), "in_progress").late = r.late
    BY <1>1, WithStatusStops
  <1>. QED  BY <1>1, <1>2, <1>3 DEF Worked

(* A good row in one place is a good step everywhere: the only other row a *)
(* transaction touches is a parent in pending_subcase.                     *)
LEMMA GoodWrite ==
  ASSUME SealInv, NEW c \in Cases, NEW r \in Row, Writes(c, r), GoodRow(row[c], r)
  PROVE  \A d \in Cases : GoodRow(row[d], row'[d])
  <1>. SUFFICES ASSUME NEW d \in Cases PROVE GoodRow(row[d], row'[d])
    OBVIOUS
  <1>1. GoodRow(row[d], Put(d, c, r)) /\ Put(d, c, r) \in Row
    <2>1. CASE d = c
      BY <2>1 DEF Put
    <2>2. CASE d # c
      BY <2>2 DEF Put, GoodRow, SealInv, TypeOK, Quiet
    <2>. QED  BY <2>1, <2>2
  <1>2. CASE row'[d] = Put(d, c, r)
    BY <1>1, <1>2
  <1>3. CASE Released(Put(d, c, r), row'[d])
    <2>. DEFINE n == Put(d, c, r)
    <2>. HIDE DEF n
    <2>1. n.status = "pending_subcase" /\ row'[d].status = "open" /\ row'[d].late = n.late
      BY <1>3, CaseRowFields DEF Released, StatusOnly, n
    <2>2. Stopped(row'[d])
      BY <2>1 DEF Stopped
    <2>3. GoodRow(row[d], n)
      BY <1>1 DEF n
    <2>4. EscalationStatus = "none" => row[d].status # "archived" /\ n.late = {}
      BY <2>1, <2>3 DEF GoodRow, Quiet
    <2>. QED  BY <2>1, <2>2, <2>4 DEF GoodRow, Quiet
  <1>. QED  BY <1>2, <1>3 DEF Writes

(* One step: the row each action writes is a good one.                     *)
LEMMA GoodStep ==
  ASSUME Guarded, SealInv, ArchivedBetweenRounds, Next
  PROVE  \A d \in Cases : GoodRow(row[d], row'[d])
  <1>. DEFINE Good == \A d \in Cases : GoodRow(row[d], row'[d])
  <1>. USE LifecycleAssumption
  <1>1. /\ row \in [Cases -> Row]
        /\ \A d \in Cases : Stopped(row[d])
        /\ EscalationStatus = "none" => \A d \in Cases : row[d].late = {}
        /\ interp \in [Cases -> [pc : {"none", "plan", "check", "advance", "enter", "stopped"},
                                 target : Targets]]
    BY DEF SealInv, TypeOK
  <1>2. ASSUME NEW c \in Cases, NEW r \in Row, Writes(c, r), GoodRow(row[c], r)
        PROVE  Good
    BY <1>2, GoodWrite
  <1>3. ASSUME UNCHANGED row
        PROVE  Good
    BY <1>1, <1>3 DEF GoodRow, Quiet
  <1>. HIDE DEF Good
  <1>4. ASSUME NEW c \in Cases, CreateCase(c) \/ CreateChild(c)
        PROVE  Good
    <2>1. PICK r \in {NewRow(FALSE), NewRow(TRUE)} : row' = [row EXCEPT ![c] = r]
      BY <1>4 DEF CreateCase, CreateChild
    <2>2. r \in Row
      BY <2>1, NewRowType
    <2>3. r.status = "new" /\ r.late = {} /\ row[c].status = "none"
      <3>1. r.status = "new" /\ r.late = {}
        BY <2>1 DEF NewRow, CaseRow
      <3>2. row[c].status = "none"
        BY <1>4 DEF CreateCase, CreateChild, Exists
      <3>. QED  BY <3>1, <3>2
    <2>4. GoodRow(row[c], r)
      BY <2>3 DEF GoodRow, Stopped, Quiet
    <2>. QED  BY <1>1, <1>2, <2>1, <2>2, <2>4, WriteOne
  <1>5. ASSUME NEW c \in Cases, LinkChild(c)
        PROVE  Good
    <2>. DEFINE r == CaseRow(row[c].status, row[c].stage, FALSE, TRUE, row[c].sla, row[c].late,
                             row[c].done)
    <2>1. r \in Row
      BY <1>1, RowFields, CaseRowType
    <2>2. /\ r.status = row[c].status /\ r.stage = row[c].stage /\ r.sla = row[c].sla
          /\ r.late = row[c].late /\ r.done = row[c].done
      BY DEF CaseRow
    <2>3. row' = [row EXCEPT ![c] = r]
      BY <1>5 DEF LinkChild
    <2>. HIDE DEF r
    <2>4. GoodRow(row[c], r)
      BY <1>1, <2>2 DEF GoodRow, Stopped, Quiet
    <2>. QED  BY <1>1, <1>2, <2>1, <2>3, <2>4, WriteOne
  <1>6. ASSUME NEW c \in Cases, NEW verb \in Verbs, NEW target \in DOMAIN AllowedFrom,
               ChangeStatus(c, verb, target)
        PROVE  Good
    <2>. DEFINE r == WithStatus(row[c], target)
    <2>1. r \in Row /\ Stopped(r) /\ r.late = row[c].late
      BY <1>1, WithStatusType, WithStatusStops
    <2>2. /\ r.status = target /\ r.stage = row[c].stage /\ r.done = row[c].done
          /\ r.sla = ClocksAfter(row[c].status, target, row[c].sla)
      BY CaseRowFields DEF WithStatus
    <2>3. Commit(c, r, TRUE)
      BY <1>6 DEF ChangeStatus
    <2>4. Quiet(row[c], r)
      <3>. SUFFICES ASSUME row[c].status = "archived" PROVE Quiet(row[c], r)
        BY DEF Quiet
      <3>1. verb = "reopen"
        BY <1>6 DEF ChangeStatus, Sealed, Verbs, StatusEffect
      <3>2. target = "reopened"
        BY <1>6, <3>1 DEF ChangeStatus, LeadsTo, StatusEffect
      <3>3. row[c].sla \in [Targets -> Clock] /\ \A t \in Targets : row[c].sla[t] = "off"
        BY <1>1, RowFields DEF Stopped
      <3>4. ClocksAfter(row[c].status, target, row[c].sla) = row[c].sla
        BY <3>2, <3>3, Seeded DEF ClocksAfter, Pause, Resume
      <3>. QED  BY <2>2, <3>2, <3>4 DEF Quiet
    <2>. HIDE DEF r
    <2>5. Writes(c, r)
      BY <1>1, <2>1, <2>3, WriteEffect
    <2>. QED  BY <1>1, <1>2, <2>1, <2>3, <2>4, <2>5 DEF GoodRow
  <1>7. ASSUME NEW c \in Cases, Delete(c) \/ Restore(c)
        PROVE  Good
    <2>1. PICK deleted \in BOOLEAN : row' = [row EXCEPT ![c] = SetDeleted(row[c], deleted)]
      BY <1>7 DEF Delete, Restore
    <2>. DEFINE r == SetDeleted(row[c], deleted)
    <2>2. /\ r.status = row[c].status /\ r.stage = row[c].stage /\ r.sla = row[c].sla
          /\ r.late = row[c].late /\ r.done = row[c].done /\ r \in Row
      BY <1>1, CaseRowFields, SetDeletedType DEF SetDeleted
    <2>. HIDE DEF r
    <2>4. GoodRow(row[c], r)
      BY <1>1, <2>2 DEF GoodRow, Stopped, Quiet
    <2>5. Writes(c, r)
      BY <1>1, <2>1, <2>2, WriteOne DEF r
    <2>. QED  BY <1>1, <1>2, <2>2, <2>4, <2>5
  <1>8. ASSUME NEW c \in Cases, PlaceHold(c) \/ ReleaseHold(c)
        PROVE  Good
    <2>1. row' = row
      BY <1>8 DEF PlaceHold, ReleaseHold
    <2>. QED  BY <1>3, <2>1
  <1>9. ASSUME NEW c \in Cases, NEW s \in Stages, StageMove(c, s)
        PROVE  Good
    <2>. DEFINE r == AfterEntry(row[c], s, TRUE)
    <2>1. row[c].status # "archived"
      BY <1>9 DEF StageMove, Sealed
    <2>2. r \in Row /\ Stopped(r) /\ r.late = row[c].late
      <3>1. row[c] \in Row /\ s \in Stages /\ s \in Targets /\ TRUE \in BOOLEAN
        BY <1>1, Stops
      <3>2. r \in Row
        BY <3>1, AfterEntryType
      <3>3. Stopped(r) /\ r.late = row[c].late
        BY <2>1, <3>1, EntryStops
      <3>. QED  BY <3>2, <3>3
    <2>3. Commit(c, r, SetsStatus(row[c], s, TRUE))
      BY <1>9 DEF StageMove
    <2>. HIDE DEF r
    <2>4. Writes(c, r)
      BY <1>1, <2>2, <2>3, WriteEffect
    <2>. QED  BY <1>1, <1>2, <2>1, <2>2, <2>3, <2>4 DEF GoodRow, Quiet
  <1>10. ASSUME NEW c \in Cases, NEW target \in RuleStatuses, ApplyRule(c, target)
         PROVE  Good
    <2>. DEFINE r == WithStatus(row[c], target)
    <2>1. row[c].status # "archived"
      BY <1>10 DEF ApplyRule, Sealed
    <2>2. r \in Row /\ Stopped(r) /\ r.late = row[c].late
      BY <1>1, WithStatusType, WithStatusStops
    <2>3. Commit(c, r, TRUE)
      BY <1>10 DEF ApplyRule
    <2>. HIDE DEF r
    <2>4. Writes(c, r)
      BY <1>1, <2>2, <2>3, WriteEffect
    <2>. QED  BY <1>1, <1>2, <2>1, <2>2, <2>3, <2>4 DEF GoodRow, Quiet
  <1>11. ASSUME NEW c \in Cases, NEW k \in Steps, NEW ok \in BOOLEAN, NEW riskHold,
                PortalStep(c, k, ok, riskHold)
         PROVE  Good
    <2>. DEFINE s == row[c].stage
                r == Recorded(row[c], k, s, ok)
                advances == /\ ok /\ row[c].status \in {"open", "new", "reopened"}
                            /\ CanAdvance(r, s) /\ ~riskHold
                w == IF advances THEN AfterEntry(r, s + 1, FALSE) ELSE r
    <2>1. row[c].status # "archived"
      BY <1>11 DEF PortalStep, CustomerAction, Terminal, Guarded
    <2>2. s \in Targets
      BY <1>1, RowFields
    <2>3. r \in Row /\ r.status = row[c].status /\ r.late = row[c].late
      BY <1>1, <2>1, <2>2, RecordedType, WorkStops
    <2>4. Commit(c, w, advances /\ SetsStatus(r, s + 1, FALSE))
      BY <1>11 DEF PortalStep
    <2>5. advances => s + 1 \in Targets
      BY <2>2, NextStage, Stops
    <2>. HIDE DEF s, r
    <2>6. w \in Row /\ Stopped(w) /\ w.late = row[c].late
      <3>1. CASE advances
        <4>1. s + 1 \in Targets
          BY <2>5, <3>1
        <4>2. AfterEntry(r, s + 1, FALSE) \in Row
          BY <2>1, <2>3, <4>1, AfterEntryType
        <4>3. /\ Stopped(AfterEntry(r, s + 1, FALSE))
              /\ AfterEntry(r, s + 1, FALSE).late = r.late
          BY <2>1, <2>3, <4>1, EntryStops
        <4>4. w = AfterEntry(r, s + 1, FALSE)
          BY <3>1
        <4>. QED  BY <2>1, <2>3, <4>2, <4>3, <4>4
      <3>2. CASE ~advances
        BY <2>1, <2>3, <3>2 DEF Stopped
      <3>. QED  BY <3>1, <3>2
    <2>. HIDE DEF w, advances
    <2>7. Writes(c, w)
      BY <1>1, <2>4, <2>6, WriteEffect
    <2>. QED  BY <1>1, <1>2, <2>1, <2>4, <2>6, <2>7 DEF GoodRow, Quiet
  <1>12. ASSUME NEW c \in Cases, NEW k \in Steps, NEW s \in Stages, NEW ok \in BOOLEAN,
                NEW riskHold, CompleteStep(c, k, s, ok, riskHold)
         PROVE  Good
    <2>. DEFINE r == Worked(row[c], k, s, ok)
                advances == ok /\ Workable(r.status) /\ CanAdvance(r, s) /\ ~riskHold
                w == IF advances THEN AfterEntry(r, s + 1, FALSE) ELSE r
    <2>1. row[c].status # "archived"
      BY <1>12 DEF CompleteStep, Sealed
    <2>2. r \in Row /\ r.status # "archived" /\ r.late = row[c].late
      BY <1>1, <2>1, WorkedType, WorkStops, Stops
    <2>3. Commit(c, w, AutoInProgress(row[c], s, ok) \/ (advances /\ SetsStatus(r, s + 1, FALSE)))
         
      BY <1>12 DEF CompleteStep
    <2>4. advances => s + 1 \in Targets
      BY NextStage, Stops
    <2>. HIDE DEF r
    <2>5. w \in Row /\ Stopped(w) /\ w.late = row[c].late
      <3>1. CASE advances
        <4>1. s + 1 \in Targets
          BY <2>4, <3>1
        <4>2. AfterEntry(r, s + 1, FALSE) \in Row
          BY <2>2, <4>1, AfterEntryType
        <4>3. /\ Stopped(AfterEntry(r, s + 1, FALSE))
              /\ AfterEntry(r, s + 1, FALSE).late = r.late
          BY <2>2, <4>1, EntryStops
        <4>4. w = AfterEntry(r, s + 1, FALSE)
          BY <3>1
        <4>. QED  BY <2>2, <4>2, <4>3, <4>4
      <3>2. CASE ~advances
        BY <2>2, <3>2 DEF Stopped
      <3>. QED  BY <3>1, <3>2
    <2>. HIDE DEF w, advances
    <2>6. Writes(c, w)
      BY <1>1, <2>3, <2>5, WriteEffect
    <2>. QED  BY <1>1, <1>2, <2>1, <2>3, <2>5, <2>6 DEF GoodRow, Quiet
  <1>13. ASSUME NEW c \in Cases, NEW t \in Targets, NEW breach \in BOOLEAN,
                NEW level \in BOOLEAN, NEW more \in BOOLEAN, SlaTimer(c, t, breach, level, more)
         PROVE  Good
    <2>. DEFINE clock == IF breach THEN "off" ELSE "running"
                late == IF more THEN row[c].late \cup {t} ELSE row[c].late
                r == Escalated(WithLate(WithClock(row[c], t, clock), late), level)
    <2>1. clock \in Clock /\ late \in SUBSET Targets
      BY <1>1, RowFields DEF Clock
    <2>2. row[c].status # "archived"
      BY <1>1, <1>13 DEF SlaTimer, Stopped
    <2>3. r.status \in {row[c].status, EscalationStatus} /\ r.late = late
      <3>. HIDE DEF clock, late
      <3>1. /\ WithLate(WithClock(row[c], t, clock), late).status = row[c].status
            /\ WithLate(WithClock(row[c], t, clock), late).late = late
        BY DEF WithLate, WithClock, CaseRow
      <3>. QED  BY <3>1 DEF Escalated, StatusOnly, CaseRow
    <2>4. EscalationStatus = "none" => late = {}
      BY <1>1, <1>13 DEF SlaTimer
    <2>5. row' = [row EXCEPT ![c] = r]
      BY <1>13 DEF SlaTimer
    <2>6. r \in Row
      <3>1. WithClock(row[c], t, clock) \in Row
        BY <1>1, <2>1, TimerType
      <3>2. WithLate(WithClock(row[c], t, clock), late) \in Row
        BY <2>1, <3>1, TimerType
      <3>3. level => EscalationStatus \in Known
        BY <1>13 DEF SlaTimer
      <3>. HIDE DEF clock, late
      <3>. QED  BY <3>2, <3>3, RowFields, CaseRowType DEF Escalated, StatusOnly
    <2>. HIDE DEF r, late
    <2>7. GoodRow(row[c], r)
      BY <2>2, <2>3, <2>4 DEF GoodRow, Stopped, Quiet, Guarded
    <2>. QED  BY <1>1, <1>2, <2>5, <2>6, <2>7, WriteOne
  <1>14. ASSUME NEW c \in Cases, NEW t \in Targets, NEW more \in BOOLEAN, LateLevel(c, t, more)
         PROVE  Good
    <2>. DEFINE late == IF more THEN row[c].late ELSE row[c].late \ {t}
                r == Escalated(WithLate(row[c], late), TRUE)
    <2>1. EscalationStatus # "none" /\ late \in SUBSET Targets
      BY <1>1, <1>14, RowFields DEF LateLevel
    <2>2. r.status = EscalationStatus
      BY CaseRowFields DEF Escalated, StatusOnly
    <2>3. row' = [row EXCEPT ![c] = r]
      BY <1>14 DEF LateLevel
    <2>4. r \in Row
      <3>1. WithLate(row[c], late) \in Row
        BY <1>1, <2>1, TimerType DEF Clock
      <3>. HIDE DEF late
      <3>. QED  BY <2>1, <3>1, RowFields, CaseRowType DEF Escalated, StatusOnly
    <2>. HIDE DEF r, late
    <2>5. GoodRow(row[c], r)
      BY <2>1, <2>2 DEF GoodRow, Stopped, Guarded
    <2>. QED  BY <1>1, <1>2, <2>3, <2>4, <2>5, WriteOne
  <1>15. ASSUME NEW c \in Cases, NEW s \in Targets, interp[c].pc \in {"advance", "enter"},
                Commit(c, AfterEntry(row[c], s, FALSE), SetsStatus(row[c], s, FALSE))
         PROVE  Good
    <2>. DEFINE scoped == FALSE
                r == AfterEntry(row[c], s, scoped)
                changed == SetsStatus(row[c], s, scoped)
    <2>1. row[c].status # "archived"
      BY <1>15 DEF ArchivedBetweenRounds
    <2>2. Commit(c, r, changed)
      BY <1>15
    <2>. HIDE DEF scoped, changed
    <2>3. r \in Row /\ Stopped(r) /\ r.late = row[c].late
      <3>1. r \in Row
        BY <1>1, AfterEntryType
      <3>2. Stopped(r) /\ r.late = row[c].late
        BY <1>1, <2>1, EntryStops
      <3>. QED  BY <3>1, <3>2
    <2>. HIDE DEF r
    <2>4. Writes(c, r)
      BY <1>1, <2>2, <2>3, WriteEffect
    <2>. QED  BY <1>1, <1>2, <2>1, <2>3, <2>4 DEF GoodRow, Quiet
  <1>16. ASSUME NEW c \in Cases, NEW riskHold, NEW renew, InterpreterAdvance(c, riskHold, renew)
         PROVE  Good
    <2>. DEFINE s == row[c].stage
    <2>1. CASE UNCHANGED row
      BY <1>3, <2>1
    <2>2. CASE CanAdvance(row[c], s) /\ ~riskHold
      <3>1. s \in Targets
        BY <1>1, RowFields
      <3>2. s + 1 \in Targets
        BY <2>2, <3>1, NextStage, Stops
      <3>3. interp[c].pc \in {"advance", "enter"}
        BY <1>16 DEF InterpreterAdvance
      <3>4. Commit(c, AfterEntry(row[c], s + 1, FALSE), SetsStatus(row[c], s + 1, FALSE))
        BY <1>16, <2>2 DEF InterpreterAdvance
      <3>. QED  BY <3>2, <3>3, <3>4, <1>15
    <2>. QED  BY <1>16, <2>1, <2>2 DEF InterpreterAdvance
  <1>17. ASSUME NEW c \in Cases, InterpreterEnter(c)
         PROVE  Good
    <2>1. interp[c].target \in Targets
      BY DEF SealInv, TypeOK
    <2>. QED  BY <1>15, <1>17, <2>1 DEF InterpreterEnter
  <1>18. ASSUME NEW c \in Cases, InterpreterPlan(c) \/ InterpreterCheck(c)
         PROVE  Good
    BY <1>3, <1>18 DEF InterpreterPlan, InterpreterCheck
  <1>19. ASSUME NEW c \in Cases,
                \/ \E k \in Steps, riskHold \in RiskHolds : ModuleStep(c, k, riskHold)
                \/ \E t \in Targets, from \in Clock, to \in Clock : ManualClock(c, t, from, to)
         PROVE  FALSE
    BY <1>19 DEF ModuleStep, ManualClock, Guarded
  <1>. QED
    <2>1. Good
      BY <1>4, <1>5, <1>6, <1>7, <1>8, <1>9, <1>10, <1>11, <1>12, <1>13, <1>14, <1>16, <1>17,
         <1>18, <1>19 DEF Next
    <2>. QED  BY <2>1 DEF Good

LEMMA SealStep ==
  ASSUME Guarded, SealInv, ArchivedBetweenRounds, [Next]_vars
  PROVE  /\ SealInv'
         /\ EscalationStatus = "none" => \A c \in Cases : Quiet(row[c], row'[c])
  <1>1. TypeOK'
    BY TypeStep DEF SealInv
  <1>2. CASE UNCHANGED vars
    BY <1>1, <1>2 DEF SealInv, Quiet, Stopped, vars
  <1>3. CASE Next
    <2>1. \A d \in Cases : GoodRow(row[d], row'[d])
      BY <1>3, GoodStep
    <2>2. \A d \in Cases : Stopped(row[d])'
      BY <2>1 DEF GoodRow, Stopped
    <2>. QED  BY <1>1, <2>1, <2>2 DEF SealInv, GoodRow
  <1>. QED  BY <1>2, <1>3

LEMMA SealInit ==
  ASSUME Guarded, Init PROVE SealInv
  <1>1. TypeOK
    <2>1. Absent \in Row /\ 0 \in Targets
      BY NewRowType, Stops
    <2>. QED  BY <2>1 DEF Init, TypeOK
  <1>2. Absent.status = "none" /\ Absent.late = {}
    BY DEF Absent, CaseRow
  <1>. QED  BY <1>1, <1>2 DEF Init, SealInv, Stopped

(* Where no case is interpreted, nothing has to be said of the rounds.     *)
LEMMA NoRounds ==
  ASSUME Interpreted = {}
  PROVE  Spec => []ArchivedBetweenRounds
  <1>. DEFINE Unused == \A c \in Cases : interp[c].pc = "none"
  <1>1. Init => Unused
    <2>. SUFFICES ASSUME Init, NEW c \in Cases PROVE interp[c].pc = "none"
      OBVIOUS
    <2>1. interp = [d \in Cases |-> [pc |-> "none", target |-> 0]]
      BY DEF Init
    <2>. QED  BY <2>1
  <1>2. TypeOK /\ Unused /\ [Next]_vars => Unused'
    <2>. SUFFICES ASSUME TypeOK, Unused, [Next]_vars PROVE Unused'
      OBVIOUS
    <2>1. CASE interp' = interp
      BY <2>1
    <2>2. ASSUME NEW c \in Cases, CreateCase(c) PROVE Unused'
      <3>1. interp' = [interp EXCEPT ![c] = [pc |-> "none", target |-> 0]]
        BY <2>2 DEF CreateCase, InterpreterStart
      <3>. QED  BY <3>1 DEF TypeOK
    <2>3. ASSUME NEW c \in Cases, NEW riskHold, NEW renew,
                 \/ InterpreterPlan(c) \/ InterpreterCheck(c) \/ InterpreterEnter(c)
                 \/ InterpreterAdvance(c, riskHold, renew)
          PROVE  FALSE
      BY <2>3 DEF InterpreterPlan, InterpreterCheck, InterpreterEnter, InterpreterAdvance
    <2>4. ASSUME NEW c \in Cases,
                 \/ CreateChild(c) \/ LinkChild(c)
                 \/ \E verb \in Verbs, target \in DOMAIN AllowedFrom : ChangeStatus(c, verb, target)
                 \/ Delete(c) \/ Restore(c) \/ PlaceHold(c) \/ ReleaseHold(c)
                 \/ \E s \in Stages : StageMove(c, s)
                 \/ \E target \in RuleStatuses : ApplyRule(c, target)
          PROVE  interp' = interp
      BY <2>4 DEF CreateChild, LinkChild, ChangeStatus, Delete, Restore, PlaceHold,
         ReleaseHold, StageMove, ApplyRule
    <2>5. ASSUME NEW c \in Cases, NEW k \in Steps, NEW riskHold \in RiskHolds,
                 \/ ModuleStep(c, k, riskHold)
                 \/ \E ok \in BOOLEAN : PortalStep(c, k, ok, riskHold)
                 \/ \E s \in Stages, ok \in BOOLEAN : CompleteStep(c, k, s, ok, riskHold)
          PROVE  interp' = interp
      BY <2>5 DEF ModuleStep, PortalStep, CompleteStep
    <2>6. ASSUME NEW c \in Cases, NEW t \in Targets,
                 \/ \E more \in BOOLEAN :
                      \/ LateLevel(c, t, more)
                      \/ \E breach, level \in BOOLEAN : SlaTimer(c, t, breach, level, more)
                 \/ \E from, to \in Clock : ManualClock(c, t, from, to)
          PROVE  interp' = interp
      BY <2>6 DEF LateLevel, SlaTimer, ManualClock
    <2>7. UNCHANGED vars => interp' = interp
      BY DEF vars
    <2>8. Next => Unused'
      BY <2>1, <2>2, <2>3, <2>4, <2>5, <2>6 DEF Next
    <2>. QED  BY <2>1, <2>7, <2>8
  <1>3. Unused => ArchivedBetweenRounds
    BY DEF ArchivedBetweenRounds
  <1>. QED  BY <1>1, <1>2, <1>3, TypeCorrect, PTL DEF Spec

(* On guarded routes no clock of an archived case runs or is paused: every *)
(* path into "archived" goes through on_status_changed, which cancels the  *)
(* clocks, and every path that starts one asks for the seal first, or is   *)
(* the interpreter's and finds the case in another status.                 *)
THEOREM ArchivedStops ==
  ASSUME Guarded
  PROVE  Spec /\ []ArchivedBetweenRounds => []ArchivedClocksStopped
  <1>1. SealInv => ArchivedClocksStopped
    BY DEF SealInv, Stopped, ArchivedClocksStopped
  <1>2. Init => SealInv
    BY SealInit
  <1>3. SealInv /\ ArchivedBetweenRounds /\ [Next]_vars => SealInv'
    BY SealStep
  <1>. QED  BY <1>1, <1>2, <1>3, PTL DEF Spec

(* On guarded routes, and when no escalation level sets a status, the seal *)
(* holds: an archived case changes only by being reopened.                 *)
THEOREM SealHolds ==
  ASSUME Guarded, EscalationStatus = "none"
  PROVE  Spec /\ []ArchivedBetweenRounds => ArchivedSealed
  <1>1. Init => SealInv
    BY SealInit
  <1>2. SealInv /\ ArchivedBetweenRounds /\ [Next]_vars => SealInv'
    BY SealStep
  <1>3. SealInv /\ ArchivedBetweenRounds /\ [Next]_vars =>
          [\A c \in Cases :
             row[c].status = "archived" =>
               /\ row'[c].stage = row[c].stage
               /\ row'[c].done = row[c].done
               /\ row'[c].sla = row[c].sla
               /\ row'[c].status \in {"archived", "reopened"}]_vars
    BY SealStep DEF Quiet
  <1>. QED  BY <1>1, <1>2, <1>3, PTL DEF Spec, ArchivedSealed

(* Both hold without any condition where cases are not interpreted.        *)
THEOREM UninterpretedSeal ==
  ASSUME Guarded, Interpreted = {}
  PROVE  /\ Spec => []ArchivedClocksStopped
         /\ EscalationStatus = "none" => (Spec => ArchivedSealed)
  <1>1. Spec => []ArchivedClocksStopped
    BY ArchivedStops, NoRounds, PTL
  <1>2. ASSUME EscalationStatus = "none" PROVE Spec => ArchivedSealed
    BY <1>2, SealHolds, NoRounds, PTL
  <1>. QED  BY <1>1, <1>2
-----------------------------------------------------------------------------
(* What the row constructors keep.                                         *)
LEMMA EntryKeeps ==
  ASSUME NEW r, NEW s, NEW scoped \in BOOLEAN
  PROVE  /\ AfterEntry(r, s, scoped).stage = s /\ AfterEntry(r, s, scoped).linked = r.linked
         /\ AfterEntry(r, s, scoped).late = r.late /\ AfterEntry(r, s, scoped).done = r.done
         /\ SetsStatus(r, s, scoped)
              => AfterEntry(r, s, scoped).status = OnEnter[s] /\ OnEnter[s] # "none"
         /\ ~SetsStatus(r, s, scoped) => AfterEntry(r, s, scoped).status = r.status
  BY CaseRowFields DEF AfterEntry, Entered, WithStatus, SetsStatus

LEMMA RecordKeeps ==
  ASSUME NEW r, NEW k, NEW s, NEW ok \in BOOLEAN
  PROVE  /\ Recorded(r, k, s, ok).stage = r.stage /\ Recorded(r, k, s, ok).linked = r.linked
         /\ Recorded(r, k, s, ok).late = r.late /\ Recorded(r, k, s, ok).status = r.status
  BY CaseRowFields DEF Recorded

LEMMA RecordDone ==
  ASSUME NEW r \in Row, NEW k \in Steps, NEW s, NEW ok \in BOOLEAN
  PROVE  LET done == Recorded(r, k, s, ok).done
         IN  /\ \A j \in Steps : j # k => done[j] = r.done[j]
             /\ done[k] = [stage |-> s, status |-> IF ok THEN "completed" ELSE "rejected"]
  BY RowFields, CaseRowFields DEF Recorded

LEMMA WorkKeeps ==
  ASSUME NEW r, NEW k, NEW s, NEW ok \in BOOLEAN
  PROVE  /\ Worked(r, k, s, ok).stage = r.stage /\ Worked(r, k, s, ok).linked = r.linked
         /\ Worked(r, k, s, ok).late = r.late
         /\ Worked(r, k, s, ok).status = IF AutoInProgress(r, s, ok) THEN "in_progress"
                                         ELSE r.status
         /\ Worked(r, k, s, ok).done = Recorded(r, k, s, ok).done
  <1>. DEFINE rec == Recorded(r, k, s, ok)
  <1>1. /\ rec.stage = r.stage /\ rec.linked = r.linked /\ rec.late = r.late
        /\ rec.status = r.status
    BY RecordKeeps
  <1>. HIDE DEF rec
  <1>2. LET e == WithStatus(rec, "in_progress")
        IN  /\ e.stage = rec.stage /\ e.linked = rec.linked /\ e.late = rec.late
            /\ e.status = "in_progress" /\ e.done = rec.done
    BY CaseRowFields DEF WithStatus
  <1>3. Worked(r, k, s, ok) = IF AutoInProgress(r, s, ok) THEN WithStatus(rec, "in_progress")
                              ELSE rec
    BY DEF Worked, rec
  <1>4. Recorded(r, k, s, ok) = rec
    BY DEF rec
  <1>. QED  BY <1>1, <1>2, <1>3, <1>4
-----------------------------------------------------------------------------
(* The waiting parent.  What every step does to the statuses: it creates a *)
(* case, or writes one row and, unless the status stays as it is or comes  *)
(* from an escalation level, propagates the change.                        *)
Born(c, r) ==
  /\ row[c].status = "none" /\ r.status = "new" /\ r.late = {} /\ r.stage = 0
  /\ row' = [row EXCEPT ![c] = r]

Records(c) ==
  \E k \in Steps, riskHold \in RiskHolds :
    \/ ModuleStep(c, k, riskHold)
    \/ \E ok \in BOOLEAN : PortalStep(c, k, ok, riskHold)
    \/ \E s \in Stages, ok \in BOOLEAN : CompleteStep(c, k, s, ok, riskHold)

Changed(c, r) ==
  /\ \/ row' = RowsAfter([row EXCEPT ![c] = r], c)
     \/ row' = [row EXCEPT ![c] = r] /\ r.status \in {row[c].status, EscalationStatus}
  /\ r.linked = row[c].linked \/ (r.linked /\ row[c].status # "none")
  /\ r.status = "none" => row[c].status = "none"
  /\ EscalationStatus = "none" => r.late \subseteq row[c].late
  /\ r.done = row[c].done \/ Records(c)

(* An id that is not a case yet is nobody's sub-case, and without          *)
(* escalation levels no row waits for one.                                 *)
Unborn ==
  /\ \A c \in Cases : row[c].status = "none" => ~row[c].linked
  /\ EscalationStatus = "none" => \A c \in Cases : row[c].late = {}

LEMMA CommitChanges ==
  ASSUME NEW c \in Cases, NEW r \in Row, NEW changed, Commit(c, r, changed),
         ~changed => r.status = row[c].status,
         r.linked = row[c].linked, r.late = row[c].late,
         r.done = row[c].done \/ Records(c),
         r.status = "none" => row[c].status = "none"
  PROVE  Changed(c, r)
  BY DEF Commit, Changed

LEMMA StepChanges ==
  ASSUME TypeOK, Unborn, Next
  PROVE  \/ row' = row
         \/ \E c \in Cases, r \in Row : Born(c, r) \/ Changed(c, r)
  <1>. DEFINE Fine == \/ row' = row
                      \/ \E c \in Cases, r \in Row : Born(c, r) \/ Changed(c, r)
  <1>. USE LifecycleAssumption
  <1>1. row \in [Cases -> Row] /\ "none" \notin Known
    BY DEF TypeOK
  <1>2. ASSUME NEW c \in Cases, CreateCase(c) \/ CreateChild(c)
        PROVE  Fine
    <2>1. PICK r \in {NewRow(FALSE), NewRow(TRUE)} : row' = [row EXCEPT ![c] = r]
      BY <1>2 DEF CreateCase, CreateChild
    <2>2. r \in Row /\ r.status = "new" /\ r.late = {} /\ r.stage = 0
      <3>1. /\ NewRow(FALSE).status = "new" /\ NewRow(FALSE).late = {}
            /\ NewRow(TRUE).status = "new" /\ NewRow(TRUE).late = {}
            /\ NewRow(FALSE).stage = 0 /\ NewRow(TRUE).stage = 0
        BY DEF NewRow, CaseRow
      <3>. QED  BY <2>1, <3>1, NewRowType
    <2>3. row[c].status = "none"
      BY <1>2 DEF CreateCase, CreateChild, Exists
    <2>4. Born(c, r)
      BY <2>1, <2>2, <2>3 DEF Born
    <2>. QED  BY <2>2, <2>4
  <1>3. ASSUME NEW c \in Cases, LinkChild(c)
        PROVE  Fine
    <2>. DEFINE r == CaseRow(row[c].status, row[c].stage, FALSE, TRUE, row[c].sla, row[c].late,
                             row[c].done)
    <2>1. r \in Row /\ r.status = row[c].status /\ r.late = row[c].late /\ r.linked
          /\ r.done = row[c].done
      <3>1. r \in Row
        BY <1>1, RowFields, CaseRowType
      <3>. QED  BY <3>1 DEF CaseRow
    <2>2. row' = [row EXCEPT ![c] = r] /\ row[c].status # "none"
      BY <1>3 DEF LinkChild, Exists
    <2>. HIDE DEF r
    <2>3. Changed(c, r)
      BY <2>1, <2>2 DEF Changed
    <2>. QED  BY <2>1, <2>3
  <1>4. ASSUME NEW c \in Cases,
               \/ \E verb \in Verbs, target \in DOMAIN AllowedFrom :
                    ChangeStatus(c, verb, target)
               \/ \E target \in RuleStatuses : ApplyRule(c, target)
        PROVE  Fine
    <2>1. PICK target \in Known : Commit(c, WithStatus(row[c], target), TRUE)
      BY <1>4 DEF ChangeStatus, ApplyRule
    <2>. DEFINE r == WithStatus(row[c], target)
    <2>2. r \in Row /\ r.status = target /\ r.late = row[c].late /\ r.linked = row[c].linked
          /\ r.done = row[c].done
      BY <1>1, WithStatusType, CaseRowFields DEF WithStatus
    <2>. HIDE DEF r
    <2>3. Commit(c, r, TRUE)
      BY <2>1 DEF r
    <2>4. Changed(c, r)
      BY <1>1, <2>2, <2>3, CommitChanges
    <2>. QED  BY <2>2, <2>4
  <1>5. ASSUME NEW c \in Cases, Delete(c) \/ Restore(c)
        PROVE  Fine
    <2>1. PICK deleted \in BOOLEAN : row' = [row EXCEPT ![c] = SetDeleted(row[c], deleted)]
      BY <1>5 DEF Delete, Restore
    <2>. DEFINE r == SetDeleted(row[c], deleted)
    <2>2. r \in Row /\ r.status = row[c].status /\ r.late = row[c].late /\ r.linked = row[c].linked
          /\ r.done = row[c].done
      BY <1>1, SetDeletedType, CaseRowFields DEF SetDeleted
    <2>3. row' = [row EXCEPT ![c] = r]
      BY <2>1
    <2>. HIDE DEF r
    <2>4. Changed(c, r)
      BY <2>2, <2>3 DEF Changed
    <2>. QED  BY <2>2, <2>4
  <1>6. ASSUME NEW c \in Cases, NEW s \in Targets, NEW scoped \in BOOLEAN,
               Commit(c, AfterEntry(row[c], s, scoped), SetsStatus(row[c], s, scoped))
        PROVE  Fine
    <2>. DEFINE r == AfterEntry(row[c], s, scoped)
    <2>1. r \in Row
      BY <1>1, AfterEntryType
    <2>2. /\ r.linked = row[c].linked /\ r.late = row[c].late /\ r.done = row[c].done
          /\ SetsStatus(row[c], s, scoped) => r.status # "none"
          /\ ~SetsStatus(row[c], s, scoped) => r.status = row[c].status
      BY EntryKeeps
    <2>3. Commit(c, r, SetsStatus(row[c], s, scoped))
      BY <1>6
    <2>. HIDE DEF r
    <2>4. Changed(c, r)
      BY <2>1, <2>2, <2>3, CommitChanges
    <2>. QED  BY <2>1, <2>4
  <1>7. ASSUME NEW c \in Cases, NEW s \in Targets, NEW old \in Row, NEW auto, NEW advances,
               old.linked = row[c].linked, old.late = row[c].late,
               old.done = row[c].done \/ Records(c),
               old.status = "none" => row[c].status = "none",
               ~auto => old.status = row[c].status,
               advances => s + 1 \in Targets,
               Commit(c, IF advances THEN AfterEntry(old, s + 1, FALSE) ELSE old,
                      auto \/ (advances /\ SetsStatus(old, s + 1, FALSE)))
        PROVE  Fine
    <2>1. CASE advances
      <3>. DEFINE next == s + 1
                  unscoped == FALSE
                  r == AfterEntry(old, next, unscoped)
                  ch == auto \/ (advances /\ SetsStatus(old, next, unscoped))
      <3>0. next \in Targets /\ unscoped \in BOOLEAN
        BY <1>7, <2>1
      <3>. HIDE DEF next, unscoped
      <3>1. r \in Row
        BY <3>0, AfterEntryType
      <3>2. /\ r.linked = old.linked /\ r.late = old.late /\ r.done = old.done
            /\ SetsStatus(old, next, unscoped) => r.status # "none"
            /\ ~SetsStatus(old, next, unscoped) => r.status = old.status
        BY <3>0, EntryKeeps
      <3>3. Commit(c, r, ch)
        BY <1>7, <2>1 DEF next, unscoped, Commit
      <3>4. ~ch => r.status = row[c].status
        BY <1>7, <2>1, <3>2
      <3>5. r.status = "none" => row[c].status = "none"
        BY <1>7, <3>2
      <3>. HIDE DEF r, ch
      <3>6. Changed(c, r)
        BY <1>7, <3>1, <3>2, <3>3, <3>4, <3>5, CommitChanges
      <3>. QED  BY <3>1, <3>6
    <2>2. CASE ~advances
      <3>1. Commit(c, old, auto)
        BY <1>7, <2>2 DEF Commit
      <3>2. Changed(c, old)
        BY <1>7, <3>1, CommitChanges
      <3>. QED  BY <1>7, <3>2
    <2>. QED  BY <2>1, <2>2
  <1>8. ASSUME NEW c \in Cases, NEW s \in Stages, StageMove(c, s)
        PROVE  Fine
    BY <1>6, <1>8, Stops DEF StageMove
  <1>9. ASSUME NEW c \in Cases, NEW k \in Steps, NEW riskHold \in RiskHolds, ModuleStep(c, k, riskHold)
        PROVE  Fine
    <2>. DEFINE s == row[c].stage
                at == IF row[c].done[k].status = "none" THEN s ELSE row[c].done[k].stage
                ok == TRUE
                r == Recorded(row[c], k, at, ok)
                advances == CanAdvance(r, s) /\ ~riskHold
    <2>1. s \in Targets /\ at \in Targets
      BY <1>1, RowFields DEF Completion
    <2>2. /\ r \in Row /\ r.linked = row[c].linked /\ r.late = row[c].late
          /\ r.status = row[c].status
      <3>1. ok \in BOOLEAN
        OBVIOUS
      <3>. HIDE DEF ok
      <3>. QED  BY <1>1, <2>1, <3>1, RecordedType, RecordKeeps
    <2>3. advances => s + 1 \in Targets
      BY <2>1, NextStage, Stops
    <2>4. Commit(c, IF advances THEN AfterEntry(r, s + 1, FALSE) ELSE r,
                 FALSE \/ (advances /\ SetsStatus(r, s + 1, FALSE)))
      BY <1>9 DEF ModuleStep
    <2>5. Records(c)
      BY <1>9 DEF Records
    <2>. HIDE DEF s, at, ok, r, advances
    <2>. QED  BY <1>7, <2>1, <2>2, <2>3, <2>4, <2>5
  <1>10. ASSUME NEW c \in Cases, NEW k \in Steps, NEW ok \in BOOLEAN, NEW riskHold \in RiskHolds,
                PortalStep(c, k, ok, riskHold)
         PROVE  Fine
    <2>. DEFINE s == row[c].stage
                r == Recorded(row[c], k, s, ok)
                advances == /\ ok /\ row[c].status \in {"open", "new", "reopened"}
                            /\ CanAdvance(r, s) /\ ~riskHold
    <2>1. s \in Targets
      BY <1>1, RowFields
    <2>2. /\ r \in Row /\ r.linked = row[c].linked /\ r.late = row[c].late
          /\ r.status = row[c].status
      BY <1>1, <2>1, RecordedType, RecordKeeps
    <2>3. advances => s + 1 \in Targets
      BY <2>1, NextStage, Stops
    <2>4. Commit(c, IF advances THEN AfterEntry(r, s + 1, FALSE) ELSE r,
                 FALSE \/ (advances /\ SetsStatus(r, s + 1, FALSE)))
      BY <1>10 DEF PortalStep
    <2>5. Records(c)
      BY <1>10 DEF Records
    <2>. HIDE DEF s, r, advances
    <2>. QED  BY <1>7, <2>1, <2>2, <2>3, <2>4, <2>5
  <1>11. ASSUME NEW c \in Cases, NEW k \in Steps, NEW s \in Stages, NEW ok \in BOOLEAN,
                NEW riskHold \in RiskHolds, CompleteStep(c, k, s, ok, riskHold)
         PROVE  Fine
    <2>. DEFINE r == Worked(row[c], k, s, ok)
                auto == AutoInProgress(row[c], s, ok)
                advances == ok /\ Workable(r.status) /\ CanAdvance(r, s) /\ ~riskHold
    <2>1. s \in Targets
      BY Stops
    <2>2. /\ r \in Row /\ r.linked = row[c].linked /\ r.late = row[c].late
          /\ r.status = IF auto THEN "in_progress" ELSE row[c].status
      BY <1>1, <2>1, WorkedType, WorkKeeps
    <2>3. advances => s + 1 \in Targets
      BY <2>1, NextStage, Stops
    <2>4. Commit(c, IF advances THEN AfterEntry(r, s + 1, FALSE) ELSE r,
                 auto \/ (advances /\ SetsStatus(r, s + 1, FALSE)))
      BY <1>11 DEF CompleteStep
    <2>5. Records(c)
      BY <1>11 DEF Records
    <2>. HIDE DEF r, auto, advances
    <2>. QED  BY <1>7, <2>1, <2>2, <2>3, <2>4, <2>5
  <1>12. ASSUME NEW c \in Cases, InterpreterEnter(c)
         PROVE  Fine
    <2>1. interp[c].target \in Targets
      BY DEF TypeOK
    <2>. QED  BY <1>6, <1>12, <2>1 DEF InterpreterEnter
  <1>13. ASSUME NEW c \in Cases, NEW riskHold \in RiskHolds, NEW renew, InterpreterAdvance(c, riskHold, renew)
         PROVE  Fine
    <2>. DEFINE next == row[c].stage + 1
    <2>1. CASE CanAdvance(row[c], row[c].stage) /\ ~riskHold
      <3>1. next \in Targets
        BY <1>1, <2>1, RowFields, NextStage, Stops
      <3>2. Commit(c, AfterEntry(row[c], next, FALSE), SetsStatus(row[c], next, FALSE))
        BY <1>13, <2>1 DEF InterpreterAdvance
      <3>. HIDE DEF next
      <3>. QED  BY <1>6, <3>1, <3>2
    <2>2. CASE ~(CanAdvance(row[c], row[c].stage) /\ ~riskHold)
      BY <1>13, <2>2 DEF InterpreterAdvance
    <2>. QED  BY <2>1, <2>2
  <1>14. ASSUME NEW c \in Cases, NEW t \in Targets, NEW breach \in BOOLEAN,
                NEW level \in BOOLEAN, NEW more \in BOOLEAN, SlaTimer(c, t, breach, level, more)
         PROVE  Fine
    <2>. DEFINE clock == IF breach THEN "off" ELSE "running"
                late == IF more THEN row[c].late \cup {t} ELSE row[c].late
                clocked == WithClock(row[c], t, clock)
                timed == WithLate(clocked, late)
                r == Escalated(timed, level)
    <2>1. clock \in Clock /\ late \in SUBSET Targets
      BY <1>1, RowFields DEF Clock
    <2>2. EscalationStatus = "none" => late = row[c].late /\ ~level
      BY <1>14 DEF SlaTimer
    <2>3. row' = [row EXCEPT ![c] = r]
      BY <1>14 DEF SlaTimer
    <2>. HIDE DEF clock, late
    <2>4. clocked \in Row /\ clocked.status = row[c].status /\ clocked.linked = row[c].linked
          /\ clocked.done = row[c].done
      BY <1>1, <2>1, TimerType DEF WithClock, CaseRow
    <2>. HIDE DEF clocked
    <2>5. /\ timed \in Row /\ timed.status = row[c].status /\ timed.linked = row[c].linked
          /\ timed.late = late /\ timed.done = row[c].done
      BY <2>1, <2>4, TimerType DEF WithLate, CaseRow
    <2>. HIDE DEF timed
    <2>6. /\ r.status = IF level THEN EscalationStatus ELSE row[c].status
          /\ r.linked = row[c].linked /\ r.late = late /\ r.done = row[c].done
      BY <2>5, CaseRowFields DEF Escalated, StatusOnly
    <2>7. r \in Row
      BY <2>2, <2>5, RowFields, CaseRowType DEF Escalated, StatusOnly
    <2>. HIDE DEF r
    <2>8. Changed(c, r)
      BY <2>2, <2>3, <2>6 DEF Changed
    <2>. QED  BY <2>7, <2>8
  <1>15. ASSUME NEW c \in Cases, NEW t \in Targets, NEW more \in BOOLEAN, LateLevel(c, t, more)
         PROVE  Fine
    <2>. DEFINE late == IF more THEN row[c].late ELSE row[c].late \ {t}
                timed == WithLate(row[c], late)
                r == Escalated(timed, TRUE)
    <2>1. EscalationStatus # "none" /\ late \in SUBSET Targets
      BY <1>1, <1>15, RowFields DEF LateLevel, Unborn
    <2>2. row' = [row EXCEPT ![c] = r]
      BY <1>15 DEF LateLevel
    <2>. HIDE DEF late
    <2>3. timed \in Row /\ timed.status = row[c].status /\ timed.linked = row[c].linked
          /\ timed.done = row[c].done
      BY <1>1, <2>1, TimerType DEF WithLate, CaseRow, Clock
    <2>. HIDE DEF timed
    <2>4. r.status = EscalationStatus /\ r.linked = row[c].linked /\ r.done = row[c].done
      BY <2>3, CaseRowFields DEF Escalated, StatusOnly
    <2>5. r \in Row
      BY <2>1, <2>3, RowFields, CaseRowType DEF Escalated, StatusOnly
    <2>. HIDE DEF r
    <2>6. Changed(c, r)
      BY <2>1, <2>2, <2>4 DEF Changed
    <2>. QED  BY <2>5, <2>6
  <1>16. ASSUME NEW c \in Cases, NEW t \in Targets, NEW from \in Clock, NEW to \in Clock,
                ManualClock(c, t, from, to)
         PROVE  Fine
    <2>. DEFINE r == WithClock(row[c], t, to)
    <2>1. /\ r \in Row /\ r.status = row[c].status /\ r.linked = row[c].linked
          /\ r.late = row[c].late /\ r.done = row[c].done
      <3>1. r \in Row
        BY <1>1, RowFields, TimerType
      <3>. QED  BY <3>1 DEF WithClock, CaseRow
    <2>2. row' = [row EXCEPT ![c] = r]
      BY <1>16 DEF ManualClock
    <2>. HIDE DEF r
    <2>3. Changed(c, r)
      BY <2>1, <2>2 DEF Changed
    <2>. QED  BY <2>1, <2>3
  <1>17. ASSUME row' = row
         PROVE  Fine
    BY <1>17
  <1>. HIDE DEF Fine
  <1>18. Fine
    BY <1>2, <1>3, <1>4, <1>5, <1>8, <1>9, <1>10, <1>11, <1>12, <1>13, <1>14, <1>15, <1>16,
       <1>17 DEF Next, PlaceHold, ReleaseHold, InterpreterPlan, InterpreterCheck
  <1>. QED  BY <1>18 DEF Fine

(* Every row after such a step is the one written, or that of a parent     *)
(* that was released.                                                      *)
LEMMA ChangedRows ==
  ASSUME row \in [Cases -> Row], NEW c \in Cases, NEW r \in Row, Changed(c, r)
  PROVE  Writes(c, r)
  <1>1. CASE row' = [row EXCEPT ![c] = r]
    BY <1>1, WriteOne
  <1>2. CASE row' = RowsAfter([row EXCEPT ![c] = r], c)
    <2>1. Commit(c, r, TRUE)
      BY <1>2 DEF Commit
    <2>. QED  BY <2>1, WriteEffect
  <1>. QED  BY <1>1, <1>2 DEF Changed

LEMMA UnbornStep ==
  ASSUME TypeOK, Unborn, [Next]_vars
  PROVE  Unborn'
  <1>1. CASE row' = row
    BY <1>1 DEF Unborn
  <1>2. ASSUME NEW c \in Cases, NEW r \in Row, Born(c, r)
        PROVE  Unborn'
    BY <1>2 DEF Born, Unborn, TypeOK
  <1>3. ASSUME NEW c \in Cases, NEW r \in Row, Changed(c, r)
        PROVE  Unborn'
    <2>1. Writes(c, r)
      BY <1>3, ChangedRows DEF TypeOK
    <2>2. /\ r.status = "none" => ~r.linked
          /\ EscalationStatus = "none" => r.late = {}
      BY <1>3 DEF Changed, Unborn
    <2>3. ASSUME NEW d \in Cases
          PROVE  /\ row'[d].status = "none" => ~row'[d].linked
                 /\ EscalationStatus = "none" => row'[d].late = {}
      <3>. DEFINE n == Put(d, c, r)
      <3>1. /\ n.status = "none" => ~n.linked
            /\ EscalationStatus = "none" => n.late = {}
        BY <2>2 DEF Put, Unborn
      <3>. HIDE DEF n
      <3>2. CASE row'[d] = n
        BY <3>1, <3>2
      <3>3. CASE Released(n, row'[d])
        <4>1. row'[d].status = "open" /\ row'[d].late = n.late
          BY <3>3, CaseRowFields DEF Released, StatusOnly
        <4>. QED  BY <3>1, <4>1
      <3>. QED  BY <2>1, <3>2, <3>3 DEF Writes, n
    <2>. QED  BY <2>3 DEF Unborn
  <1>. QED  BY <1>1, <1>2, <1>3, StepChanges DEF vars

(* When the case of the property is the one that is written: the test of   *)
(* propagate_status_change is what the property asks for.                  *)
LEMMA ReleaseStep ==
  ASSUME TypeOK, Unborn, [Next]_vars,
         ~Terminal("open"), EscalationStatus = "none" \/ ~Terminal(EscalationStatus),
         NEW c \in Cases, Parent[c] # None, row[c].linked,
         ~Finished(row[c]), Finished(row'[c]),
         \A d \in Required : Parent[d] = Parent[c] /\ row[d].linked => Finished(row'[d])
  PROVE  row'[Parent[c]].status # "pending_subcase"
  <1>. USE LifecycleAssumption
  <1>. DEFINE p == Parent[c]
  <1>1. row \in [Cases -> Row] /\ p \in Cases
    BY DEF TypeOK
  <1>2. row' # row
    OBVIOUS
  <1>3. ASSUME NEW a \in Cases, NEW r \in Row, Born(a, r)
        PROVE  FALSE
    BY <1>1, <1>3 DEF Born, Unborn
  <1>4. ASSUME NEW a \in Cases, NEW r \in Row, Changed(a, r)
        PROVE  row'[p].status # "pending_subcase"
    <2>. DEFINE rows == [row EXCEPT ![a] = r]
    <2>1. Writes(a, r)
      BY <1>1, <1>4, ChangedRows
    <2>2. ASSUME NEW d \in Cases, Finished(row'[d])
          PROVE  row'[d] = Put(d, a, r)
      <3>1. CASE Released(Put(d, a, r), row'[d])
        <4>1. row'[d].status = "open"
          BY <3>1, CaseRowFields DEF Released, StatusOnly
        <4>. QED  BY <2>2, <4>1 DEF Finished
      <3>. QED  BY <2>1, <3>1 DEF Writes
    <2>3. a = c /\ row'[c] = r
      BY <2>2 DEF Put
    <2>4. /\ row' = RowsAfter(rows, c) /\ r.linked
          /\ r.status # "none" /\ Terminal(r.status)
      BY <1>4, <2>3 DEF Changed, Finished
    <2>5. rows \in [Cases -> Row] /\ rows[c] = r /\ \A d \in Cases : rows[d] = Put(d, c, r)
      BY <1>1, <2>3 DEF Put
    <2>. HIDE DEF rows
    <2>6. AllRequiredResolved(rows, p)
      <3>. SUFFICES ASSUME NEW d \in Cases, Parent[d] = p, d \in Required, rows[d].linked
                    PROVE  Terminal(rows[d].status)
        BY DEF AllRequiredResolved
      <3>1. row[d].linked
        BY <2>5 DEF Put
      <3>2. Finished(row'[d])
        BY <3>1
      <3>3. row'[d] = rows[d]
        BY <2>2, <2>3, <2>5, <3>2
      <3>. QED  BY <3>2, <3>3 DEF Finished
    <2>7. CASE rows[p].status = "pending_subcase"
      <3>1. row' = [rows EXCEPT ![p] = StatusOnly(rows[p], "open")]
        BY <2>4, <2>5, <2>6, <2>7 DEF RowsAfter
      <3>2. row'[p].status = "open"
        BY <1>1, <2>5, <3>1, CaseRowFields DEF StatusOnly
      <3>. QED  BY <3>2
    <2>8. CASE rows[p].status # "pending_subcase"
      <3>1. row' = rows
        BY <2>4, <2>8 DEF RowsAfter
      <3>. QED  BY <2>8, <3>1
    <2>. QED  BY <2>7, <2>8
  <1>5. Next
    BY <1>2 DEF vars
  <1>. QED  BY <1>2, <1>3, <1>4, <1>5, StepChanges

(* A parent stops waiting in the step in which its last required sub-case  *)
(* ends, for any family, any status set in which "open" is not an ending,  *)
(* and any route: actions, rules, stages, steps, modules, the portal and   *)
(* the interpreter all propagate the status they set.  Escalation levels   *)
(* do not, so they must not end a case.                                    *)
THEOREM ParentIsReleased ==
  ASSUME ~Terminal("open"), EscalationStatus = "none" \/ ~Terminal(EscalationStatus)
  PROVE  Spec => ParentReleased
  <1>1. Init => Unborn
    <2>1. ~Absent.linked /\ Absent.late = {}
      BY DEF Absent, CaseRow
    <2>. QED  BY <2>1 DEF Init, Unborn
  <1>2. TypeOK /\ Unborn /\ [Next]_vars => Unborn'
    BY UnbornStep
  <1>3. TypeOK /\ Unborn /\ [Next]_vars =>
          [\A c \in Cases :
             LET p == Parent[c] IN
             ( /\ p # None /\ row[c].linked
               /\ ~Finished(row[c]) /\ Finished(row'[c])
               /\ \A d \in Required : Parent[d] = p /\ row[d].linked => Finished(row'[d]) )
             => row'[p].status # "pending_subcase"]_vars
    BY ReleaseStep
  <1>. QED  BY <1>1, <1>2, <1>3, TypeCorrect, PTL DEF Spec, ParentReleased
-----------------------------------------------------------------------------
(* The finished stage.  A record of step k for stage s completes no other  *)
(* stage, and completes stage s only when the step was done.               *)
LEMMA RecordCompletes ==
  ASSUME NEW r \in Row, NEW k \in Steps, NEW s, NEW ok \in BOOLEAN, NEW g \in Targets, NEW n,
         n.done = Recorded(r, k, s, ok).done, CanAdvance(n, g), ~(ok /\ g = s)
  PROVE  CanAdvance(r, g)
  <1>1. /\ \A j \in Steps : j # k => n.done[j] = r.done[j]
        /\ n.done[k] = [stage |-> s, status |-> IF ok THEN "completed" ELSE "rejected"]
    BY RecordDone
  <1>2. StepsOf[g] \subseteq Steps
    <2>1. g \in Stages
      BY NextStage
    <2>. QED  BY <2>1, LifecycleAssumption
  <1>3. k \notin StepsOf[g]
    <2>. SUFFICES ASSUME k \in StepsOf[g] PROVE FALSE
      OBVIOUS
    <2>1. n.done[k] = [stage |-> g, status |-> "completed"]
      BY DEF CanAdvance
    <2>. QED  BY <1>1, <2>1
  <1>. QED  BY <1>1, <1>2, <1>3 DEF CanAdvance

(* Entering the next stage moves the pointer and no record of a step.      *)
LEMMA NextEntry ==
  ASSUME NEW r, NEW s, NEW next, next = s + 1
  PROVE  AfterEntry(r, s + 1, FALSE).stage = next /\ AfterEntry(r, s + 1, FALSE).done = r.done
  <1>. DEFINE unscoped == FALSE
              e == AfterEntry(r, next, unscoped)
  <1>1. e = AfterEntry(r, s + 1, FALSE)
    OBVIOUS
  <1>2. unscoped \in BOOLEAN
    OBVIOUS
  <1>. HIDE DEF unscoped
  <1>3. e.stage = next /\ e.done = r.done
    BY <1>2, EntryKeeps
  <1>. HIDE DEF e
  <1>. QED  BY <1>1, <1>3

(* A step that records a completion and leaves the stage as it is did not  *)
(* complete it, unless the case waits or has ended.                        *)
LEMMA AdvanceStep ==
  ASSUME TypeOK, Unborn, [Next]_vars, CustomerSteps = {}, RiskHolds = {FALSE},
         NEW c \in Cases, row[c].done # row'[c].done, row'[c].stage = row[c].stage,
         Category(row'[c].status) \notin {"terminal", "waiting"},
         CanAdvance(row'[c], row'[c].stage)
  PROVE  CanAdvance(row[c], row[c].stage)
  <1>. DEFINE g == row[c].stage
              n == row'[c]
  <1>1. row \in [Cases -> Row] /\ row[c] \in Row /\ g \in Targets /\ g \in Nat
    BY RowFields, LifecycleAssumption DEF TypeOK, Targets
  <1>2. CanAdvance(n, g)
    OBVIOUS
  <1>3. ASSUME NEW a \in Cases, NEW r \in Row, Writes(a, r)
        PROVE  /\ n.done = Put(c, a, r).done /\ n.stage = Put(c, a, r).stage
               /\ n = Put(c, a, r) \/ Put(c, a, r).status = "pending_subcase"
    <2>1. CASE Released(Put(c, a, r), n)
      <3>. DEFINE old == Put(c, a, r)
      <3>1. old.status = "pending_subcase" /\ n = StatusOnly(old, "open")
        BY <2>1 DEF Released
      <3>. HIDE DEF old
      <3>2. n.done = old.done /\ n.stage = old.stage
        BY <3>1, CaseRowFields DEF StatusOnly
      <3>. QED  BY <3>1, <3>2 DEF old
    <2>. QED  BY <1>3, <2>1 DEF Writes
  <1>4. Records(c)
    <2>1. Next
      BY DEF vars
    <2>2. ASSUME NEW a \in Cases, NEW r \in Row, Born(a, r)
          PROVE  FALSE
      <3>1. a = c /\ n = r
        BY <1>1, <2>2 DEF Born
      <3>. QED  BY <2>2, <3>1, <1>2 DEF Born, CanAdvance
    <2>3. ASSUME NEW a \in Cases, NEW r \in Row, Changed(a, r)
          PROVE  Records(c)
      <3>1. n.done = Put(c, a, r).done
        BY <1>1, <1>3, <2>3, ChangedRows
      <3>2. a = c /\ r.done # row[c].done
        BY <3>1 DEF Put
      <3>. QED  BY <2>3, <3>2 DEF Changed
    <2>. QED  BY <2>1, <2>2, <2>3, StepChanges
  <1>5. ASSUME NEW k \in Steps, ModuleStep(c, k, FALSE)
        PROVE  CanAdvance(row[c], g)
    <2>. DEFINE at == IF row[c].done[k].status = "none" THEN g ELSE row[c].done[k].stage
                ok == TRUE
                r == Recorded(row[c], k, at, ok)
                w == IF CanAdvance(r, g) THEN AfterEntry(r, g + 1, FALSE) ELSE r
                changed == CanAdvance(r, g) /\ SetsStatus(r, g + 1, FALSE)
    <2>1. Commit(c, w, changed)
      BY <1>5 DEF ModuleStep
    <2>2. at \in Targets /\ ok \in BOOLEAN
      BY <1>1, RowFields DEF Completion
    <2>3. r \in Row
      BY <1>1, <2>2, RecordedType
    <2>4. CanAdvance(r, g) => g + 1 \in Targets
      BY <1>1, NextStage, Stops
    <2>. HIDE DEF r, at, ok
    <2>5. w \in Row
      BY <2>3, <2>4, AfterEntryType
    <2>6. CanAdvance(r, g) => w.stage # g /\ w.done = r.done
      <3>. DEFINE next == g + 1
                  e == AfterEntry(r, g + 1, FALSE)
      <3>1. e.stage = next /\ e.done = r.done
        BY NextEntry
      <3>2. next # g
        BY <1>1
      <3>. HIDE DEF next, e
      <3>3. CanAdvance(r, g) => w = e
        BY DEF e
      <3>. QED  BY <3>1, <3>2, <3>3
    <2>. HIDE DEF changed
    <2>7. Writes(c, w)
      BY <1>1, <2>1, <2>5, WriteEffect
    <2>8. n.done = w.done /\ n.stage = w.stage
      BY <1>3, <2>5, <2>7 DEF Put
    <2>9. CASE CanAdvance(r, g)
      BY <2>6, <2>8, <2>9
    <2>10. CASE ~CanAdvance(r, g)
      BY <1>2, <2>8, <2>10 DEF CanAdvance
    <2>. QED  BY <2>9, <2>10
  <1>6. ASSUME NEW k \in Steps, NEW s \in Stages, NEW ok \in BOOLEAN,
               CompleteStep(c, k, s, ok, FALSE)
        PROVE  CanAdvance(row[c], g)
    <2>. DEFINE auto == AutoInProgress(row[c], s, ok)
                r == Worked(row[c], k, s, ok)
                advances == ok /\ Workable(r.status) /\ CanAdvance(r, s)
                w == IF advances THEN AfterEntry(r, s + 1, FALSE) ELSE r
                changed == auto \/ (advances /\ SetsStatus(r, s + 1, FALSE))
    <2>1. Commit(c, w, changed)
      BY <1>6 DEF CompleteStep
    <2>2. /\ r.stage = g /\ r.done = Recorded(row[c], k, s, ok).done
          /\ auto => r.status = "in_progress"
      BY WorkKeeps
    <2>3. s \in Targets /\ r \in Row
      BY <1>1, WorkedType, Stops
    <2>4. CanAdvance(r, s) => s + 1 \in Targets
      BY <2>3, NextStage, Stops
    <2>. HIDE DEF r
    <2>5. w \in Row
      BY <2>3, <2>4, AfterEntryType
    <2>6. w.done = r.done /\ (advances => w.stage # s)
      <3>. DEFINE next == s + 1
                  e == AfterEntry(r, s + 1, FALSE)
      <3>1. e.stage = next /\ e.done = r.done
        BY NextEntry
      <3>2. next # s
        BY DEF Stages
      <3>. HIDE DEF next, e, advances
      <3>3. w = IF advances THEN e ELSE r
        BY DEF e
      <3>. QED  BY <3>1, <3>2, <3>3
    <2>. HIDE DEF w
    <2>7. Writes(c, w)
      BY <1>1, <2>1, <2>5, WriteEffect
    <2>8. /\ n.done = w.done /\ n.stage = w.stage
          /\ n = w \/ w.status = "pending_subcase"
      BY <1>3, <2>5, <2>7 DEF Put
    <2>9. CASE ~(ok /\ g = s)
      BY <1>1, <1>2, <2>2, <2>6, <2>8, <2>9, RecordCompletes
    <2>10. CASE ok /\ g = s
      <3>1. CanAdvance(r, s)
        BY <1>2, <2>6, <2>8, <2>10 DEF CanAdvance
      <3>2. ~advances
        BY <2>6, <2>8, <2>10
      <3>3. w = r /\ ~Workable(r.status)
        BY <2>10, <3>1, <3>2 DEF w
      <3>4. n = r
        <4>1. CASE auto
          BY <2>2, <2>8, <3>3, <4>1
        <4>2. CASE ~auto
          <5>1. row' = [row EXCEPT ![c] = w]
            BY <2>1, <3>2, <4>2 DEF Commit
          <5>. QED  BY <1>1, <3>3, <5>1
        <4>. QED  BY <4>1, <4>2
      <3>. QED  BY <3>3, <3>4 DEF Workable
    <2>. QED  BY <2>9, <2>10
  <1>7. ASSUME NEW k \in Steps, NEW ok \in BOOLEAN, NEW riskHold \in RiskHolds,
               PortalStep(c, k, ok, riskHold)
        PROVE  FALSE
    BY <1>7 DEF PortalStep, CustomerAction
  <1>. QED  BY <1>4, <1>5, <1>6, <1>7 DEF Records

(* Where no step is the customer's own, recording a step never leaves a    *)
(* finished stage behind: a stage that is complete after the record was    *)
(* complete before, with a case that waited or had ended then.  The portal *)
(* decides by its own list of statuses, and is left out.                   *)
THEOREM FinishedStageIsLeft ==
  ASSUME CustomerSteps = {}
  PROVE  Spec => CompletionAdvances
  <1>1. Init => Unborn
    <2>1. ~Absent.linked /\ Absent.late = {}
      BY DEF Absent, CaseRow
    <2>. QED  BY <2>1 DEF Init, Unborn
  <1>2. TypeOK /\ Unborn /\ [Next]_vars => Unborn'
    BY UnbornStep
  <1>3. TypeOK /\ Unborn /\ [Next]_vars =>
          [\A c \in Cases :
             ( /\ RiskHolds = {FALSE}
               /\ row[c].done # row'[c].done
               /\ row'[c].stage = row[c].stage
               /\ Category(row'[c].status) \notin {"terminal", "waiting"} )
             => (CanAdvance(row'[c], row'[c].stage) => CanAdvance(row[c], row[c].stage))]_vars
    BY AdvanceStep
  <1>. QED  BY <1>1, <1>2, <1>3, TypeCorrect, PTL DEF Spec, CompletionAdvances
=============================================================================
