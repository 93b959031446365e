------------------------------ MODULE SlaCompanion ------------------------------
(***************************************************************************)
(* The durable SLA timers of one case: the companion workflow              *)
(* (CaseLifecycleWorkflow), one timer workflow for each SLA row            *)
(* (SLATimerWorkflow), and the requests that change the case and its rows. *)
(*                                                                         *)
(* A request is a transaction: it SELECTs the rows that its status filter  *)
(* fits, UPDATEs them by id (and holds their locks), signals the workflows *)
(* and commits.  Firings and other requests commit between its SELECT and  *)
(* its UPDATE.  Requests that move the case, by status or by stage, take   *)
(* the lock of the case row before they look at its clocks, so that one at *)
(* a time gets that far; the endpoints that start, pause and resume a      *)
(* clock by hand take no such lock.                                        *)
(*                                                                         *)
(* A signal may be lost.  Both workflows fall back on a rescan, so every   *)
(* wait below may also end by its timeout.  Durations are abstracted: a    *)
(* timeout may fire at any time, and due says that the deadline of a row   *)
(* has passed.  Left out: at-risk and escalation levels (CaseLifecycle;    *)
(* on_track and at_risk are "running" here), what overlapping requests do  *)
(* to the status of the case (CaseTransactions), requests that roll back   *)
(* after they have signalled, and bulk actions, which signal after their   *)
(* commit.                                                                 *)
(***************************************************************************)
EXTENDS Naturals, FiniteSets

CONSTANTS
  Rows,          \* ids of the SLA rows the case may get
  Plans,         \* what the rows of a case may be for, which endpoints of
                 \* api/routers/sla.py are used on them (byHand), and whether
                 \* a run may write over them (a bound: races)
  Hands,         \* users of these endpoints
  Hasty          \* TRUE: a case may be reopened while its companion winds down

ASSUME CompanionAssumption ==
  /\ \A p \in Plans : DOMAIN p \subseteq Rows
  /\ "case" \notin Hands
  /\ Hasty \in BOOLEAN

VARIABLES
  plan,        \* plan[i]: policy, target (stage or case), byHand and races
  status,      \* "open", "waiting" or "ended": what the case's status means
  row,         \* row[i]: status of the SLA row and, while it is running or
               \* paused, whether its deadline is past
  request,     \* request[q]: the transaction of the case's request or a user's
  companion,   \* local state of the companion workflow
  timer,       \* timer[i]: local state of the timer workflow of row i
  overwritten  \* history: rows written by id after they had ceased to fit the
               \* filter of the SELECT they were found with

vars == <<plan, status, row, request, companion, timer, overwritten>>

Slots == {"case"} \cup Hands
NoRequest == [op |-> "none", rows |-> {}, due |-> {}, sent |-> FALSE]
Ops == {"none", "start", "pause", "unpause", "wait", "resume", "end", "reopen"}
CompanionPcs == {"settle", "list", "finish", "wait", "resettle", "done"}
TimerPcs == {"none", "check", "asleep", "idle", "fire", "write", "done"}

TypeOK ==
  /\ plan \in Plans
  /\ status \in {"open", "waiting", "ended"}
  /\ row \in [Rows -> [status : {"none", "running", "paused", "breached", "cancelled"},
                       due : BOOLEAN]]
  /\ request \in [Slots -> [op : Ops, rows : SUBSET Rows, due : SUBSET Rows, sent : BOOLEAN]]
  /\ companion \in [pc : CompanionPcs, known : SUBSET Rows,
                    wake : BOOLEAN, terminal : BOOLEAN]
  /\ timer \in [Rows -> [pc : TimerPcs, wake : BOOLEAN]]
  /\ overwritten \subseteq Rows

FreshCompanion(known) ==
  [pc |-> "settle", known |-> known, wake |-> FALSE, terminal |-> FALSE]

(* The case is created in the request that starts its companion.           *)
Init ==
  /\ plan \in Plans
  /\ status = "open"
  /\ row = [i \in Rows |-> [status |-> "none", due |-> FALSE]]
  /\ request = [q \in Slots |-> NoRequest]
  /\ companion = FreshCompanion({})
  /\ timer = [i \in Rows |-> [pc |-> "none", wake |-> FALSE]]
  /\ overwritten = {}

Active == {"running", "paused"}
-----------------------------------------------------------------------------
(* Requests: what they select and what they write.                         *)

(* The status filters of the SELECTs; a start writes a row of its own.     *)
Fits(op) ==
  CASE op = "start"               -> {"none"}
    [] op \in {"wait", "pause"}     -> {"running"}
    [] op \in {"resume", "unpause"} -> {"paused"}
    [] op = "end"                 -> Active
    [] OTHER                      -> {}

(* Mutant: an ended case lends its rows its own status.                    *)
WritesAsCase(op) ==
  CASE op \in {"wait", "pause"} -> "paused"
    [] op = "end"              -> "ended"
    [] OTHER                   -> "running"

(* The status that the UPDATE gives a row.                                 *)
Writes(op) ==
  CASE op \in {"wait", "pause"} -> "paused"
    [] op = "end"              -> "cancelled"
    [] OTHER                   -> "running"

(* The UPDATE goes by id: the row's status is written over whatever it has *)
(* become.  A pause stops and a resume pushes back the deadline that the   *)
(* SELECT returned; nobody reads the deadline of a cancelled row.          *)
Written(i, r) ==
  [status |-> Writes(r.op), due |-> r.op # "end" /\ i \in r.due]

(* pause_sla and resume_sla look for the row of a policy and raise when    *)
(* there are two of them, which fails the whole request.                   *)
OnePerPolicy(rows) == \A i, j \in rows : plan[i].policy = plan[j].policy => i = j

(* Signals set flags; a completed workflow gets none.  The status_changed  *)
(* signal carries whether the new status is terminal.  The rescan flag     *)
(* only ends a wait that may also end by its timeout, and is left out.     *)
Signalled(c, wake, terminal) ==
  IF c.pc = "done" THEN c
  ELSE [c EXCEPT !.wake = @ \/ wake, !.terminal = @ \/ terminal]

(* The signals a request sends before it commits; they may be lost.        *)
Sends(wake, terminal) ==
  companion' = companion \/ companion' = Signalled(companion, wake, terminal)

Takes(q, op, rows, sent) ==
  /\ request[q] = NoRequest
  /\ request' = [request EXCEPT ![q] =
       [op |-> op, rows |-> rows, due |-> {i \in rows : row[i].due}, sent |-> sent]]
  /\ UNCHANGED <<plan, status, row, timer, overwritten>>
-----------------------------------------------------------------------------
(* The steps of a request: SELECT, UPDATE with the signals, commit.        *)

(* A new row: nothing is read, so the INSERT begins the transaction.       *)
Insert(q, i, wake) ==
  /\ i \in DOMAIN plan /\ row[i].status = "none"
  /\ \A o \in Slots : i \notin request[o].rows
  /\ Takes(q, "start", {i}, TRUE)
  /\ Sends(wake, FALSE)

(* start_stage_slas: not while the stage has a clock of the policy.        *)
StartStage(i) ==
  /\ Insert("case", i, FALSE)
  /\ \A j \in DOMAIN plan :
       plan[j].policy = plan[i].policy /\ plan[j].target = plan[i].target
         => row[j].status \notin Active

(* The start endpoints do not look.                                        *)
StartByHand(q, i) == "start" \in plan[i].byHand /\ Insert(q, i, TRUE)

(* _get_sla_or_404 wants one row of the policy, whatever its status.       *)
SelectByHand(q, i, op) ==
  /\ op \in plan[i].byHand
  /\ row[i].status \in Fits(op)
  /\ OnePerPolicy({j \in DOMAIN plan : row[j].status # "none"})
  /\ Takes(q, op, {i}, FALSE)
  /\ UNCHANGED companion

SelectAll(op) ==
  LET found == {i \in DOMAIN plan : row[i].status \in Fits(op)}
  IN  /\ op \in {"wait", "resume"} => OnePerPolicy(found)
      /\ Takes("case", op, found, FALSE)
      /\ UNCHANGED companion

SelectWait   == status = "open"    /\ SelectAll("wait")
SelectResume == status = "waiting" /\ SelectAll("resume")
SelectEnd    == status # "ended"   /\ SelectAll("end")

(* The rows whose locks a transaction holds.                               *)
Locked(i, q) == request[q].sent /\ i \in request[q].rows

(* The UPDATEs wait for the locks of others; the signals follow them.      *)
Update(q) ==
  /\ request[q] # NoRequest
  /\ ~request[q].sent
  /\ \A o \in Slots, i \in request[q].rows : ~Locked(i, o)
  /\ \A i \in request[q].rows : plan[i].races \/ row[i].status \in Fits(request[q].op)
  /\ request' = [request EXCEPT ![q].sent = TRUE]
  /\ Sends(TRUE, request[q].op = "end")
  /\ UNCHANGED <<plan, status, row, timer, overwritten>>

(* A request fails on the way to its UPDATE; nothing has been sent.        *)
Rollback(q) ==
  /\ request[q] # NoRequest
  /\ ~request[q].sent
  /\ request' = [request EXCEPT ![q] = NoRequest]
  /\ UNCHANGED <<plan, status, row, companion, timer, overwritten>>

(* A case leaves a terminal status: _restart_lifecycle_if_needed starts a  *)
(* new companion, which fails if the old one is still running, and the     *)
(* signal follows.                                                         *)
Reopen ==
  /\ status = "ended"
  /\ Hasty \/ companion.pc = "done" \/ ~companion.terminal
  /\ Takes("case", "reopen", {}, TRUE)
  /\ IF companion.pc = "done" THEN companion' = FreshCompanion({})
                              ELSE Sends(TRUE, FALSE)

Commit(q) ==
  LET r == request[q]
  IN  /\ r.sent
      /\ row' = [i \in Rows |-> IF i \in r.rows THEN Written(i, r) ELSE row[i]]
      /\ overwritten' =
           overwritten \cup {i \in r.rows : row[i].status \notin Fits(r.op)}
      /\ status' = CASE r.op = "wait" -> "waiting"
                     [] r.op \in {"resume", "reopen"} -> "open"
                     [] r.op = "end" -> "ended"
                     [] OTHER -> status
      /\ request' = [request EXCEPT ![q] = NoRequest]
      /\ UNCHANGED <<plan, companion, timer>>

(* The deadline of a running row passes; a paused row's is pushed back by  *)
(* resume_sla, so its clock stands still.                                  *)
Deadline(i) ==
  /\ row[i].status = "running"
  /\ ~row[i].due
  /\ row' = [row EXCEPT ![i].due = TRUE]
  /\ UNCHANGED <<plan, status, request, companion, timer, overwritten>>
-----------------------------------------------------------------------------
(* The companion.                                                          *)
Others == UNCHANGED <<plan, status, row, request, overwritten>>

(* A wake signal reaches the timers that are still running.                *)
WakeTimers(rows) ==
  timer' = [i \in Rows |->
    IF i \in rows /\ timer[i].pc \notin {"none", "done"}
    THEN [timer[i] EXCEPT !.wake = TRUE] ELSE timer[i]]

(* The top of the loop, once the case's transaction has had time to settle. *)
WakeAll ==
  /\ companion.pc \in {"settle", "resettle"}
  /\ companion' = [companion EXCEPT !.pc = "list", !.wake = FALSE]
  /\ WakeTimers(IF companion.wake THEN companion.known ELSE {})
  /\ Others

(* list_case_sla_timers reads what is committed; _start_timer: a timer that *)
(* already runs counts as started, one that has completed is run again.    *)
Rescan ==
  LET seen == {i \in Rows \ companion.known : row[i].status \notin {"none", "cancelled"}}
  IN  /\ companion.pc = "list"
      /\ timer' = [i \in Rows |->
           IF i \in seen /\ timer[i].pc \in {"none", "done"}
           THEN [pc |-> "check", wake |-> FALSE] ELSE timer[i]]
      /\ companion' = [companion EXCEPT !.pc = "finish", !.known = @ \cup seen]
      /\ Others

(* The end of an iteration: complete (and keep nothing), or wait.          *)
Finish ==
  /\ companion.pc = "finish"
  /\ IF companion.terminal
       THEN companion' = [FreshCompanion({}) EXCEPT !.pc = "done"] /\ WakeTimers(companion.known)
       ELSE companion' = [companion EXCEPT !.pc = "wait"] /\ UNCHANGED timer
  /\ Others

(* Mutant: no timeout on the wait, and entering a stage does not end it.   *)
AwaitSignal ==
  /\ companion.pc = "wait"
  /\ companion.wake \/ companion.terminal
  /\ companion' = [companion EXCEPT !.pc = "resettle"]
  /\ Others /\ UNCHANGED timer

(* wait_condition ends by a signal or by _RESCAN_INTERVAL.                 *)
Await ==
  /\ companion.pc = "wait"
  /\ companion' = [companion EXCEPT !.pc = "resettle"]
  /\ Others /\ UNCHANGED timer

(* continue-as-new hands over the known timers and drops the flags.        *)
ContinueAsNew ==
  /\ companion.pc = "resettle"
  /\ companion' = FreshCompanion(companion.known)
  /\ Others /\ UNCHANGED timer

CompanionStep == WakeAll \/ Rescan \/ Finish \/ Await
-----------------------------------------------------------------------------
(* The timer of one row.                                                   *)
TimerGoes(i, pc) ==
  timer' = [timer EXCEPT ![i] = [pc |-> pc, wake |-> timer[i].wake /\ pc # "done"]]
AllButTimer == Others /\ UNCHANGED companion

(* Mutant: a paused row ends its timer.                                    *)
CheckPausedEnds(i) ==
  /\ timer[i].pc = "check"
  /\ TimerGoes(i, IF row[i].status # "running" THEN "done"
                  ELSE IF row[i].due THEN "fire" ELSE "asleep")
  /\ AllButTimer

(* get_sla_timer_state: a cancelled or breached row ends the timer, a      *)
(* paused one sends it into the recheck sleep.                             *)
Check(i) ==
  /\ timer[i].pc = "check"
  /\ TimerGoes(i, CASE row[i].status \in {"none", "cancelled", "breached"} -> "done"
                    [] row[i].status = "paused" -> "idle"
                    [] OTHER -> IF row[i].due THEN "fire" ELSE "asleep")
  /\ AllButTimer

(* Mutant: the recheck sleep has no timeout.                               *)
WakeOnSignal(i) ==
  /\ timer[i].pc \in {"asleep", "idle"}
  /\ timer[i].pc = "idle" => timer[i].wake
  /\ timer' = [timer EXCEPT ![i] =
       [pc |-> IF timer[i].wake \/ timer[i].pc = "idle" THEN "check" ELSE "fire",
        wake |-> FALSE]]
  /\ AllButTimer

(* _sleep_or_wake: a signal or the timeout; after the sleep towards an     *)
(* event that no signal cut short, the timer fires without looking again.  *)
Wake(i) ==
  /\ timer[i].pc \in {"asleep", "idle"}
  /\ timer' = [timer EXCEPT ![i] =
       [pc |-> IF timer[i].wake \/ timer[i].pc = "idle" THEN "check" ELSE "fire",
        wake |-> FALSE]]
  /\ AllButTimer

(* fire_sla_event reads the row and applies what is due; the write is by   *)
(* id, at the activity's commit, over whatever the row holds by then.      *)
FireRead(i) ==
  /\ timer[i].pc = "fire"
  /\ TimerGoes(i, IF row[i].status = "running" /\ row[i].due THEN "write" ELSE "check")
  /\ AllButTimer

FireWrite(i) ==
  /\ timer[i].pc = "write"
  /\ \A q \in Slots : ~Locked(i, q)
  /\ row' = [row EXCEPT ![i] = [status |-> "breached", due |-> FALSE]]
  /\ TimerGoes(i, "check")
  /\ UNCHANGED <<plan, status, request, companion, overwritten>>

TimerStep(i) == Check(i) \/ Wake(i) \/ FireRead(i) \/ FireWrite(i)
-----------------------------------------------------------------------------
CaseRequest ==
  \/ \E i \in Rows : StartStage(i)
  \/ SelectWait \/ SelectResume \/ SelectEnd \/ Reopen

HandRequest(q) ==
  \E i \in DOMAIN plan :
    StartByHand(q, i) \/ SelectByHand(q, i, "pause") \/ SelectByHand(q, i, "unpause")

Next ==
  \/ CaseRequest
  \/ \E q \in Hands : HandRequest(q)
  \/ \E q \in Slots : Update(q) \/ Rollback(q) \/ Commit(q)
  \/ \E i \in Rows : Deadline(i) \/ TimerStep(i)
  \/ CompanionStep \/ ContinueAsNew

Spec == Init /\ [][Next]_vars

(* Temporal retries every activity and keeps every durable sleep; a        *)
(* request that holds locks commits.  No fairness for requests to come or  *)
(* to go on, for signals to arrive, or for deadlines.                      *)
Fairness ==
  /\ \A q \in Slots : WF_vars(Commit(q))
  /\ WF_vars(CompanionStep)
  /\ \A i \in Rows : WF_vars(TimerStep(i))

FairSpec == Spec /\ Fairness
-----------------------------------------------------------------------------
Running(i) == row[i].status = "running" /\ status = "open"

(* A missed signal delays the creation of a timer but never loses it: on   *)
(* an open case every running row gets its timer, unless it stops running. *)
NoTimerLost == \A i \in Rows : Running(i) ~> (timer[i].pc # "none" \/ ~Running(i))

(* A deadline that passes on an open case is noticed: no timer sleeps for  *)
(* ever after a pause, a lost wake-up or a deadline it did not know of.    *)
(* The one exception is a row that was written over (OverwrittenNoticed).  *)
DeadlineNoticed ==
  \A i \in Rows :
    (Running(i) /\ row[i].due) ~> (~(Running(i) /\ row[i].due) \/ i \in overwritten)

(* A timer workflow completes only when its clock is over: whatever wakes  *)
(* it and whatever commits around its reads, no row that can still run is  *)
(* left without its timer, unless a request has written over the row.      *)
DoneMeansOver ==
  \A i \in Rows : timer[i].pc = "done" =>
    row[i].status \in {"cancelled", "breached"} \/ i \in overwritten
-----------------------------------------------------------------------------
(* What the code does not keep.  TLC refutes each of these.                *)

(* A cancelled clock stays cancelled.  A firing that has read the row      *)
(* before the cancellation commits writes over it, and so does a pause or  *)
(* a resume by hand.                                                       *)
CancelledStays ==
  [][\A i \in Rows : row[i].status = "cancelled" => row'[i].status = "cancelled"]_vars

(* A clock that is over does not run again.  A pause selects a running     *)
(* row, a firing commits breached, and the UPDATE writes paused over it.   *)
BreachStays ==
  [][\A i \in Rows : row[i].status = "breached" => row'[i].status = "breached"]_vars

(* The completed timer of such a row is in known and never starts again:   *)
(* the deadline of the resumed clock passes and nobody notices.            *)
OverwrittenNoticed ==
  \A i \in Rows : (Running(i) /\ row[i].due) ~> ~(Running(i) /\ row[i].due)

(* No policy has two clocks that run, as pause_sla and resume_sla expect.  *)
OneClockPerPolicy == OnePerPolicy({i \in DOMAIN plan : row[i].status \in Active})
=============================================================================
