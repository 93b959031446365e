------------------------------- MODULE Scheduler -------------------------------
(***************************************************************************)
(* The timetable of unattended actions: schedules that are written, edited *)
(* and approved over HTTP, claimed by every scheduler loop when due, and   *)
(* fired one after another by the loop that won them.                      *)
(*                                                                         *)
(* A request that changes a schedule loads its row, awaits the validation  *)
(* of the action, and then writes: two steps here, between which others    *)
(* run.  Loops are replicas that share only the table.                     *)
(*                                                                         *)
(* Abstractions.  A config stands for cron line, time zone, action kind    *)
(* and action_config together.  Time counts units of the wall clock; the   *)
(* clocks go back by FoldLen once, at FoldAt.  A cron line is the table of *)
(* the wall times it matches next.  The at most 20 rows of one claim are   *)
(* all the schedules there are.                                            *)
(***************************************************************************)
EXTENDS Naturals

CONSTANTS
  Schedules,
  Users,
  Loops,         \* scheduler loops, one per replica
  Configs,
  Author,        \* Author[s]: created_by
  FirstConfig,   \* FirstConfig[s]: what s is created with
  NextMatch,     \* NextMatch[c][w]: the first wall time after w that c matches
  NoOne,
  MissedWindow,
  FoldAt, FoldLen,
  MaxTime, MaxStops,
  MaxRequests    \* bound on the requests of one run

Times == 0..MaxTime

ASSUME SchedulerAssumption ==
  /\ Author \in [Schedules -> Users]
  /\ FirstConfig \in [Schedules -> Configs]
  /\ NoOne \notin Users
  /\ MaxTime \in Nat /\ MissedWindow \in Nat
  /\ FoldAt \in Nat /\ FoldLen \in 0..FoldAt
  /\ MaxStops \in Nat /\ MaxRequests \in Nat
  /\ NextMatch \in [Configs -> [Times -> Nat]]
  /\ \A c \in Configs, w \in Times : NextMatch[c][w] > w

VARIABLES
  sched,     \* sched[s]: the row, with "reviewed", the config its approver saw
  req,       \* req[u]: the request of u that has loaded a row, if any
  loop,      \* loop[l]: a tick in progress
  claimed,   \* claimed[s]: the due times of s that were claimed
  recorded,  \* recorded[s]: the due times that have a row in schedule_runs
  now,
  stops,
  requests,  \* requests so far
  crossed    \* history: schedules last written by a request that had loaded
             \* an older version of them

vars == <<sched, req, loop, claimed, recorded, now, stops, requests, crossed>>

NoRun == 0     \* next_run_at IS NULL

Row == [status : {"draft", "active", "disabled", "deleted"}, config : Configs,
        editedBy : Users \cup {NoOne}, approvedBy : Users \cup {NoOne},
        nextRun : Nat, reviewed : Configs]
Due == [s : Schedules, due : Nat, following : Nat, missed : BOOLEAN]
Request == [op : {"approve", "edit", "disable"}, s : Schedules, snap : Row,
            config : Configs]
Tick == [pc : {"idle", "claim", "fire", "record"}, seen : SUBSET Due, queue : SUBSET Due,
         current : SUBSET Due]

TypeOK ==
  /\ sched \in [Schedules -> Row]
  /\ req \in [Users -> SUBSET Request]
  /\ loop \in [Loops -> Tick]
  /\ claimed \in [Schedules -> SUBSET Nat]
  /\ recorded \in [Schedules -> SUBSET Nat]
  /\ now \in Times
  /\ stops \in 0..MaxStops
  /\ requests \in 0..MaxRequests
  /\ crossed \subseteq Schedules

(* create_schedule has happened: a draft of its author.                    *)
NewSchedule(s) ==
  [status |-> "draft", config |-> FirstConfig[s], editedBy |-> NoOne,
   approvedBy |-> NoOne, nextRun |-> NoRun, reviewed |-> FirstConfig[s]]

TickState(pc, seen, queue, current) ==
  [pc |-> pc, seen |-> seen, queue |-> queue, current |-> current]
Idle == TickState("idle", {}, {}, {})

Init ==
  /\ sched = [s \in Schedules |-> NewSchedule(s)]
  /\ req = [u \in Users |-> {}]
  /\ loop = [l \in Loops |-> Idle]
  /\ claimed = [s \in Schedules |-> {}]
  /\ recorded = [s \in Schedules |-> {}]
  /\ now = 0
  /\ stops = 0
  /\ requests = 0
  /\ crossed = {}
-----------------------------------------------------------------------------
(* The wall clock, and the instant of a wall time: an ambiguous wall time  *)
(* is taken to be the first of its two instants.                           *)
Wall(t)    == IF t < FoldAt THEN t ELSE t - FoldLen
Instant(w) == IF w < FoldAt THEN w ELSE w + FoldLen

(* Mutant: the search starts at the present minute.                        *)
NextAfterOrNow(c, t) == IF t > 0 THEN NextMatch[c][t - 1] ELSE NextMatch[c][t]

(* CronExpression.next_after, on the naive wall clock.                     *)
NextAfter(c, t) == Instant(NextMatch[c][Wall(t)])

(* SQLAlchemy's flush: an UPDATE of the attributes whose value differs     *)
(* from the one that was loaded; the others keep what is in the table.     *)
Flush(stored, snap, new) ==
  [status     |-> IF new.status = snap.status THEN stored.status ELSE new.status,
   config     |-> IF new.config = snap.config THEN stored.config ELSE new.config,
   editedBy   |-> IF new.editedBy = snap.editedBy THEN stored.editedBy ELSE new.editedBy,
   approvedBy |-> IF new.approvedBy = snap.approvedBy THEN stored.approvedBy
                  ELSE new.approvedBy,
   nextRun    |-> IF new.nextRun = snap.nextRun THEN stored.nextRun ELSE new.nextRun,
   reviewed   |-> new.reviewed]

(* The first half of approve, edit and disable: _load_or_404.              *)
Load(u, op, s, c) ==
  /\ sched[s].status # "deleted"
  /\ req[u] = {}
  /\ requests < MaxRequests
  /\ requests' = requests + 1
  /\ req' = [req EXCEPT ![u] = {[op |-> op, s |-> s, snap |-> sched[s], config |-> c]}]
  /\ UNCHANGED <<sched, loop, claimed, recorded, now, stops, crossed>>

(* The row is still what a request has loaded, next_run_at aside.          *)
SameReview(stored, snap) ==
  /\ stored.status = snap.status /\ stored.config = snap.config
  /\ stored.editedBy = snap.editedBy /\ stored.approvedBy = snap.approvedBy

(* The second half: what the handler makes of the row it loaded is flushed.*)
(* A row deleted in between fails the request.                             *)
Save(u, r, new) ==
  /\ sched' = IF sched[r.s].status = "deleted" THEN sched
              ELSE [sched EXCEPT ![r.s] = Flush(sched[r.s], r.snap, new)]
  /\ crossed' = IF SameReview(sched[r.s], r.snap) THEN crossed \ {r.s}
                                                  ELSE crossed \cup {r.s}
  /\ req' = [req EXCEPT ![u] = {}]
  /\ UNCHANGED <<loop, claimed, recorded, now, stops, requests>>

(* A request that ends without a write.                                    *)
Refuse(u) ==
  /\ req' = [req EXCEPT ![u] = {}]
  /\ UNCHANGED <<sched, loop, claimed, recorded, now, stops, requests, crossed>>

(* Mutant: only the author is kept from approving.                         *)
MayApproveOthersWork(u, r) == r.snap.status # "active" /\ u # Author[r.s]

(* The three refusals of approve.                                          *)
MayApprove(u, r) ==
  /\ r.snap.status # "active"
  /\ u # Author[r.s]
  /\ u # r.snap.editedBy

(* approve_schedule; the action may also fail its validation.              *)
Approve(u, r) ==
  /\ r \in req[u]
  /\ r.op = "approve"
  /\ \/ /\ MayApprove(u, r)
        /\ Save(u, r, [status |-> "active", config |-> r.snap.config,
                       editedBy |-> r.snap.editedBy, approvedBy |-> u,
                       nextRun |-> NextAfter(r.snap.config, now),
                       reviewed |-> r.snap.config])
     \/ Refuse(u)

(* update_schedule: saving nothing new changes nothing, any change that    *)
(* validates makes the schedule a draft again.                             *)
Edit(u, r) ==
  /\ r \in req[u]
  /\ r.op = "edit"
  /\ \/ /\ r.config # r.snap.config
        /\ Save(u, r, [status |-> "draft", config |-> r.config, editedBy |-> u,
                       approvedBy |-> NoOne, nextRun |-> NoRun,
                       reviewed |-> sched[r.s].reviewed])
     \/ Refuse(u)

(* Mutant: a status that is not one of STATUSES.                           *)
DisableUnknown(u, r) ==
  /\ r \in req[u]
  /\ r.op = "disable"
  /\ Save(u, r, [status |-> "inactive", config |-> r.snap.config,
                 editedBy |-> r.snap.editedBy, approvedBy |-> r.snap.approvedBy,
                 nextRun |-> NoRun, reviewed |-> sched[r.s].reviewed])

(* disable_schedule.                                                       *)
Disable(u, r) ==
  /\ r \in req[u]
  /\ r.op = "disable"
  /\ Save(u, r, [status |-> "disabled", config |-> r.snap.config,
                 editedBy |-> r.snap.editedBy, approvedBy |-> r.snap.approvedBy,
                 nextRun |-> NoRun, reviewed |-> sched[r.s].reviewed])

Gone(s) ==
  [status |-> "deleted", config |-> FirstConfig[s], editedBy |-> NoOne,
   approvedBy |-> NoOne, nextRun |-> NoRun, reviewed |-> FirstConfig[s]]

(* delete_schedule: the run history goes with the row.                     *)
Delete(s) ==
  /\ sched[s].status # "deleted"
  /\ sched' = [sched EXCEPT ![s] = Gone(s)]
  /\ recorded' = [recorded EXCEPT ![s] = {}]
  /\ UNCHANGED <<req, loop, claimed, now, stops, requests, crossed>>
-----------------------------------------------------------------------------
IsDue(s) == sched[s].status = "active" /\ sched[s].nextRun # NoRun /\ sched[s].nextRun <= now

Seen(s) ==
  [s |-> s, due |-> sched[s].nextRun, following |-> NextAfter(sched[s].config, now),
   missed |-> now - sched[s].nextRun > MissedWindow]

(* claim_due reads the due rows, works out when each is due next ...       *)
ClaimRead(l) ==
  /\ loop[l].pc = "idle"
  /\ \E s \in Schedules : IsDue(s)
  /\ loop' = [loop EXCEPT ![l] =
       TickState("claim", {Seen(s) : s \in {x \in Schedules : IsDue(x)}}, {}, {})]
  /\ UNCHANGED <<sched, req, claimed, recorded, now, stops, requests, crossed>>

(* Mutant: the UPDATE does not name the next_run_at that was read.         *)
WinsUnconditionally(d) == sched[d.s].status = "active"

(* The WHERE clause of the conditional UPDATE.                             *)
Wins(d) == sched[d.s].status = "active" /\ sched[d.s].nextRun = d.due

WithNextRun(row, t) ==
  [status |-> row.status, config |-> row.config, editedBy |-> row.editedBy,
   approvedBy |-> row.approvedBy, nextRun |-> t, reviewed |-> row.reviewed]

(* ... and moves the rows that are still as it read them on to their next  *)
(* run; tick commits.                                                      *)
ClaimUpdate(l) ==
  LET won == {d \in loop[l].seen : Wins(d)}
  IN
  /\ loop[l].pc = "claim"
  /\ sched' = [s \in Schedules |->
       IF \E d \in won : d.s = s
       THEN WithNextRun(sched[s], (CHOOSE d \in won : d.s = s).following)
       ELSE sched[s]]
  /\ loop' = [loop EXCEPT ![l] =
       TickState(IF won = {} THEN "idle" ELSE "fire", {}, won, {})]
  /\ claimed' = [s \in Schedules |-> claimed[s] \cup {d.due : d \in {x \in won : x.s = s}}]
  /\ UNCHANGED <<req, recorded, now, stops, requests, crossed>>

First(l, d) == d \in loop[l].queue /\ \A e \in loop[l].queue : d.due <= e.due

Dequeued(l, d, pc, current) ==
  LET rest == loop[l].queue \ {d}
  IN  TickState(IF pc = "fire" /\ rest = {} THEN "idle" ELSE pc, {}, rest, current)

(* _fire without running anything: the row is gone, or its window was      *)
(* missed and the skip is recorded.                                        *)
FireSkipped(l, d) ==
  /\ loop[l].pc = "fire"
  /\ First(l, d)
  /\ d.missed \/ sched[d.s].status = "deleted"
  /\ recorded' = IF sched[d.s].status = "deleted" THEN recorded
                 ELSE [recorded EXCEPT ![d.s] = @ \cup {d.due}]
  /\ loop' = [loop EXCEPT ![l] = Dequeued(l, d, "fire", {})]
  /\ UNCHANGED <<sched, req, claimed, now, stops, requests, crossed>>

(* _fire loads the row again and runs the action it finds there.           *)
FireRun(l, d) ==
  /\ loop[l].pc = "fire"
  /\ First(l, d)
  /\ ~d.missed
  /\ sched[d.s].status # "deleted"
  /\ loop' = [loop EXCEPT ![l] = Dequeued(l, d, "record", {d})]
  /\ UNCHANGED <<sched, req, claimed, recorded, now, stops, requests, crossed>>

(* record_run after the action, whether it succeeded, failed or timed out. *)
(* For a schedule deleted meanwhile it raises and the tick ends there.     *)
FireRecord(l) ==
  /\ loop[l].pc = "record"
  /\ \E d \in loop[l].current :
       IF sched[d.s].status = "deleted"
       THEN /\ loop' = [loop EXCEPT ![l] = Idle]
            /\ UNCHANGED recorded
       ELSE /\ loop' = [loop EXCEPT ![l] =
                 TickState(IF loop[l].queue = {} THEN "idle" ELSE "fire", {},
                           loop[l].queue, {})]
            /\ recorded' = [recorded EXCEPT ![d.s] = @ \cup {d.due}]
  /\ UNCHANGED <<sched, req, claimed, now, stops, requests, crossed>>

(* The process of a loop dies and starts again.                            *)
Stop(l) ==
  /\ loop[l].pc # "idle"
  /\ stops < MaxStops
  /\ stops' = stops + 1
  /\ loop' = [loop EXCEPT ![l] = Idle]
  /\ UNCHANGED <<sched, req, claimed, recorded, now, requests, crossed>>

TimePasses ==
  /\ now < MaxTime
  /\ now' = now + 1
  /\ UNCHANGED <<sched, req, loop, claimed, recorded, stops, requests, crossed>>

LoopStep(l) ==
  \/ ClaimRead(l) \/ ClaimUpdate(l) \/ FireRecord(l)
  \/ \E d \in loop[l].queue : FireSkipped(l, d) \/ FireRun(l, d)

Next ==
  \/ \E u \in Users, s \in Schedules :
       \/ Load(u, "approve", s, sched[s].config)
       \/ Load(u, "disable", s, sched[s].config)
       \/ \E c \in Configs : Load(u, "edit", s, c)
  \/ \E u \in Users : \E r \in req[u] : Approve(u, r) \/ Edit(u, r) \/ Disable(u, r)
  \/ \E s \in Schedules : Delete(s)
  \/ \E l \in Loops : LoopStep(l) \/ Stop(l)
  \/ TimePasses

Spec == Init /\ [][Next]_vars

(* Every replica's loop ticks on while its process lives; actions are      *)
(* bounded by a timeout, so a firing always comes to its record.           *)
FairSpec == Spec /\ \A l \in Loops : WF_vars(LoopStep(l))
-----------------------------------------------------------------------------
(* An occurrence is claimed once: not by two loops that read the same row, *)
(* not again after an edit, a disable and a new approval, not after a      *)
(* restart.                                                                *)
ClaimedOnce ==
  [][\A l \in Loops : loop[l].pc = "claim" /\ loop'[l].pc = "fire" =>
       \A d \in loop'[l].queue : d.due \notin claimed[d.s]]_vars

Reviewed(s) ==
  /\ sched[s].config = sched[s].reviewed
  /\ sched[s].approvedBy \notin {NoOne, Author[s], sched[s].editedBy}

(* The review gate, under requests that overlap: what is active was        *)
(* approved as it stands, and neither its author nor its last editor is    *)
(* the approver, unless the request that wrote the row last had loaded     *)
(* another version of it.                                                  *)
ActiveIsReviewed ==
  \A s \in Schedules : sched[s].status = "active" => Reviewed(s) \/ s \in crossed

(* The timetable never gets stuck: a due run is claimed by some loop, or   *)
(* the schedule is taken out of service, whatever happened to the actions  *)
(* claimed before it.                                                      *)
TimetableMoves ==
  \A s \in Schedules, t \in Times :
    (IsDue(s) /\ sched[s].nextRun = t) ~> (sched[s].nextRun # t \/ sched[s].status # "active")

(* Without that exception: an approval and an edit that overlap leave an   *)
(* active schedule that nobody approved as it stands.                      *)
GateHolds == \A s \in Schedules : sched[s].status = "active" => Reviewed(s)

(* "A schedule is draft until somebody who is not its author approves it": *)
(* an action runs only while its schedule is active.                       *)
RunsOnlyWhileActive ==
  [][\A l \in Loops : \A d \in loop'[l].current :
       loop[l].pc = "fire" => sched[d.s].status = "active"]_vars

(* "One bad schedule must not stop every other schedule", and every firing *)
(* is written down, "including the ones that did nothing": what was        *)
(* claimed is recorded, unless the schedule itself is deleted.             *)
ClaimedIsRecorded ==
  \A s \in Schedules, t \in Times :
    t \in claimed[s] ~> (t \in recorded[s] \/ sched[s].status = "deleted")
=============================================================================
