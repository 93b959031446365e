---------------------------- MODULE SchedulerProofs ----------------------------
(***************************************************************************)
(* Proofs about Scheduler, for any number of schedules, users and loops,   *)
(* with overlapping requests and loops that stop.                          *)
(*                                                                         *)
(* ClaimedOnce rests on the order of times: what was claimed lies in the   *)
(* past and before next_run_at, and every value given to next_run_at lies  *)
(* after the present.  It needs a wall clock that is never set back        *)
(* (FoldLen = 0): section 4 of the README has a violation when it is.      *)
(***************************************************************************)
EXTENDS Scheduler, TLAPS

(* next_after is later than the instant it is given.                       *)
LEMMA NextAfterLater ==
  ASSUME FoldLen = 0, NEW c \in Configs, NEW t \in Times
  PROVE  NextAfter(c, t) \in Nat /\ NextAfter(c, t) > t
  <1>1. Wall(t) = t
    BY SchedulerAssumption DEF Wall, Times
  <1>2. NextMatch[c][t] \in Nat /\ NextMatch[c][t] > t
    BY SchedulerAssumption DEF Times
  <1>. QED  BY <1>1, <1>2, SchedulerAssumption DEF NextAfter, Instant

(* next_after is a time, also when the clocks go back.                     *)
LEMMA NextAfterType ==
  ASSUME NEW c \in Configs, NEW t \in Times
  PROVE  NextAfter(c, t) \in Nat
  <1>1. Wall(t) \in Times
    BY SchedulerAssumption DEF Wall, Times
  <1>2. NextMatch[c][Wall(t)] \in Nat
    BY <1>1, SchedulerAssumption DEF Times
  <1>. QED  BY <1>2, SchedulerAssumption DEF NextAfter, Instant

(* A flush of well-typed rows is a well-typed row.                         *)
LEMMA FlushType ==
  ASSUME NEW stored \in Row, NEW snap \in Row, NEW new \in Row
  PROVE  Flush(stored, snap, new) \in Row
  BY DEF Flush, Row

(* The fields of a row.                                                    *)
LEMMA RowFields ==
  ASSUME NEW r \in Row
  PROVE  /\ r.status \in {"draft", "active", "disabled", "deleted"}
         /\ r.config \in Configs
         /\ r.editedBy \in Users \cup {NoOne}
         /\ r.approvedBy \in Users \cup {NoOne}
         /\ r.nextRun \in Nat
         /\ r.reviewed \in Configs
  BY DEF Row

LEMMA NewScheduleType ==
  ASSUME NEW s \in Schedules
  PROVE  NewSchedule(s) \in Row /\ Gone(s) \in Row
  BY SchedulerAssumption DEF NewSchedule, Gone, Row, NoRun

(* The parts of a tick's state.                                            *)
LEMMA TickFields ==
  ASSUME NEW pc, NEW seen, NEW queue, NEW current
  PROVE  /\ TickState(pc, seen, queue, current).pc = pc
         /\ TickState(pc, seen, queue, current).seen = seen
         /\ TickState(pc, seen, queue, current).queue = queue
         /\ TickState(pc, seen, queue, current).current = current
  BY DEF TickState

LEMMA TickType ==
  ASSUME NEW pc \in {"idle", "claim", "fire", "record"}, NEW seen \in SUBSET Due,
         NEW queue \in SUBSET Due, NEW current \in SUBSET Due
  PROVE  TickState(pc, seen, queue, current) \in Tick
  BY DEF TickState, Tick

(* A request that is refused leaves everything but itself.                 *)
LEMMA RefuseType ==
  ASSUME TypeOK, NEW u \in Users, Refuse(u)
  PROVE  TypeOK'
  BY DEF TypeOK, Refuse

(* What a handler saves is a row, so the table stays well-typed.           *)
LEMMA SaveType ==
  ASSUME TypeOK, NEW u \in Users, NEW r \in req[u], NEW new \in Row, Save(u, r, new)
  PROVE  TypeOK'
  <1>1. r \in Request
    BY DEF TypeOK
  <1>2. r.s \in Schedules /\ r.snap \in Row
    BY <1>1 DEF Request
  <1>3. Flush(sched[r.s], r.snap, new) \in Row
    BY <1>2, FlushType DEF TypeOK
  <1>4. sched' \in [Schedules -> Row]
    BY <1>2, <1>3 DEF TypeOK, Save
  <1>5. req' \in [Users -> SUBSET Request]
    BY DEF TypeOK, Save
  <1>6. crossed' \subseteq Schedules
    BY <1>2 DEF TypeOK, Save
  <1>. QED  BY <1>4, <1>5, <1>6 DEF TypeOK, Save

(* Type correctness of the timetable.                                      *)
LEMMA TypeStep == TypeOK /\ [Next]_vars => TypeOK'
  <1>. SUFFICES ASSUME TypeOK, [Next]_vars PROVE TypeOK'
    OBVIOUS
  <1>a. Idle \in Tick
    BY TickType DEF Idle
  <1>1. ASSUME NEW u \in Users, NEW s \in Schedules, NEW c \in Configs,
               NEW op \in {"approve", "edit", "disable"}, Load(u, op, s, c)
        PROVE  TypeOK'
    <2>1. [op |-> op, s |-> s, snap |-> sched[s], config |-> c] \in Request
      BY DEF TypeOK, Request
    <2>2. requests' \in 0..MaxRequests
      BY <1>1, SchedulerAssumption DEF TypeOK, Load
    <2>. QED  BY <1>1, <2>1, <2>2 DEF TypeOK, Load
  <1>2. ASSUME NEW u \in Users, NEW r \in req[u], Approve(u, r)
        PROVE  TypeOK'
    <2>1. r.s \in Schedules /\ r.snap \in Row
      BY DEF TypeOK, Request
    <2>2. r.snap.config \in Configs /\ r.snap.editedBy \in Users \cup {NoOne}
          /\ sched[r.s].reviewed \in Configs
      BY <2>1, RowFields DEF TypeOK
    <2>3. NextAfter(r.snap.config, now) \in Nat
      BY <2>2, NextAfterType DEF TypeOK
    <2>4. [status |-> "active", config |-> r.snap.config,
           editedBy |-> r.snap.editedBy, approvedBy |-> u,
           nextRun |-> NextAfter(r.snap.config, now), reviewed |-> r.snap.config] \in Row
      BY <2>2, <2>3 DEF Row
    <2>. QED  BY <1>2, <2>4, SaveType, RefuseType DEF Approve
  <1>3. ASSUME NEW u \in Users, NEW r \in req[u], Edit(u, r)
        PROVE  TypeOK'
    <2>1. r.s \in Schedules /\ r.snap \in Row /\ r.config \in Configs
      BY DEF TypeOK, Request
    <2>2. sched[r.s].reviewed \in Configs
      BY <2>1, RowFields DEF TypeOK
    <2>3. [status |-> "draft", config |-> r.config, editedBy |-> u, approvedBy |-> NoOne,
           nextRun |-> NoRun, reviewed |-> sched[r.s].reviewed] \in Row
      BY <2>1, <2>2 DEF Row, NoRun
    <2>. QED  BY <1>3, <2>3, SaveType, RefuseType DEF Edit
  <1>4. ASSUME NEW u \in Users, NEW r \in req[u], Disable(u, r)
        PROVE  TypeOK'
    <2>1. r.s \in Schedules /\ r.snap \in Row
      BY DEF TypeOK, Request
    <2>2. sched[r.s].reviewed \in Configs
      BY <2>1, RowFields DEF TypeOK
    <2>3. [status |-> "disabled", config |-> r.snap.config, editedBy |-> r.snap.editedBy,
           approvedBy |-> r.snap.approvedBy, nextRun |-> NoRun,
           reviewed |-> sched[r.s].reviewed] \in Row
      BY <2>1, <2>2, RowFields DEF Row, NoRun
    <2>. QED  BY <1>4, <2>3, SaveType DEF Disable
  <1>5. ASSUME NEW s \in Schedules, Delete(s)
        PROVE  TypeOK'
    <2>1. sched' \in [Schedules -> Row]
      BY <1>5, NewScheduleType DEF TypeOK, Delete
    <2>2. recorded' \in [Schedules -> SUBSET Nat]
      BY <1>5 DEF TypeOK, Delete
    <2>. QED  BY <1>5, <2>1, <2>2 DEF TypeOK, Delete
  <1>6. ASSUME NEW l \in Loops, LoopStep(l) \/ Stop(l)
        PROVE  TypeOK'
    <2>0. loop[l] \in Tick /\ loop[l].seen \subseteq Due /\ loop[l].queue \subseteq Due
          /\ loop[l].current \subseteq Due
      BY DEF TypeOK, Tick
    <2>1. CASE ClaimRead(l)
      <3>1. ASSUME NEW s \in Schedules
            PROVE  Seen(s) \in Due
        <4>1. sched[s].nextRun \in Nat /\ sched[s].config \in Configs
          BY RowFields DEF TypeOK
        <4>2. NextAfter(sched[s].config, now) \in Nat
          BY <4>1, NextAfterType DEF TypeOK
        <4>. QED  BY <4>1, <4>2 DEF Seen, Due
      <3>2. {Seen(s) : s \in {x \in Schedules : IsDue(x)}} \in SUBSET Due
        BY <3>1
      <3>3. TickState("claim", {Seen(s) : s \in {x \in Schedules : IsDue(x)}}, {}, {}) \in Tick
        BY <3>2, TickType
      <3>4. loop' \in [Loops -> Tick]
        BY <2>1, <3>3 DEF TypeOK, ClaimRead
      <3>. QED  BY <2>1, <3>4 DEF TypeOK, ClaimRead
    <2>2. CASE ClaimUpdate(l)
      <3>. DEFINE won == {d \in loop[l].seen : Wins(d)}
      <3>1. won \subseteq Due
        BY <2>0
      <3>2. TickState(IF won = {} THEN "idle" ELSE "fire", {}, won, {}) \in Tick
        BY <3>1, TickType
      <3>3. loop' \in [Loops -> Tick]
        BY <2>2, <3>2 DEF TypeOK, ClaimUpdate
      <3>4. ASSUME NEW s \in Schedules
            PROVE  sched'[s] \in Row /\ claimed'[s] \in SUBSET Nat
        <4>1. ASSUME \E d \in won : d.s = s
              PROVE  sched'[s] \in Row
          <5>1. (CHOOSE d \in won : d.s = s) \in won
            BY <4>1
          <5>2. (CHOOSE d \in won : d.s = s).following \in Nat
            BY <5>1, <3>1 DEF Due
          <5>3. sched'[s] = WithNextRun(sched[s], (CHOOSE d \in won : d.s = s).following)
            BY <2>2, <4>1 DEF ClaimUpdate
          <5>4. sched[s] \in Row
            BY DEF TypeOK
          <5>. QED  BY <5>2, <5>3, <5>4 DEF Row, WithNextRun
        <4>2. ASSUME ~ \E d \in won : d.s = s
              PROVE  sched'[s] \in Row
          BY <2>2, <4>2 DEF TypeOK, ClaimUpdate
        <4>3. claimed'[s] = claimed[s] \cup {d.due : d \in {x \in won : x.s = s}}
          BY <2>2 DEF ClaimUpdate
        <4>4. {d.due : d \in {x \in won : x.s = s}} \subseteq Nat
          BY <3>1 DEF Due
        <4>. QED  BY <4>1, <4>2, <4>3, <4>4 DEF TypeOK
      <3>5. sched' \in [Schedules -> Row] /\ claimed' \in [Schedules -> SUBSET Nat]
        BY <2>2, <3>4 DEF ClaimUpdate
      <3>. QED  BY <2>2, <3>3, <3>5 DEF TypeOK, ClaimUpdate
    <2>3. ASSUME NEW d \in loop[l].queue, NEW pc \in {"fire", "record"},
                 NEW cur \in SUBSET Due
          PROVE  Dequeued(l, d, pc, cur) \in Tick
      BY <2>0, TickType DEF Dequeued
    <2>4. ASSUME NEW d \in loop[l].queue, FireSkipped(l, d)
          PROVE  TypeOK'
      <3>1. d.s \in Schedules /\ d.due \in Nat
        BY <2>0 DEF Due
      <3>2. recorded' \in [Schedules -> SUBSET Nat]
        BY <2>4, <3>1 DEF TypeOK, FireSkipped
      <3>3. Dequeued(l, d, "fire", {}) \in Tick
        BY <2>3
      <3>4. loop' \in [Loops -> Tick]
        BY <2>4, <3>3 DEF TypeOK, FireSkipped
      <3>. QED  BY <2>4, <3>2, <3>4 DEF TypeOK, FireSkipped
    <2>5. ASSUME NEW d \in loop[l].queue, FireRun(l, d)
          PROVE  TypeOK'
      <3>1. Dequeued(l, d, "record", {d}) \in Tick
        BY <2>0, <2>3
      <3>2. loop' \in [Loops -> Tick]
        BY <2>5, <3>1 DEF TypeOK, FireRun
      <3>. QED  BY <2>5, <3>2 DEF TypeOK, FireRun
    <2>6. CASE FireRecord(l)
      <3>1. PICK d \in loop[l].current :
                 IF sched[d.s].status = "deleted"
                 THEN /\ loop' = [loop EXCEPT ![l] = Idle]
                      /\ UNCHANGED recorded
                 ELSE /\ loop' = [loop EXCEPT ![l] =
                           TickState(IF loop[l].queue = {} THEN "idle" ELSE "fire", {},
                                     loop[l].queue, {})]
                      /\ recorded' = [recorded EXCEPT ![d.s] = @ \cup {d.due}]
        BY <2>6 DEF FireRecord
      <3>2. d.s \in Schedules /\ d.due \in Nat
        BY <2>0 DEF Due
      <3>3. TickState(IF loop[l].queue = {} THEN "idle" ELSE "fire", {},
                      loop[l].queue, {}) \in Tick
        BY <2>0, TickType
      <3>4. loop' \in [Loops -> Tick]
        BY <3>1, <3>3, <1>a DEF TypeOK
      <3>5. recorded' \in [Schedules -> SUBSET Nat]
        BY <3>1, <3>2 DEF TypeOK
      <3>. QED  BY <2>6, <3>4, <3>5 DEF TypeOK, FireRecord
    <2>7. CASE Stop(l)
      <3>1. loop' \in [Loops -> Tick]
        BY <2>7, <1>a DEF TypeOK, Stop
      <3>2. stops' \in 0..MaxStops
        BY <2>7, SchedulerAssumption DEF TypeOK, Stop
      <3>. QED  BY <2>7, <3>1, <3>2 DEF TypeOK, Stop
    <2>. QED  BY <1>6, <2>1, <2>2, <2>4, <2>5, <2>6, <2>7 DEF LoopStep
  <1>7. CASE TimePasses
    <2>1. now' \in Times
      BY <1>7, SchedulerAssumption DEF TypeOK, TimePasses, Times
    <2>. QED  BY <1>7, <2>1 DEF TypeOK, TimePasses
  <1>8. CASE UNCHANGED vars
    BY <1>8 DEF TypeOK, vars
  <1>9. \A s \in Schedules : sched[s].config \in Configs
    BY RowFields DEF TypeOK
  <1>. QED  BY <1>1, <1>2, <1>3, <1>4, <1>5, <1>6, <1>7, <1>8, <1>9 DEF Next

LEMMA InitType == Init => TypeOK
  <1>. SUFFICES ASSUME Init PROVE TypeOK
    OBVIOUS
  <1>1. sched \in [Schedules -> Row]
    BY NewScheduleType DEF Init
  <1>2. Idle \in Tick
    BY TickType DEF Idle
  <1>3. now \in Times /\ stops \in 0..MaxStops /\ requests \in 0..MaxRequests
    BY SchedulerAssumption DEF Init, Times
  <1>. QED  BY <1>1, <1>2, <1>3 DEF Init, TypeOK

(* The tables and the loops' state keep their types.                       *)
THEOREM TypeCorrect == Spec => []TypeOK
  BY InitType, TypeStep, PTL DEF Spec
-----------------------------------------------------------------------------
(* What was claimed is past, and before the next run; what a loop has read *)
(* as due is past, and its successor later.                                *)
ClaimsPast ==
  \A s \in Schedules : \A t \in claimed[s] :
    t <= now /\ (sched[s].nextRun # NoRun => t < sched[s].nextRun)
SeenPast ==
  \A l \in Loops : \A d \in loop[l].seen :
    d.due # NoRun /\ d.due <= now /\ d.due < d.following
ClaimOrder == ClaimsPast /\ SeenPast

(* A flush leaves next_run_at, clears it or sets the new value.            *)
LEMMA SaveOrder ==
  ASSUME TypeOK, ClaimOrder, NEW u \in Users, NEW r \in req[u], NEW new \in Row,
         new.nextRun = NoRun \/ new.nextRun > now, Save(u, r, new)
  PROVE  ClaimOrder'
  <1>1. r.s \in Schedules
    BY DEF TypeOK, Request
  <1>2. SeenPast'
    BY DEF ClaimOrder, SeenPast, Save
  <1>3. ASSUME NEW s \in Schedules, NEW t \in claimed[s]
        PROVE  t <= now /\ (sched'[s].nextRun # NoRun => t < sched'[s].nextRun)
    <2>1. t \in Nat /\ now \in Nat /\ t <= now
          /\ (sched[s].nextRun # NoRun => t < sched[s].nextRun)
      BY DEF TypeOK, ClaimOrder, ClaimsPast, Times
    <2>2. sched'[s].nextRun \in {sched[s].nextRun, new.nextRun}
      <3>1. sched'[s] = sched[s] \/ (s = r.s /\ sched'[s] = Flush(sched[s], r.snap, new))
        BY <1>1 DEF TypeOK, Save
      <3>2. Flush(sched[s], r.snap, new).nextRun \in {sched[s].nextRun, new.nextRun}
        BY DEF Flush
      <3>. QED  BY <3>1, <3>2
    <2>3. new.nextRun \in Nat
      BY RowFields
    <2>. QED  BY <2>1, <2>2, <2>3
  <1>4. ClaimsPast'
    BY <1>3 DEF ClaimsPast, Save
  <1>. QED  BY <1>2, <1>4 DEF ClaimOrder

(* Steps that leave next_run_at, the claims and what was read alone.       *)
LEMMA OrderKept ==
  ASSUME TypeOK, ClaimOrder, UNCHANGED <<claimed, sched>>, now' \in Nat, now' >= now,
         \A l \in Loops : loop'[l].seen \subseteq loop[l].seen
  PROVE  ClaimOrder'
  <1>1. now \in Nat
    BY DEF TypeOK, Times
  <1>2. \A s \in Schedules : claimed[s] \subseteq Nat
    BY DEF TypeOK
  <1>3. \A l \in Loops : \A d \in loop[l].seen : d.due \in Nat
    BY DEF TypeOK, Tick, Due
  <1>4. ClaimsPast'
    BY <1>1, <1>2 DEF ClaimOrder, ClaimsPast
  <1>5. SeenPast'
    BY <1>1, <1>3 DEF ClaimOrder, SeenPast
  <1>. QED  BY <1>4, <1>5 DEF ClaimOrder

LEMMA OrderStep ==
  ASSUME FoldLen = 0
  PROVE  TypeOK /\ ClaimOrder /\ [Next]_vars => ClaimOrder'
  <1>. SUFFICES ASSUME TypeOK, ClaimOrder, [Next]_vars PROVE ClaimOrder'
    OBVIOUS
  <1>a. now \in Nat /\ now \in Times
    BY DEF TypeOK, Times
  <1>1. ASSUME NEW u \in Users, NEW s \in Schedules, NEW c \in Configs,
               NEW op \in {"approve", "edit", "disable"}, Load(u, op, s, c)
        PROVE  ClaimOrder'
    BY <1>1, <1>a, OrderKept DEF Load
  <1>2. ASSUME NEW u \in Users, NEW r \in req[u], Approve(u, r)
        PROVE  ClaimOrder'
    <2>1. r.snap \in Row
      BY DEF TypeOK, Request
    <2>2. r.snap.config \in Configs /\ r.snap.editedBy \in Users \cup {NoOne}
      BY <2>1, RowFields
    <2>3. NextAfter(r.snap.config, now) \in Nat /\ NextAfter(r.snap.config, now) > now
      BY <1>a, <2>2, NextAfterLater
    <2>. DEFINE new == [status |-> "active", config |-> r.snap.config,
                        editedBy |-> r.snap.editedBy, approvedBy |-> u,
                        nextRun |-> NextAfter(r.snap.config, now),
                        reviewed |-> r.snap.config]
    <2>4. new \in Row
      BY <2>2, <2>3 DEF Row
    <2>5. new.nextRun > now
      BY <2>3
    <2>6. CASE Save(u, r, new)
      BY <2>4, <2>5, <2>6, SaveOrder
    <2>7. CASE Refuse(u)
      BY <2>7, <1>a, OrderKept DEF Refuse
    <2>. QED  BY <1>2, <2>6, <2>7 DEF Approve
  <1>3. ASSUME NEW u \in Users, NEW r \in req[u], Edit(u, r)
        PROVE  ClaimOrder'
    <2>1. r.s \in Schedules /\ r.config \in Configs
      BY DEF TypeOK, Request
    <2>2. sched[r.s].reviewed \in Configs
      BY <2>1, RowFields DEF TypeOK
    <2>. DEFINE new == [status |-> "draft", config |-> r.config, editedBy |-> u,
                        approvedBy |-> NoOne, nextRun |-> NoRun,
                        reviewed |-> sched[r.s].reviewed]
    <2>3. new \in Row /\ new.nextRun = NoRun
      BY <2>1, <2>2 DEF Row, NoRun
    <2>4. CASE Save(u, r, new)
      BY <2>3, <2>4, SaveOrder
    <2>5. CASE Refuse(u)
      BY <2>5, <1>a, OrderKept DEF Refuse
    <2>. QED  BY <1>3, <2>4, <2>5 DEF Edit
  <1>4. ASSUME NEW u \in Users, NEW r \in req[u], Disable(u, r)
        PROVE  ClaimOrder'
    <2>1. r.s \in Schedules /\ r.snap \in Row
      BY DEF TypeOK, Request
    <2>2. sched[r.s].reviewed \in Configs
      BY <2>1, RowFields DEF TypeOK
    <2>. DEFINE new == [status |-> "disabled", config |-> r.snap.config,
                        editedBy |-> r.snap.editedBy, approvedBy |-> r.snap.approvedBy,
                        nextRun |-> NoRun, reviewed |-> sched[r.s].reviewed]
    <2>3. new \in Row /\ new.nextRun = NoRun
      BY <2>1, <2>2, RowFields DEF Row, NoRun
    <2>. QED  BY <1>4, <2>3, SaveOrder DEF Disable
  <1>5. ASSUME NEW s \in Schedules, Delete(s)
        PROVE  ClaimOrder'
    <2>1. SeenPast'
      BY <1>5 DEF ClaimOrder, SeenPast, Delete
    <2>2. Gone(s).nextRun = NoRun
      BY DEF Gone
    <2>3. \A x \in Schedules : sched'[x].nextRun \in {sched[x].nextRun, NoRun}
      BY <1>5, <2>2 DEF TypeOK, Delete
    <2>4. ClaimsPast'
      BY <1>5, <2>3 DEF ClaimOrder, ClaimsPast, Delete
    <2>. QED  BY <2>1, <2>4 DEF ClaimOrder
  <1>6. ASSUME NEW l \in Loops, ClaimRead(l)
        PROVE  ClaimOrder'
    <2>1. ClaimsPast'
      BY <1>6 DEF ClaimOrder, ClaimsPast, ClaimRead
    <2>2. ASSUME NEW s \in Schedules, IsDue(s)
          PROVE  /\ Seen(s).due # NoRun /\ Seen(s).due <= now
                 /\ Seen(s).due < Seen(s).following
      <3>1. sched[s].nextRun \in Nat /\ sched[s].config \in Configs
        BY RowFields DEF TypeOK
      <3>2. NextAfter(sched[s].config, now) \in Nat /\ NextAfter(sched[s].config, now) > now
        BY <1>a, <3>1, NextAfterLater
      <3>3. sched[s].nextRun # NoRun /\ sched[s].nextRun <= now
        BY <2>2 DEF IsDue
      <3>4. Seen(s).due = sched[s].nextRun /\ Seen(s).following = NextAfter(sched[s].config, now)
        BY DEF Seen
      <3>. QED  BY <1>a, <3>1, <3>2, <3>3, <3>4
    <2>3. loop'[l].seen = {Seen(s) : s \in {x \in Schedules : IsDue(x)}}
      BY <1>6, TickFields DEF TypeOK, ClaimRead
    <2>4. \A k \in Loops : k # l => loop'[k] = loop[k]
      BY <1>6 DEF TypeOK, ClaimRead
    <2>5. now' = now
      BY <1>6 DEF ClaimRead
    <2>6. \A d \in loop'[l].seen : d.due # NoRun /\ d.due <= now /\ d.due < d.following
      BY <2>2, <2>3
    <2>7. SeenPast'
      BY <2>4, <2>5, <2>6 DEF ClaimOrder, SeenPast
    <2>. QED  BY <2>1, <2>7 DEF ClaimOrder
  <1>7. ASSUME NEW l \in Loops, ClaimUpdate(l)
        PROVE  ClaimOrder'
    <2>. DEFINE won == {d \in loop[l].seen : Wins(d)}
    <2>1. now' = now
      BY <1>7 DEF ClaimUpdate
    <2>2. \A d \in won : /\ d.due \in Nat /\ d.following \in Nat
                         /\ d.due # NoRun /\ d.due <= now /\ d.due < d.following
                         /\ sched[d.s].nextRun = d.due
      BY DEF TypeOK, Tick, Due, ClaimOrder, SeenPast, Wins
    <2>3. ASSUME NEW s \in Schedules, NEW t \in claimed'[s]
          PROVE  t <= now /\ (sched'[s].nextRun # NoRun => t < sched'[s].nextRun)
      <3>1. CASE ~ \E d \in won : d.s = s
        <4>1. sched'[s] = sched[s]
          BY <1>7, <3>1 DEF ClaimUpdate
        <4>2. t \in claimed[s]
          BY <1>7, <2>3, <3>1 DEF ClaimUpdate
        <4>. QED  BY <4>1, <4>2 DEF ClaimOrder, ClaimsPast
      <3>2. CASE \E d \in won : d.s = s
        <4>. DEFINE e == CHOOSE d \in won : d.s = s
        <4>1. e \in won /\ e.s = s
          BY <3>2
        <4>2. sched'[s].nextRun = e.following
          BY <1>7, <3>2 DEF ClaimUpdate, WithNextRun
        <4>3. sched[s].nextRun = e.due /\ e.due \in Nat /\ e.following \in Nat
              /\ e.due # NoRun /\ e.due <= now /\ e.due < e.following
          BY <2>2, <4>1
        <4>4. t \in claimed[s] \/ \E d \in won : d.s = s /\ t = d.due
          BY <1>7, <2>3 DEF ClaimUpdate
        <4>5. t \in Nat /\ t <= now /\ t <= e.due
          <5>1. CASE t \in claimed[s]
            BY <4>3, <5>1 DEF TypeOK, ClaimOrder, ClaimsPast
          <5>2. CASE \E d \in won : d.s = s /\ t = d.due
            BY <2>2, <4>3, <5>2
          <5>. QED  BY <4>4, <5>1, <5>2
        <4>. QED  BY <4>2, <4>3, <4>5
      <3>. QED  BY <3>1, <3>2
    <2>4. ClaimsPast'
      BY <2>1, <2>3 DEF ClaimsPast
    <2>5. loop'[l].seen = {}
      BY <1>7, TickFields DEF TypeOK, ClaimUpdate
    <2>6. \A k \in Loops : k # l => loop'[k] = loop[k]
      BY <1>7 DEF TypeOK, ClaimUpdate
    <2>7. SeenPast'
      BY <2>1, <2>5, <2>6 DEF ClaimOrder, SeenPast
    <2>. QED  BY <2>4, <2>7 DEF ClaimOrder
  <1>8. ASSUME NEW l \in Loops, UNCHANGED <<claimed, sched, now>>,
               loop'[l].seen = {}, \A k \in Loops : k # l => loop'[k] = loop[k]
        PROVE  ClaimOrder'
    BY <1>8, <1>a, OrderKept
  <1>9. ASSUME NEW l \in Loops, NEW d \in loop[l].queue, FireSkipped(l, d) \/ FireRun(l, d)
        PROVE  ClaimOrder'
    <2>1. \A pc, cur : Dequeued(l, d, pc, cur).seen = {}
      BY TickFields DEF Dequeued
    <2>2. loop'[l].seen = {} /\ \A k \in Loops : k # l => loop'[k] = loop[k]
      BY <1>9, <2>1 DEF TypeOK, FireSkipped, FireRun
    <2>. QED  BY <1>8, <1>9, <2>2 DEF FireSkipped, FireRun
  <1>10. ASSUME NEW l \in Loops, FireRecord(l) \/ Stop(l)
         PROVE  ClaimOrder'
    <2>1. Idle.seen = {}
      BY TickFields DEF Idle
    <2>2. \A pc, q : TickState(pc, {}, q, {}).seen = {}
      BY TickFields
    <2>3. loop'[l].seen = {} /\ \A k \in Loops : k # l => loop'[k] = loop[k]
      BY <1>10, <2>1, <2>2 DEF TypeOK, FireRecord, Stop
    <2>. QED  BY <1>8, <1>10, <2>3 DEF FireRecord, Stop
  <1>11. CASE TimePasses
    BY <1>11, <1>a, OrderKept DEF TimePasses
  <1>12. CASE UNCHANGED vars
    BY <1>12, <1>a, OrderKept DEF vars
  <1>13. \A s \in Schedules : sched[s].config \in Configs
    BY RowFields DEF TypeOK
  <1>. QED  BY <1>1, <1>2, <1>3, <1>4, <1>5, <1>6, <1>7, <1>9, <1>10, <1>11, <1>12, <1>13
            DEF Next, LoopStep

(* Only the conditional UPDATE takes a loop from claiming to firing.       *)
LEMMA ClaimsFire ==
  ASSUME TypeOK, Next, NEW l \in Loops, loop[l].pc = "claim", loop'[l].pc = "fire"
  PROVE  ClaimUpdate(l)
  <1>1. loop' # loop /\ loop \in [Loops -> Tick]
    BY DEF TypeOK
  <1>2. PICK k \in Loops : LoopStep(k) \/ Stop(k)
    <2>1. ASSUME NEW u \in Users, NEW r \in req[u], Approve(u, r) \/ Edit(u, r) \/ Disable(u, r)
          PROVE  FALSE
      BY <1>1, <2>1 DEF Approve, Edit, Disable, Save, Refuse
    <2>. QED  BY <1>1, <2>1 DEF Next, Load, Delete, TimePasses
  <1>3. CASE k # l
    <2>1. loop'[l] = loop[l]
      BY <1>1, <1>2, <1>3 DEF LoopStep, ClaimRead, ClaimUpdate, FireSkipped, FireRun, FireRecord,
                              Stop
    <2>. QED  BY <2>1
  <1>4. CASE k = l
    <2>1. Idle.pc = "idle"
      BY TickFields DEF Idle
    <2>2. ~Stop(l)
      BY <1>1, <2>1 DEF Stop
    <2>. QED  BY <1>2, <1>4, <2>2 DEF LoopStep, ClaimRead, FireSkipped, FireRun, FireRecord
  <1>. QED  BY <1>3, <1>4

(* No occurrence is claimed twice, by any number of loops, with any        *)
(* overlap of edits, approvals and claims (claim_due), as long as the wall *)
(* clock is not set back.                                                  *)
THEOREM ClaimsExclusive ==
  ASSUME FoldLen = 0
  PROVE  Spec => ClaimedOnce
  <1>. DEFINE Once == \A l \in Loops : loop[l].pc = "claim" /\ loop'[l].pc = "fire" =>
                        \A d \in loop'[l].queue : d.due \notin claimed[d.s]
  <1>1. Init => TypeOK /\ ClaimOrder
    <2>1. Init => ClaimOrder
      BY TickFields DEF Init, ClaimOrder, ClaimsPast, SeenPast, Idle
    <2>. QED  BY <2>1, InitType
  <1>2. TypeOK /\ ClaimOrder /\ [Next]_vars => (TypeOK /\ ClaimOrder)'
    BY TypeStep, OrderStep
  <1>3. TypeOK /\ ClaimOrder /\ [Next]_vars => [Once]_vars
    <2>. SUFFICES ASSUME TypeOK, ClaimOrder, Next, NEW l \in Loops, loop[l].pc = "claim",
                         loop'[l].pc = "fire", NEW d \in loop'[l].queue
                  PROVE  d.due \notin claimed[d.s]
      BY DEF vars
    <2>1. ClaimUpdate(l)
      BY ClaimsFire
    <2>2. loop'[l].queue = {x \in loop[l].seen : Wins(x)}
      BY <2>1, TickFields DEF TypeOK, ClaimUpdate
    <2>3. d \in loop[l].seen /\ Wins(d)
      BY <2>2
    <2>4. d.s \in Schedules /\ d.due \in Nat
      BY <2>3 DEF TypeOK, Tick, Due
    <2>5. d.due # NoRun /\ sched[d.s].nextRun = d.due
      BY <2>3 DEF ClaimOrder, SeenPast, Wins
    <2>6. ASSUME d.due \in claimed[d.s]
          PROVE  d.due < d.due
      BY <2>4, <2>5, <2>6 DEF ClaimOrder, ClaimsPast
    <2>. QED  BY <2>4, <2>6
  <1>. QED  BY <1>1, <1>2, <1>3, PTL DEF Spec, ClaimedOnce
-----------------------------------------------------------------------------
ReviewInv == TypeOK /\ ActiveIsReviewed

(* The steps of the loops keep the rows but for next_run_at.               *)
LEMMA ReviewKept ==
  ASSUME ReviewInv, TypeOK', crossed' = crossed,
         \A s \in Schedules :
           \/ sched'[s].status = "deleted"
           \/ SameReview(sched'[s], sched[s]) /\ sched'[s].reviewed = sched[s].reviewed
  PROVE  ReviewInv'
  <1>1. ASSUME NEW s \in Schedules, sched'[s].status = "active"
        PROVE  Reviewed(s)' \/ s \in crossed'
    <2>1. SameReview(sched'[s], sched[s]) /\ sched'[s].reviewed = sched[s].reviewed
      BY <1>1
    <2>2. Reviewed(s) \/ s \in crossed
      BY <1>1, <2>1 DEF ReviewInv, ActiveIsReviewed, SameReview
    <2>. QED  BY <2>1, <2>2 DEF Reviewed, SameReview
  <1>. QED  BY <1>1 DEF ReviewInv, ActiveIsReviewed

(* A request that has loaded the row as it still stands writes exactly     *)
(* what its handler made of it.                                            *)
LEMMA FlushOfCurrent ==
  ASSUME NEW stored \in Row, NEW snap \in Row, NEW new \in Row, SameReview(stored, snap)
  PROVE  SameReview(Flush(stored, snap, new), new)
         /\ Flush(stored, snap, new).reviewed = new.reviewed
  BY DEF Flush, SameReview

(* A request that writes: right for the schedule it loaded, if that is     *)
(* still the one in the table, and listed as crossed if it is not.         *)
LEMMA ReviewSaved ==
  ASSUME ReviewInv, TypeOK', NEW u \in Users, NEW r \in req[u], NEW new \in Row,
         Save(u, r, new),
         new.status = "active" =>
           /\ new.config = new.reviewed
           /\ new.approvedBy \notin {NoOne, Author[r.s], new.editedBy}
  PROVE  ReviewInv'
  <1>1. r.s \in Schedules /\ r.snap \in Row /\ sched[r.s] \in Row
    BY DEF ReviewInv, TypeOK, Request
  <1>2. ASSUME NEW s \in Schedules, s # r.s
        PROVE  sched'[s] = sched[s] /\ (s \in crossed' <=> s \in crossed)
    BY <1>1, <1>2 DEF ReviewInv, TypeOK, Save
  <1>3. CASE sched[r.s].status = "deleted" \/ ~SameReview(sched[r.s], r.snap)
    <2>1. sched'[r.s].status = "deleted" \/ r.s \in crossed'
      BY <1>1, <1>3 DEF ReviewInv, TypeOK, Save
    <2>. QED  BY <1>2, <2>1 DEF ReviewInv, ActiveIsReviewed, Reviewed
  <1>4. CASE sched[r.s].status # "deleted" /\ SameReview(sched[r.s], r.snap)
    <2>1. sched'[r.s] = Flush(sched[r.s], r.snap, new)
      BY <1>1, <1>4 DEF ReviewInv, TypeOK, Save
    <2>2. SameReview(sched'[r.s], new) /\ sched'[r.s].reviewed = new.reviewed
      BY <1>1, <1>4, <2>1, FlushOfCurrent
    <2>3. sched'[r.s].status = "active" => Reviewed(r.s)'
      BY <2>2 DEF Reviewed, SameReview
    <2>. QED  BY <1>2, <2>3 DEF ReviewInv, ActiveIsReviewed, Reviewed
  <1>. QED  BY <1>3, <1>4

LEMMA ReviewStep == ReviewInv /\ [Next]_vars => ReviewInv'
  <1>. SUFFICES ASSUME ReviewInv, [Next]_vars PROVE ReviewInv'
    OBVIOUS
  <1>a. TypeOK /\ TypeOK'
    BY TypeStep DEF ReviewInv
  <1>b. ASSUME NEW u \in Users, NEW r \in req[u]
        PROVE  /\ r.s \in Schedules /\ r.snap \in Row /\ r.config \in Configs
               /\ sched[r.s].reviewed \in Configs
    <2>1. r.s \in Schedules /\ r.snap \in Row /\ r.config \in Configs
      BY <1>a DEF TypeOK, Request
    <2>. QED  BY <1>a, <2>1, RowFields DEF TypeOK
  <1>1. ASSUME UNCHANGED <<sched, crossed>>
        PROVE  ReviewInv'
    BY <1>1, <1>a, ReviewKept DEF SameReview
  <1>2. ASSUME NEW u \in Users, NEW r \in req[u], Approve(u, r)
        PROVE  ReviewInv'
    <2>1. r.snap.config \in Configs /\ r.snap.editedBy \in Users \cup {NoOne}
      BY <1>b, RowFields
    <2>2. NextAfter(r.snap.config, now) \in Nat
      BY <1>a, <2>1, NextAfterType DEF TypeOK
    <2>. DEFINE new == [status |-> "active", config |-> r.snap.config,
                        editedBy |-> r.snap.editedBy, approvedBy |-> u,
                        nextRun |-> NextAfter(r.snap.config, now),
                        reviewed |-> r.snap.config]
    <2>3. new \in Row
      BY <2>1, <2>2 DEF Row
    <2>4. CASE MayApprove(u, r) /\ Save(u, r, new)
      <3>1. new.config = new.reviewed /\ new.approvedBy \notin {NoOne, Author[r.s], new.editedBy}
        BY <2>4, SchedulerAssumption DEF MayApprove
      <3>. QED  BY <1>a, <2>3, <2>4, <3>1, ReviewSaved
    <2>5. CASE Refuse(u)
      BY <1>1, <2>5 DEF Refuse
    <2>. QED  BY <1>2, <2>4, <2>5 DEF Approve
  <1>3. ASSUME NEW u \in Users, NEW r \in req[u], Edit(u, r)
        PROVE  ReviewInv'
    <2>. DEFINE new == [status |-> "draft", config |-> r.config, editedBy |-> u,
                        approvedBy |-> NoOne, nextRun |-> NoRun,
                        reviewed |-> sched[r.s].reviewed]
    <2>1. new \in Row /\ new.status # "active"
      BY <1>b DEF Row, NoRun
    <2>2. CASE Save(u, r, new)
      BY <1>a, <2>1, <2>2, ReviewSaved
    <2>3. CASE Refuse(u)
      BY <1>1, <2>3 DEF Refuse
    <2>. QED  BY <1>3, <2>2, <2>3 DEF Edit
  <1>4. ASSUME NEW u \in Users, NEW r \in req[u], Disable(u, r)
        PROVE  ReviewInv'
    <2>. DEFINE new == [status |-> "disabled", config |-> r.snap.config,
                        editedBy |-> r.snap.editedBy, approvedBy |-> r.snap.approvedBy,
                        nextRun |-> NoRun, reviewed |-> sched[r.s].reviewed]
    <2>1. new \in Row /\ new.status # "active"
      BY <1>b, RowFields DEF Row, NoRun
    <2>. QED  BY <1>4, <1>a, <2>1, ReviewSaved DEF Disable
  <1>5. ASSUME NEW s \in Schedules, Delete(s)
        PROVE  ReviewInv'
    <2>1. Gone(s).status = "deleted"
      BY DEF Gone
    <2>2. \A x \in Schedules : sched'[x] = sched[x] \/ sched'[x].status = "deleted"
      BY <1>5, <1>a, <2>1 DEF TypeOK, Delete
    <2>. QED  BY <1>5, <1>a, <2>2, ReviewKept DEF Delete, SameReview
  <1>6. ASSUME NEW l \in Loops, ClaimUpdate(l)
        PROVE  ReviewInv'
    <2>1. \A row, t : SameReview(WithNextRun(row, t), row)
                      /\ WithNextRun(row, t).reviewed = row.reviewed
      BY DEF WithNextRun, SameReview
    <2>2. \A s \in Schedules : SameReview(sched'[s], sched[s])
                              /\ sched'[s].reviewed = sched[s].reviewed
      BY <1>6, <2>1 DEF ClaimUpdate, SameReview
    <2>. QED  BY <1>6, <1>a, <2>2, ReviewKept DEF ClaimUpdate
  <1>7. ASSUME NEW l \in Loops, LoopStep(l) \/ Stop(l)
        PROVE  ReviewInv'
    BY <1>1, <1>6, <1>7 DEF LoopStep, ClaimRead, FireSkipped, FireRun, FireRecord, Stop
  <1>8. ASSUME NEW u \in Users, NEW s \in Schedules, NEW c \in Configs,
               NEW op \in {"approve", "edit", "disable"}, Load(u, op, s, c)
        PROVE  ReviewInv'
    BY <1>1, <1>8 DEF Load
  <1>9. CASE TimePasses \/ UNCHANGED vars
    BY <1>1, <1>9 DEF TimePasses, vars
  <1>10. \A s \in Schedules : sched[s].config \in Configs
    BY <1>a, RowFields DEF TypeOK
  <1>. QED  BY <1>2, <1>3, <1>4, <1>5, <1>7, <1>8, <1>9, <1>10 DEF Next

(* The review gate of the schedules router, for any number of schedules,   *)
(* users and requests, whatever overlaps: what is active was approved as   *)
(* it stands, by somebody who neither wrote nor last edited it, unless the *)
(* request that wrote the row last had loaded another version of it.  The  *)
(* handlers take no lock and compare no version, so that exception is      *)
(* real: section 4 of the README has the violation of GateHolds.           *)
THEOREM ReviewGate == Spec => []ActiveIsReviewed
  <1>1. Init => ReviewInv
    <2>1. Init => ActiveIsReviewed
      BY DEF Init, NewSchedule, ActiveIsReviewed
    <2>. QED  BY <2>1, InitType DEF ReviewInv
  <1>2. ReviewInv => ActiveIsReviewed
    BY DEF ReviewInv
  <1>. QED  BY <1>1, <1>2, ReviewStep, PTL DEF Spec
=============================================================================
