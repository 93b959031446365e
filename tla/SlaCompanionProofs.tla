--------------------------- MODULE SlaCompanionProofs ---------------------------
(* When a timer workflow ends with its clock, for any set of SLA rows, any *)
(* policies and users, any overlap of requests and any loss of signals.    *)
EXTENDS SlaCompanion, TLAPS

(* A timer exists only for a row that was committed: Rescan reads nothing  *)
(* else, and a row is never taken back.                                    *)
TimersBacked == \A i \in Rows : timer[i].pc # "none" => row[i].status # "none"

(* The row a start is about to insert does not exist yet, and no other     *)
(* request knows of it.                                                    *)
StartsFresh ==
  \A q \in Slots : request[q].op = "start" =>
    \A i \in request[q].rows :
      row[i].status = "none" /\ \A o \in Slots \ {q} : i \notin request[o].rows

IInv == TypeOK /\ TimersBacked /\ StartsFresh /\ DoneMeansOver

Row   == [status : {"none", "running", "paused", "breached", "cancelled"}, due : BOOLEAN]
Request == [op : Ops, rows : SUBSET Rows, due : SUBSET Rows, sent : BOOLEAN]
Timer == [pc : TimerPcs, wake : BOOLEAN]
Companion == [pc : CompanionPcs, known : SUBSET Rows, wake : BOOLEAN, terminal : BOOLEAN]

IsOver(r) == r.status \in {"cancelled", "breached"}

(* No SELECT fits a clock that is over.                                    *)
LEMMA OverNeverFits ==
  ASSUME NEW op, NEW s \in Fits(op)
  PROVE  s \notin {"cancelled", "breached"} /\ (op # "start" => s # "none")
  BY DEF Fits, Active

LEMMA FreshType == ASSUME NEW k \in SUBSET Rows PROVE FreshCompanion(k) \in Companion
  BY DEF FreshCompanion, Companion, CompanionPcs

LEMMA SendsType ==
  ASSUME TypeOK, NEW wake \in BOOLEAN, NEW terminal \in BOOLEAN, Sends(wake, terminal)
  PROVE  companion' \in Companion
<1>1. companion \in Companion
  BY DEF TypeOK, Companion
<1>2. Signalled(companion, wake, terminal) \in Companion
  BY <1>1 DEF Signalled, Companion
<1> QED
  BY <1>1, <1>2 DEF Sends

(* The beginning of a request leaves rows and timers alone.                *)
LEMMA TakesKeeps ==
  ASSUME IInv, NEW q \in Slots, NEW op \in Ops, NEW rows \in SUBSET Rows,
         NEW sent \in BOOLEAN, Takes(q, op, rows, sent), companion' \in Companion,
         \A i \in rows : IF op = "start"
                          THEN row[i].status = "none" /\ \A o \in Slots : i \notin request[o].rows
                          ELSE row[i].status # "none"
  PROVE  IInv'
<1> DEFINE r == [op |-> op, rows |-> rows, due |-> {i \in rows : row[i].due}, sent |-> sent]
<1>1. r \in Request /\ r.op = op /\ r.rows = rows
  BY DEF Request
<1>2. request' = [request EXCEPT ![q] = r] /\ request \in [Slots -> Request]
  BY DEF Takes, IInv, TypeOK, Request
<1> HIDE DEF r
<1>3. TypeOK'
  BY <1>1, <1>2 DEF IInv, TypeOK, Takes, Companion, Request
<1>4. TimersBacked' /\ DoneMeansOver'
  BY DEF IInv, TimersBacked, DoneMeansOver, Takes
<1>5. StartsFresh'
  <2>1. row' = row /\ StartsFresh
    BY DEF Takes, IInv
  <2>2. ASSUME NEW p \in Slots, request'[p].op = "start", NEW i \in request'[p].rows
        PROVE  row[i].status = "none" /\ \A o \in Slots \ {p} : i \notin request'[o].rows
    <3>1. CASE p = q
      BY <1>1, <1>2, <2>2, <3>1
    <3>2. CASE p # q
      <4>1. row[i].status = "none" /\ \A o \in Slots \ {p} : i \notin request[o].rows
        BY <1>2, <2>1, <2>2, <3>2 DEF StartsFresh
      <4>2. i \notin rows
        <5>1. i \in request[p].rows
          BY <1>2, <2>2, <3>2
        <5> QED
          BY <4>1, <5>1
      <4> QED
        BY <1>1, <1>2, <4>1, <4>2
    <3> QED
      BY <3>1, <3>2
  <2> QED
    BY <2>1, <2>2 DEF StartsFresh
<1> QED
  BY <1>3, <1>4, <1>5 DEF IInv

LEMMA InsertKeeps ==
  ASSUME IInv, NEW q \in Slots, NEW i, NEW wake \in BOOLEAN, Insert(q, i, wake)
  PROVE  IInv'
<1>1. TypeOK /\ FALSE \in BOOLEAN /\ TRUE \in BOOLEAN /\ "start" \in Ops
  BY DEF IInv, Ops
<1>2. {i} \in SUBSET Rows
  BY <1>1, CompanionAssumption DEF Insert, TypeOK
<1> DEFINE f == FALSE
           t == TRUE
<1>3. Sends(wake, f) /\ Takes(q, "start", {i}, t) /\ f \in BOOLEAN /\ t \in BOOLEAN
  BY DEF Insert
<1>4. \A j \in {i} : row[j].status = "none" /\ \A o \in Slots : j \notin request[o].rows
  BY DEF Insert
<1> HIDE DEF f, t
<1>5. companion' \in Companion
  BY <1>1, <1>3, SendsType
<1> QED
  BY <1>1, <1>2, <1>3, <1>4, <1>5, TakesKeeps

LEMMA SelectKeeps ==
  ASSUME IInv, NEW q \in Slots, NEW op \in Ops \ {"start"}, NEW rows \in SUBSET DOMAIN plan,
         NEW sent \in BOOLEAN, Takes(q, op, rows, sent), companion' \in Companion,
         \A i \in rows : row[i].status \in Fits(op)
  PROVE  IInv'
<1>1. rows \in SUBSET Rows
  BY CompanionAssumption DEF IInv, TypeOK
<1>2. \A i \in rows : row[i].status # "none"
  BY OverNeverFits
<1>3. op # "start"
  OBVIOUS
<1> QED
  BY <1>1, <1>2, <1>3, TakesKeeps

LEMMA CaseRequestKeeps == ASSUME IInv, CaseRequest PROVE IInv'
<1>0. /\ TypeOK
      /\ companion \in Companion
      /\ "case" \in Slots
      /\ {"wait", "resume", "end", "reopen"} \subseteq Ops \ {"start"}
  BY DEF IInv, TypeOK, Companion, Slots, Ops
<1>1. ASSUME NEW i \in Rows, StartStage(i) PROVE IInv'
  <2> DEFINE f == FALSE
  <2>1. Insert("case", i, f) /\ f \in BOOLEAN
    BY <1>1 DEF StartStage
  <2> HIDE DEF f
  <2> QED
    BY <1>0, <2>1, InsertKeeps
<1>2. ASSUME NEW op \in {"wait", "resume", "end"}, SelectAll(op) PROVE IInv'
  <2> DEFINE found == {i \in DOMAIN plan : row[i].status \in Fits(op)}
             f == FALSE
  <2>1. Takes("case", op, found, f) /\ f \in BOOLEAN
    BY <1>2 DEF SelectAll
  <2>2. companion' \in Companion
    BY <1>0, <1>2 DEF SelectAll
  <2>3. found \in SUBSET DOMAIN plan /\ \A i \in found : row[i].status \in Fits(op)
    OBVIOUS
  <2>4. op \in Ops \ {"start"}
    BY <1>0
  <2> HIDE DEF found, f
  <2> QED
    BY <1>0, <2>1, <2>2, <2>3, <2>4, SelectKeeps
<1>3. CASE Reopen
  <2> DEFINE t == TRUE
             f == FALSE
             none == {}
  <2>1. /\ Takes("case", "reopen", none, t)
        /\ companion' = FreshCompanion(none) \/ Sends(t, f)
        /\ t \in BOOLEAN /\ f \in BOOLEAN
        /\ none \in SUBSET DOMAIN plan /\ none \in SUBSET Rows
        /\ \A i \in none : row[i].status \in Fits("reopen")
        /\ "reopen" \in Ops \ {"start"}
    BY <1>0, <1>3 DEF Reopen
  <2> HIDE DEF t, f, none
  <2>2. companion' \in Companion
    BY <1>0, <2>1, SendsType, FreshType
  <2> QED
    BY <1>0, <2>1, <2>2, SelectKeeps
<1> QED
  BY <1>1, <1>2, <1>3 DEF CaseRequest, SelectWait, SelectResume, SelectEnd

LEMMA HandRequestKeeps == ASSUME IInv, NEW q \in Hands, HandRequest(q) PROVE IInv'
<1>0. TypeOK /\ companion \in Companion /\ q \in Slots
  BY DEF IInv, TypeOK, Companion, Slots
<1>1. ASSUME NEW i \in DOMAIN plan, StartByHand(q, i) PROVE IInv'
  <2> DEFINE t == TRUE
  <2>1. Insert(q, i, t) /\ t \in BOOLEAN
    BY <1>1 DEF StartByHand
  <2> HIDE DEF t
  <2> QED
    BY <1>0, <2>1, InsertKeeps
<1>2. ASSUME NEW i \in DOMAIN plan, NEW op \in {"pause", "unpause"}, SelectByHand(q, i, op)
      PROVE  IInv'
  <2> DEFINE f == FALSE
             one == {i}
  <2>1. /\ Takes(q, op, one, f) /\ f \in BOOLEAN
        /\ one \in SUBSET DOMAIN plan
        /\ \A j \in one : row[j].status \in Fits(op)
        /\ op \in Ops \ {"start"}
    BY <1>2 DEF SelectByHand, Ops
  <2>2. companion' \in Companion
    BY <1>0, <1>2 DEF SelectByHand
  <2> HIDE DEF f, one
  <2> QED
    BY <1>0, <2>1, <2>2, SelectKeeps
<1> QED
  BY <1>1, <1>2 DEF HandRequest

(* A request on its way: it keeps its rows, or gives them all up.          *)
LEMMA OnTheWayKeeps == ASSUME IInv, NEW q \in Slots, Update(q) \/ Rollback(q) PROVE IInv'
<1>0. TypeOK /\ request \in [Slots -> Request] /\ NoRequest \in Request
  BY DEF IInv, TypeOK, Request, NoRequest, Ops
<1>1. PICK r \in Request :
        /\ request' = [request EXCEPT ![q] = r]
        /\ r.op = "start" => request[q].op = "start"
        /\ r.rows \subseteq request[q].rows
        /\ r.op = "start" => r.rows = request[q].rows
  <2>1. CASE Update(q)
    <3> DEFINE r == [request[q] EXCEPT !.sent = TRUE]
    <3>1. r \in Request /\ r.op = request[q].op /\ r.rows = request[q].rows
      BY <1>0 DEF Request
    <3>2. request' = [request EXCEPT ![q] = r]
      BY <1>0, <2>1 DEF Update
    <3> QED
      BY <3>1, <3>2
  <2>2. CASE Rollback(q)
    BY <1>0, <2>2 DEF Rollback, NoRequest
  <2> QED
    BY <2>1, <2>2
<1>2. /\ UNCHANGED <<plan, status, row, timer, overwritten>>
      /\ companion' \in Companion
  <2> DEFINE t == TRUE
             e == (request[q].op = "end")
  <2>1. CASE Update(q)
    <3>1. Sends(t, e) /\ t \in BOOLEAN /\ e \in BOOLEAN
      BY <2>1 DEF Update
    <3> HIDE DEF t, e
    <3>2. companion' \in Companion
      BY <1>0, <3>1, SendsType
    <3> QED
      BY <2>1, <3>2 DEF Update
  <2>2. CASE Rollback(q)
    BY <1>0, <2>2 DEF Rollback, TypeOK, Companion
  <2> QED
    BY <2>1, <2>2
<1>3. TypeOK'
  BY <1>0, <1>1, <1>2 DEF TypeOK, Companion, Request
<1>4. TimersBacked' /\ DoneMeansOver'
  BY <1>2 DEF IInv, TimersBacked, DoneMeansOver
<1>5. StartsFresh'
  <2>1. \A o \in Slots : /\ request'[o].rows \subseteq request[o].rows
                         /\ request'[o].op = "start" => request[o].op = "start"
    BY <1>0, <1>1
  <2>2. ASSUME NEW p \in Slots, request'[p].op = "start", NEW i \in request'[p].rows
        PROVE  row[i].status = "none" /\ \A o \in Slots \ {p} : i \notin request'[o].rows
    <3>1. request[p].op = "start" /\ i \in request[p].rows
      BY <2>1, <2>2
    <3>2. row[i].status = "none" /\ \A o \in Slots \ {p} : i \notin request[o].rows
      BY <3>1 DEF IInv, StartsFresh
    <3> QED
      BY <2>1, <3>2
  <2> QED
    BY <1>2, <2>2 DEF StartsFresh
<1> QED
  BY <1>3, <1>4, <1>5 DEF IInv

(* What a transaction does to a row: it never takes one back, and it       *)
(* changes a row that is over only by writing over it.                     *)
LEMMA CommitEffect ==
  ASSUME IInv, NEW q \in Slots, Commit(q)
  PROVE  /\ row' \in [Rows -> Row]
         /\ \A i \in Rows : row[i].status # "none" => row'[i].status # "none"
         /\ \A i \in Rows : i \notin request[q].rows => row'[i] = row[i]
         /\ \A i \in Rows : IsOver(row[i]) => IsOver(row'[i]) \/ i \in overwritten'
         /\ overwritten \subseteq overwritten' /\ overwritten' \subseteq Rows
<1> DEFINE r == request[q]
<1>1. r \in Request /\ row \in [Rows -> Row]
  BY DEF IInv, TypeOK, Row, Request
<1>2. /\ row' = [i \in Rows |-> IF i \in r.rows THEN Written(i, r) ELSE row[i]]
      /\ overwritten' = overwritten \cup {i \in r.rows : row[i].status \notin Fits(r.op)}
  BY DEF Commit
<1>3. r.rows \subseteq Rows /\ overwritten \subseteq Rows
  BY <1>1 DEF Request, IInv, TypeOK
<1> HIDE DEF r
<1>4. \A i \in Rows : Written(i, r) \in Row /\ Written(i, r).status # "none"
  BY DEF Written, Writes, Row
<1>5. \A i \in r.rows : IsOver(row[i]) => i \in overwritten'
  BY <1>2, OverNeverFits DEF IsOver
<1>6. row' \in [Rows -> Row]
  BY <1>1, <1>2, <1>4
<1>7. \A i \in Rows : i \notin r.rows => row'[i] = row[i]
  BY <1>2
<1>8. \A i \in Rows : row[i].status # "none" => row'[i].status # "none"
  BY <1>2, <1>4
<1>9. overwritten \subseteq overwritten' /\ overwritten' \subseteq Rows
  BY <1>2, <1>3
<1> QED
  BY <1>5, <1>6, <1>7, <1>8, <1>9 DEF r

LEMMA CommitKeeps == ASSUME IInv, NEW q \in Slots, Commit(q) PROVE IInv'
<1>0. /\ request \in [Slots -> Request] /\ NoRequest \in Request
      /\ request' = [request EXCEPT ![q] = NoRequest]
      /\ timer' = timer
  BY DEF IInv, TypeOK, Request, NoRequest, Ops, Commit
<1>1. TypeOK'
  <2>1. status' \in {"open", "waiting", "ended"}
    BY DEF Commit, IInv, TypeOK
  <2>2. row' \in [Rows -> Row] /\ overwritten' \subseteq Rows
    BY CommitEffect
  <2>3. request' \in [Slots -> Request]
    BY <1>0
  <2>4. UNCHANGED <<plan, companion, timer>>
    BY DEF Commit
  <2> QED
    BY <2>1, <2>2, <2>3, <2>4 DEF IInv, TypeOK, Row, Request
<1>2. TimersBacked'
  BY <1>0, CommitEffect DEF IInv, TimersBacked
<1>3. DoneMeansOver'
  BY <1>0, CommitEffect DEF IInv, DoneMeansOver, IsOver
<1>4. StartsFresh'
  <2>1. ASSUME NEW p \in Slots, request'[p].op = "start", NEW i \in request'[p].rows
        PROVE  row'[i].status = "none" /\ \A o \in Slots \ {p} : i \notin request'[o].rows
    <3>1. p # q
      BY <1>0, <2>1 DEF NoRequest
    <3>2. request[p].op = "start" /\ i \in request[p].rows /\ i \in Rows
      BY <1>0, <2>1, <3>1 DEF Request
    <3>3. row[i].status = "none" /\ \A o \in Slots \ {p} : i \notin request[o].rows
      BY <3>2 DEF IInv, StartsFresh
    <3>4. row'[i] = row[i]
      BY <3>1, <3>2, <3>3, CommitEffect
    <3>5. ASSUME NEW o \in Slots \ {p} PROVE i \notin request'[o].rows
      <4>1. CASE o = q
        BY <1>0, <4>1 DEF NoRequest
      <4>2. CASE o # q
        BY <1>0, <3>3, <4>2
      <4> QED
        BY <4>1, <4>2
    <3> QED
      BY <3>3, <3>4, <3>5
  <2> QED
    BY <2>1 DEF StartsFresh
<1> QED
  BY <1>1, <1>2, <1>3, <1>4 DEF IInv

LEMMA DeadlineKeeps == ASSUME IInv, NEW i \in Rows, Deadline(i) PROVE IInv'
<1>1. row' \in [Rows -> Row] /\ \A j \in Rows : row'[j].status = row[j].status
  BY DEF Deadline, IInv, TypeOK, Row
<1>2. TypeOK'
  BY <1>1 DEF IInv, TypeOK, Deadline, Row
<1>3. TimersBacked' /\ DoneMeansOver'
  BY <1>1 DEF IInv, TimersBacked, DoneMeansOver, Deadline
<1>4. StartsFresh'
  <2>1. \A q \in Slots : request[q].rows \subseteq Rows
    BY DEF IInv, TypeOK
  <2> QED
    BY <1>1, <2>1 DEF IInv, StartsFresh, Deadline
<1> QED
  BY <1>2, <1>3, <1>4 DEF IInv

(* Steps that leave case, rows and request alone: what matters is that a   *)
(* timer is only begun for a row that exists and ends with its row.        *)
LEMMA QuietKeeps ==
  ASSUME IInv, Others, companion' \in Companion, timer' \in [Rows -> Timer],
         \A i \in Rows : timer'[i].pc # "none" => row[i].status # "none",
         \A i \in Rows : timer'[i].pc = "done" => IsOver(row[i]) \/ i \in overwritten
  PROVE  IInv'
<1>1. TypeOK'
  BY DEF IInv, TypeOK, Others, Companion, Timer
<1>2. TimersBacked' /\ DoneMeansOver' /\ StartsFresh'
  BY DEF IInv, TimersBacked, DoneMeansOver, StartsFresh, Others, IsOver
<1> QED
  BY <1>1, <1>2 DEF IInv

LEMMA WakeKeepsTimers ==
  ASSUME TypeOK, NEW rows, WakeTimers(rows)
  PROVE  timer' \in [Rows -> Timer] /\ \A i \in Rows : timer'[i].pc = timer[i].pc
  BY DEF TypeOK, WakeTimers, Timer

LEMMA CompanionKeeps == ASSUME IInv, CompanionStep \/ ContinueAsNew PROVE IInv'
<1>0. /\ TypeOK
      /\ companion \in Companion
      /\ timer \in [Rows -> Timer]
      /\ \A i \in Rows : timer[i].pc # "none" => row[i].status # "none"
      /\ \A i \in Rows : timer[i].pc = "done" => IsOver(row[i]) \/ i \in overwritten
  BY DEF IInv, TypeOK, Companion, Timer, TimersBacked, DoneMeansOver, IsOver
<1>1. CASE WakeAll
  <2>1. timer' \in [Rows -> Timer] /\ \A i \in Rows : timer'[i].pc = timer[i].pc
    BY <1>0, <1>1, WakeKeepsTimers DEF WakeAll
  <2>2. companion' \in Companion /\ Others
    BY <1>0, <1>1 DEF WakeAll, Companion, CompanionPcs
  <2> QED
    BY <1>0, <2>1, <2>2, QuietKeeps
<1>2. CASE Rescan
  <2> DEFINE seen == {i \in Rows \ companion.known : row[i].status \notin {"none", "cancelled"}}
  <2>1. companion' \in Companion /\ Others
    BY <1>0, <1>2 DEF Rescan, Companion, CompanionPcs
  <2>2. timer' = [i \in Rows |->
           IF i \in seen /\ timer[i].pc \in {"none", "done"}
           THEN [pc |-> "check", wake |-> FALSE] ELSE timer[i]]
    BY <1>2 DEF Rescan
  <2>3. timer' \in [Rows -> Timer]
    BY <1>0, <2>2 DEF Timer, TimerPcs
  <2>4. ASSUME NEW i \in Rows
        PROVE  /\ timer'[i].pc # "none" => row[i].status # "none"
               /\ timer'[i].pc = "done" => IsOver(row[i]) \/ i \in overwritten
    BY <1>0, <2>2
  <2> QED
    BY <2>1, <2>3, <2>4, QuietKeeps
<1>3. CASE Finish
  <2>1. timer' \in [Rows -> Timer] /\ \A i \in Rows : timer'[i].pc = timer[i].pc
    BY <1>0, <1>3, WakeKeepsTimers DEF Finish
  <2>2. [FreshCompanion({}) EXCEPT !.pc = "done"] \in Companion
    BY DEF FreshCompanion, Companion, CompanionPcs
  <2>3. [companion EXCEPT !.pc = "wait"] \in Companion
    BY <1>0 DEF Companion, CompanionPcs
  <2>4. companion' \in Companion /\ Others
    BY <1>3, <2>2, <2>3 DEF Finish
  <2> QED
    BY <1>0, <2>1, <2>4, QuietKeeps
<1>4. CASE Await
  <2>1. companion' \in Companion
    BY <1>0, <1>4 DEF Await, Companion, CompanionPcs
  <2>2. Others /\ timer' = timer
    BY <1>4 DEF Await
  <2> QED
    BY <1>0, <2>1, <2>2, QuietKeeps
<1>5. CASE ContinueAsNew
  <2>1. companion.known \in SUBSET Rows
    BY <1>0 DEF Companion
  <2>2. companion' \in Companion
    BY <1>5, <2>1, FreshType DEF ContinueAsNew
  <2>3. Others /\ timer' = timer
    BY <1>5 DEF ContinueAsNew
  <2> QED
    BY <1>0, <2>2, <2>3, QuietKeeps
<1> QED
  BY <1>1, <1>2, <1>3, <1>4, <1>5 DEF CompanionStep

LEMMA TimerKeeps == ASSUME IInv, NEW i \in Rows, TimerStep(i) PROVE IInv'
<1>0. /\ TypeOK
      /\ companion \in Companion
      /\ timer \in [Rows -> Timer]
      /\ row \in [Rows -> Row]
      /\ \A j \in Rows : timer[j].pc # "none" => row[j].status # "none"
      /\ \A j \in Rows : timer[j].pc = "done" => IsOver(row[j]) \/ j \in overwritten
  BY DEF IInv, TypeOK, Companion, Timer, Row, TimersBacked, DoneMeansOver, IsOver
<1>1. CASE Check(i)
  <2> DEFINE to == CASE row[i].status \in {"none", "cancelled", "breached"} -> "done"
                     [] row[i].status = "paused" -> "idle"
                     [] OTHER -> IF row[i].due THEN "fire" ELSE "asleep"
  <2>1. row[i].status # "none"
    BY <1>0, <1>1 DEF Check
  <2>2. to \in TimerPcs /\ (to = "done" => IsOver(row[i]) \/ i \in overwritten)
    BY <2>1 DEF TimerPcs, IsOver
  <2>3. timer' = [timer EXCEPT ![i] = [pc |-> to, wake |-> timer[i].wake /\ to # "done"]]
    BY <1>1 DEF Check, TimerGoes
  <2>4. timer' \in [Rows -> Timer]
    BY <1>0, <2>2, <2>3 DEF Timer
  <2>5. companion' \in Companion /\ Others
    BY <1>0, <1>1 DEF Check, AllButTimer
  <2>6. ASSUME NEW j \in Rows
        PROVE  /\ timer'[j].pc # "none" => row[j].status # "none"
               /\ timer'[j].pc = "done" => IsOver(row[j]) \/ j \in overwritten
    BY <1>0, <2>1, <2>2, <2>3
  <2> QED
    BY <2>4, <2>5, <2>6, QuietKeeps
<1>2. CASE Wake(i) \/ FireRead(i)
  <2>1. PICK to \in TimerPcs \ {"none", "done"}, w \in BOOLEAN :
           timer' = [timer EXCEPT ![i] = [pc |-> to, wake |-> w]]
    <3>1. timer[i].wake \in BOOLEAN
      BY <1>0 DEF Timer
    <3>2. CASE Wake(i)
      BY <3>2 DEF Wake, TimerPcs
    <3>3. CASE FireRead(i)
      BY <3>1, <3>3 DEF FireRead, TimerGoes, TimerPcs
    <3> QED
      BY <1>2, <3>2, <3>3
  <2>2. row[i].status # "none"
    BY <1>0, <1>2 DEF Wake, FireRead
  <2>3. timer' \in [Rows -> Timer]
    BY <1>0, <2>1 DEF Timer
  <2>4. companion' \in Companion /\ Others
    BY <1>0, <1>2 DEF Wake, FireRead, AllButTimer
  <2>5. ASSUME NEW j \in Rows
        PROVE  /\ timer'[j].pc # "none" => row[j].status # "none"
               /\ timer'[j].pc = "done" => IsOver(row[j]) \/ j \in overwritten
    BY <1>0, <2>1, <2>2
  <2> QED
    BY <2>3, <2>4, <2>5, QuietKeeps
<1>3. CASE FireWrite(i)
  <2>1. row' = [row EXCEPT ![i] = [status |-> "breached", due |-> FALSE]]
    BY <1>3 DEF FireWrite
  <2>2. row' \in [Rows -> Row]
    BY <1>0, <2>1 DEF Row
  <2>3. timer' = [timer EXCEPT ![i] = [pc |-> "check", wake |-> timer[i].wake]]
    BY <1>0, <1>3 DEF FireWrite, TimerGoes, Timer
  <2>4. timer' \in [Rows -> Timer]
    BY <1>0, <2>3 DEF Timer, TimerPcs
  <2>5. TypeOK'
    BY <1>0, <1>3, <2>2, <2>4 DEF FireWrite, TypeOK, Row, Timer
  <2>6. TimersBacked' /\ DoneMeansOver'
    BY <1>0, <1>3, <2>1, <2>3 DEF TimersBacked, DoneMeansOver, IsOver, FireWrite
  <2>7. StartsFresh'
    <3>1. row[i].status # "none"
      BY <1>0, <1>3 DEF FireWrite
    <3>2. \A q \in Slots : request[q].rows \subseteq Rows
      BY <1>0 DEF TypeOK
    <3> QED
      BY <1>0, <1>3, <2>1, <3>1, <3>2 DEF IInv, StartsFresh, FireWrite
  <2> QED
    BY <2>5, <2>6, <2>7 DEF IInv
<1> QED
  BY <1>1, <1>2, <1>3 DEF TimerStep

LEMMA StepKeeps == ASSUME IInv, [Next]_vars PROVE IInv'
<1>1. CASE UNCHANGED vars
  BY <1>1 DEF vars, IInv, TypeOK, TimersBacked, StartsFresh, DoneMeansOver
<1> QED
  BY <1>1, CaseRequestKeeps, HandRequestKeeps, OnTheWayKeeps, CommitKeeps, DeadlineKeeps,
     CompanionKeeps, TimerKeeps DEF Next

(* Types and the facts that make DoneMeansOver inductive.                  *)
THEOREM CompanionInvariant == Spec => []IInv
<1>1. Init => IInv
  <2> SUFFICES ASSUME Init PROVE IInv
    OBVIOUS
  <2>1. companion \in Companion
    BY FreshType DEF Init
  <2>2. NoRequest \in Request /\ NoRequest.op # "start"
    BY DEF NoRequest, Request, Ops
  <2>3. request \in [Slots -> Request] /\ \A q \in Slots : request[q].op # "start"
    BY <2>2 DEF Init
  <2>4. TypeOK
    BY <2>1, <2>3 DEF Init, TypeOK, Request, TimerPcs, Companion
  <2> QED
    BY <2>3, <2>4 DEF Init, IInv, TimersBacked, StartsFresh, DoneMeansOver
<1>2. IInv /\ [Next]_vars => IInv'
  BY StepKeeps
<1> QED
  BY <1>1, <1>2, PTL DEF Spec

(* The types, for any rows, plans, users and requests.                     *)
THEOREM TypeCorrect == Spec => []TypeOK
<1>1. IInv => TypeOK
  BY DEF IInv
<1> QED
  BY <1>1, CompanionInvariant, PTL

(* SLATimerWorkflow returns only when get_sla_timer_state has shown it a   *)
(* row that is cancelled or breached.  Where such a row is found otherwise *)
(* afterwards, a request wrote it by an id that its SELECT had found       *)
(* before the clock was over: overlapping requests, firings and signals    *)
(* have no other way to leave a clock without its timer.                   *)
THEOREM TimersEndWithClocks == Spec => []DoneMeansOver
<1>1. IInv => DoneMeansOver
  BY DEF IInv
<1> QED
  BY <1>1, CompanionInvariant, PTL
-----------------------------------------------------------------------------
(* What happens to the rows themselves.                                    *)

(* Rows are written by commits, deadlines and firings, and by nothing else.*)
LEMMA RowWriters ==
  ASSUME [Next]_vars, row' # row
  PROVE  \/ \E q \in Slots : Commit(q)
         \/ \E i \in Rows : Deadline(i) \/ FireWrite(i)
<1>1. ~UNCHANGED vars
  BY DEF vars
<1>2. ~CaseRequest
  BY DEF CaseRequest, StartStage, Insert, SelectWait, SelectResume, SelectEnd, SelectAll,
         Reopen, Takes
<1>3. ASSUME NEW q \in Hands, HandRequest(q) PROVE FALSE
  BY <1>3 DEF HandRequest, StartByHand, Insert, SelectByHand, Takes
<1>4. ASSUME NEW q \in Slots, Update(q) \/ Rollback(q) PROVE FALSE
  BY <1>4 DEF Update, Rollback
<1>5. ~(CompanionStep \/ ContinueAsNew)
  BY DEF CompanionStep, WakeAll, Rescan, Finish, Await, ContinueAsNew, Others
<1>6. ASSUME NEW i \in Rows, Check(i) \/ Wake(i) \/ FireRead(i) PROVE FALSE
  BY <1>6 DEF Check, Wake, FireRead, AllButTimer, Others
<1> QED
  BY <1>1, <1>2, <1>3, <1>4, <1>5, <1>6 DEF Next, TimerStep

LEMMA OverStep ==
  ASSUME IInv, [Next]_vars, NEW i \in Rows, IsOver(row[i])
  PROVE  IsOver(row'[i]) \/ i \in overwritten'
<1>1. row \in [Rows -> Row]
  BY DEF IInv, TypeOK, Row
<1>2. ASSUME NEW q \in Slots, Commit(q) PROVE IsOver(row'[i]) \/ i \in overwritten'
  BY <1>2, CommitEffect
<1>3. ASSUME NEW j \in Rows, Deadline(j) PROVE IsOver(row'[i])
  BY <1>1, <1>3 DEF Deadline, IsOver, Row
<1>4. ASSUME NEW j \in Rows, FireWrite(j) PROVE IsOver(row'[i])
  BY <1>1, <1>4 DEF FireWrite, IsOver
<1>5. CASE row' = row
  BY <1>5
<1> QED
  BY <1>2, <1>3, <1>4, <1>5, RowWriters

(* A clock that is over runs again only where a request that had found it  *)
(* running or paused writes over it by id; BreachStays and CancelledStays  *)
(* fail in the model because the code does.  No resume and no start        *)
(* brings it back: resume_sla and the resume of a case select paused rows, *)
(* and a start inserts a row of its own.                                   *)
THEOREM OverStaysOver ==
  Spec => [][\A i \in Rows :
               IsOver(row[i]) => IsOver(row'[i]) \/ i \in overwritten']_vars
<1>1. IInv /\ [Next]_vars =>
        [\A i \in Rows : IsOver(row[i]) => IsOver(row'[i]) \/ i \in overwritten']_vars
  BY OverStep
<1> QED
  BY <1>1, CompanionInvariant, PTL DEF Spec
-----------------------------------------------------------------------------
(* What it would take to have the strong forms.                            *)

(* The rows a transaction has found stay as they were found until it ends, *)
(* for a request and for a firing: what SELECT ... FOR UPDATE provides.    *)
ReadsHold ==
  /\ \A q \in Slots : \A i \in request[q].rows : row[i].status \in Fits(request[q].op)
  /\ \A i \in Rows : timer[i].pc = "write" => row[i].status = "running"

LEMMA HoldingKeepsClean ==
  ASSUME ReadsHold, overwritten = {}, [Next]_vars
  PROVE  overwritten' = {}
<1>1. ASSUME NEW q \in Slots, Commit(q) PROVE overwritten' = {}
  BY <1>1 DEF Commit, ReadsHold
<1>2. CASE UNCHANGED vars
  BY <1>2 DEF vars
<1>3. CASE CaseRequest \/ \E q \in Hands : HandRequest(q)
  BY <1>3 DEF CaseRequest, StartStage, Insert, SelectWait, SelectResume, SelectEnd, SelectAll,
     Reopen, Takes, HandRequest, StartByHand, SelectByHand
<1>4. ASSUME NEW q \in Slots, Update(q) \/ Rollback(q) PROVE overwritten' = {}
  BY <1>4 DEF Update, Rollback
<1>5. CASE CompanionStep \/ ContinueAsNew
  BY <1>5 DEF CompanionStep, WakeAll, Rescan, Finish, Await, ContinueAsNew, Others
<1>6. ASSUME NEW i \in Rows, Deadline(i) \/ TimerStep(i) PROVE overwritten' = {}
  BY <1>6 DEF Deadline, TimerStep, Check, Wake, FireRead, FireWrite, AllButTimer, Others
<1> QED
  BY <1>1, <1>2, <1>3, <1>4, <1>5, <1>6 DEF Next

LEMMA CancelledStep ==
  ASSUME IInv, ReadsHold, [Next]_vars, NEW i \in Rows, row[i].status = "cancelled"
  PROVE  row'[i].status = "cancelled"
<1>1. row \in [Rows -> Row]
  BY DEF IInv, TypeOK, Row
<1>2. ASSUME NEW q \in Slots, Commit(q) PROVE row'[i].status = "cancelled"
  <2>1. i \notin request[q].rows
    BY OverNeverFits DEF ReadsHold
  <2> QED
    BY <1>2, <2>1, CommitEffect
<1>3. ASSUME NEW j \in Rows, Deadline(j) PROVE row'[i].status = "cancelled"
  BY <1>1, <1>3 DEF Deadline, Row
<1>4. ASSUME NEW j \in Rows, FireWrite(j) PROVE row'[i].status = "cancelled"
  BY <1>1, <1>4 DEF FireWrite, ReadsHold
<1>5. CASE row' = row
  BY <1>5
<1> QED
  BY <1>2, <1>3, <1>4, <1>5, RowWriters

(* The repair, and not a claim about the code as it is: were pause_sla,    *)
(* resume_sla, cancel_slas_for_case and fire_sla_event to lock the rows    *)
(* they read, then timers would end with their clocks without exception    *)
(* and a cancelled clock would stay cancelled.                             *)
THEOREM RowLocksWouldDo ==
  Spec /\ []ReadsHold
    => /\ [](\A i \in Rows : timer[i].pc = "done" => IsOver(row[i]))
       /\ CancelledStays
<1>1. Init => overwritten = {}
  BY DEF Init
<1>2. ReadsHold /\ overwritten = {} /\ [Next]_vars => (overwritten = {})'
  BY HoldingKeepsClean
<1>3. IInv /\ overwritten = {} => \A i \in Rows : timer[i].pc = "done" => IsOver(row[i])
  BY DEF IInv, DoneMeansOver, IsOver
<1>4. IInv /\ ReadsHold /\ [Next]_vars =>
        [\A i \in Rows : row[i].status = "cancelled" => row'[i].status = "cancelled"]_vars
  BY CancelledStep
<1> QED
  BY <1>1, <1>2, <1>3, <1>4, CompanionInvariant, PTL DEF Spec, CancelledStays
=============================================================================
