------------------------- MODULE OfflineVariablesProofs -------------------------
(***************************************************************************)
(* Proofs about OfflineVariables.  An edit's stamp identifies it: a device *)
(* counts up, and a stored stamp is that of an applied edit.  While nobody *)
(* has written over a sync, stamps in rows only grow, so what a sync read  *)
(* is behind the row, and the winner of every merge stays the winner.      *)
(***************************************************************************)
EXTENDS OfflineVariables, TLAPS

(* Every edit a device, a request or a report still holds.                 *)
Known ==
  {e \in Edit : \/ \E d \in Devices : e \in queue[d] \/ e \in last[d]
                \/ \E f \in Flights : e \in flight[f].edits
                \/ \E r \in report : r.edit = e}

OneEach(edits) == \A e, other \in edits : e.key = other.key => e = other

KnownDated == \A e \in Known : e.lamport <= clock[e.origin] /\ e.value <= values

StampsUnique ==
  \A e, other \in Known :
    e.lamport = other.lamport /\ e.origin = other.origin => e = other

QueuesLatest == \A d \in Devices : queue[d] \subseteq last[d] /\ OneEach(last[d])

FlightsWhole ==
  \A f \in Flights : /\ OneEach(flight[f].edits)
                     /\ flight[f].at = "idle" => flight[f].edits = {}

AnsweredReported ==
  \A f \in Flights : flight[f].at = "answered" =>
    \A e \in flight[f].edits : \E r \in report : r.edit = e

(* An edit later than one in flight was queued during that flight.         *)
LaterRaced ==
  \A f \in Flights : \A x \in flight[f].edits : \A e \in last[flight[f].device] :
    e.key = x.key => e = x \/ <<flight[f].device, e.key>> \in raced

DeviceInv ==
  /\ KnownDated /\ StampsUnique /\ QueuesLatest /\ FlightsWhole
  /\ AnsweredReported /\ LaterRaced /\ LastEditKept

(* The stamp of a row or of a row read is that of an applied edit.         *)
Backed(k, r) ==
  \E x \in report : /\ x.outcome = "applied" /\ x.edit.key = k
                    /\ x.edit.lamport = r.lamport /\ x.edit.origin = r.origin

RowsWhole ==
  \A k \in Keys \ mixed :
    /\ row[k] = NoRow \/ ((row[k].text = Null) # (row[k].num = Null))
    /\ row[k].origin = Nobody \/ Backed(k, row[k])

ReadsBehind ==
  \A f \in Flights : flight[f].at = "merging" =>
    \A k \in Keys \ mixed :
      /\ ~Dominates(flight[f].base[k], row[k])
      /\ flight[f].base[k] # NoRow => row[k] # NoRow
      /\ flight[f].base[k].origin = Nobody \/ Backed(k, flight[f].base[k])

ServerInv == RowsWhole /\ ReadsBehind /\ Converges

IInv == TypeOK /\ DeviceInv /\ ServerInv
-----------------------------------------------------------------------------
(* What neither writes rows nor reports leaves the server's part alone.    *)
LEMMA ServerFrame ==
  ASSUME ServerInv, UNCHANGED <<row, report, mixed>>,
         \A f \in Flights : flight'[f].at = "merging" =>
           flight[f].at = "merging" /\ flight'[f].base = flight[f].base
  PROVE  ServerInv'
<1>1. RowsWhole'
  BY DEF ServerInv, RowsWhole, Backed
<1>2. ReadsBehind'
  BY DEF ServerInv, ReadsBehind, Backed
<1>3. Converges'
  BY DEF ServerInv, Converges, Merged
<1> QED
  BY <1>1, <1>2, <1>3 DEF ServerInv

(* Edits that were known stay dated and unique while the counters grow.    *)
LEMMA KnownFrame ==
  ASSUME TypeOK, TypeOK', KnownDated, StampsUnique, Known' \subseteq Known,
         \A d \in Devices : clock[d] <= clock'[d], values <= values'
  PROVE  KnownDated' /\ StampsUnique'
<1>1. KnownDated'
  <2> SUFFICES ASSUME NEW e \in Known'
               PROVE  e.lamport <= clock'[e.origin] /\ e.value <= values'
    BY DEF KnownDated
  <2>1. e \in Edit /\ e.lamport <= clock[e.origin] /\ e.value <= values
    BY DEF KnownDated, Known
  <2>2. e.origin \in Devices /\ e.lamport \in Nat /\ e.value \in 1..MaxValues
    BY <2>1 DEF Edit
  <2>3. clock[e.origin] \in Nat /\ clock'[e.origin] \in Nat
    BY <2>2 DEF TypeOK
  <2>4. values \in 1..MaxValues /\ values' \in 1..MaxValues /\ MaxValues \in Nat
    BY OfflineAssumption DEF TypeOK
  <2> QED
    BY <2>1, <2>2, <2>3, <2>4
<1>2. StampsUnique'
  BY DEF StampsUnique
<1> QED
  BY <1>1, <1>2

THEOREM Initially == Init => IInv
<1> SUFFICES ASSUME Init PROVE IInv
  OBVIOUS
<1> USE OfflineAssumption
<1>1. NoRow \in Row
  BY DEF NoRow, Unstamped, Row, Null, Nobody
<1>2. Unstamped(1, Null) \in Row
  BY DEF Unstamped, Row, Null, Nobody
<1>3. Idle \in SyncRequest
  BY <1>1 DEF Idle, Request, NoRows, SyncRequest
<1>4. TypeOK
  BY <1>1, <1>2, <1>3 DEF Init, TypeOK, Idle, Request
<1>5. Known = {}
  BY DEF Known, Init, Idle, Request
<1>6. DeviceInv
  BY <1>5 DEF DeviceInv, KnownDated, StampsUnique, QueuesLatest, OneEach, FlightsWhole,
     AnsweredReported, LaterRaced, LastEditKept, Init, Idle, Request
<1>7. \A k \in Keys : /\ row[k].origin = Nobody
                      /\ row[k] = NoRow \/ ((row[k].text = Null) # (row[k].num = Null))
  BY DEF Init, NoRow, Unstamped, Null, Nobody
<1>8. ServerInv
  BY <1>7 DEF ServerInv, RowsWhole, ReadsBehind, Converges, Merged, Init, Idle, Request
<1> QED
  BY <1>4, <1>6, <1>8 DEF IInv
-----------------------------------------------------------------------------
(* Types.                                                                  *)

LEMMA RequestType ==
  ASSUME NEW at \in {"idle", "posted", "merging", "answered"},
         NEW d \in Devices \cup {Nobody}, NEW edits \in SUBSET Edit,
         NEW base \in [Keys -> Row], NEW told \in Nat
  PROVE  Request(at, d, edits, base, told) \in SyncRequest
BY DEF Request, SyncRequest

LEMMA NoRowType == NoRow \in Row /\ NoRows \in [Keys -> Row] /\ Idle \in SyncRequest
<1>1. NoRow \in Row
  BY OfflineAssumption DEF NoRow, Unstamped, Row, Null, Nobody
<1>2. NoRows \in [Keys -> Row]
  BY <1>1 DEF NoRows
<1> QED
  BY <1>1, <1>2 DEF Idle, Request, SyncRequest

LEMMA ColumnType ==
  ASSUME NEW column, NEW v \in 1..MaxValues
  PROVE  InColumn(column, v) \in 0..MaxValues
BY OfflineAssumption DEF InColumn, Null

LEMMA FlightType ==
  ASSUME TypeOK, NEW f \in Flights
  PROVE  /\ flight[f].at \in {"idle", "posted", "merging", "answered"}
         /\ flight[f].device \in Devices \cup {Nobody}
         /\ flight[f].at # "idle" => flight[f].device \in Devices
         /\ flight[f].edits \in SUBSET Edit
         /\ flight[f].base \in [Keys -> Row]
         /\ flight[f].told \in Nat
<1>1. flight[f] \in SyncRequest /\ (flight[f].at # "idle" => flight[f].device \in Devices)
  BY DEF TypeOK
<1> QED
  BY <1>1 DEF SyncRequest

LEMMA QueueEditType ==
  ASSUME TypeOK, NEW d \in Devices, NEW k \in Keys, QueueEdit(d, k)
  PROVE  TypeOK'
<1> DEFINE e == [key |-> k, value |-> values + 1,
                 lamport |-> Tick(clock[d], 0), origin |-> d]
<1>1. Tick(clock[d], 0) \in Nat
  BY DEF TypeOK, Tick, Larger
<1>2. values + 1 \in 1..MaxValues
  BY OfflineAssumption DEF TypeOK, QueueEdit
<1>3. e \in Edit
  BY <1>1, <1>2 DEF Edit
<1>4. /\ clock' = [clock EXCEPT ![d] = Tick(clock[d], 0)]
      /\ queue' = [queue EXCEPT ![d] = Put(queue[d], e)]
      /\ last' = [last EXCEPT ![d] = Put(last[d], e)]
      /\ values' = values + 1
      /\ raced' \subseteq raced \cup {<<d, k>>}
      /\ UNCHANGED <<row, flight, losses, report, mixed>>
  BY DEF QueueEdit
<1> HIDE DEF e
<1>5. clock' \in [Devices -> Nat]
  BY <1>1, <1>4 DEF TypeOK
<1>6. queue' \in [Devices -> SUBSET Edit] /\ last' \in [Devices -> SUBSET Edit]
  <2>1. Put(queue[d], e) \in SUBSET Edit /\ Put(last[d], e) \in SUBSET Edit
    BY <1>3 DEF TypeOK, Put
  <2> QED
    BY <2>1, <1>4 DEF TypeOK
<1>7. \A c \in Devices : \A x, y \in queue'[c] : x.key = y.key => x = y
  BY <1>4 DEF TypeOK, Put
<1>8. raced' \subseteq Devices \X Keys
  BY <1>4 DEF TypeOK
<1> QED
  BY <1>2, <1>4, <1>5, <1>6, <1>7, <1>8 DEF TypeOK

(* Steps that replace one request, and may shorten queues.                 *)
LEMMA RequestStepType ==
  ASSUME TypeOK, NEW f \in Flights, NEW r \in SyncRequest,
         r.at # "idle" => r.device \in Devices,
         flight' = [flight EXCEPT ![f] = r],
         queue' \in [Devices -> SUBSET Edit], \A d \in Devices : queue'[d] \subseteq queue[d],
         clock' \in [Devices -> Nat], row' \in [Keys -> Row], losses' \in 0..MaxLosses,
         report' \subseteq [edit : Edit, outcome : Outcome], mixed' \subseteq Keys,
         UNCHANGED <<values, last, raced>>
  PROVE  TypeOK'
<1>1. flight' \in [Flights -> SyncRequest]
  BY DEF TypeOK
<1>2. \A g \in Flights : flight'[g].at # "idle" => flight'[g].device \in Devices
  BY DEF TypeOK
<1>3. \A d \in Devices : \A e, other \in queue'[d] : e.key = other.key => e = other
  BY DEF TypeOK
<1> QED
  BY <1>1, <1>2, <1>3 DEF TypeOK

LEMMA FlushType ==
  ASSUME TypeOK, NEW f \in Flights, NEW d \in Devices, Flush(f, d)
  PROVE  TypeOK'
<1>1. queue[d] \in SUBSET Edit
  BY DEF TypeOK
<1>2. Request("posted", d, queue[d], NoRows, 0) \in SyncRequest
  BY <1>1, NoRowType, RequestType
<1>3. Request("posted", d, queue[d], NoRows, 0).device = d
  BY DEF Request
<1> HIDE DEF Request
<1>4. /\ flight' = [flight EXCEPT ![f] = Request("posted", d, queue[d], NoRows, 0)]
      /\ UNCHANGED <<row, clock, queue, values, losses, report, last, raced, mixed>>
  BY DEF Flush, history
<1>5. /\ queue' \in [Devices -> SUBSET Edit] /\ clock' \in [Devices -> Nat]
      /\ row' \in [Keys -> Row] /\ losses' \in 0..MaxLosses
      /\ report' \subseteq [edit : Edit, outcome : Outcome] /\ mixed' \subseteq Keys
      /\ \A c \in Devices : queue'[c] \subseteq queue[c]
  BY <1>4 DEF TypeOK
<1> QED
  BY <1>2, <1>3, <1>4, <1>5, RequestStepType

LEMMA DropType ==
  ASSUME TypeOK, NEW f \in Flights, NEW e \in flight[f].edits, Drop(f, e)
  PROVE  TypeOK'
<1> DEFINE r == [flight[f] EXCEPT !.edits = @ \ {e}]
<1>1. r \in SyncRequest /\ r.at = flight[f].at /\ r.device = flight[f].device
  <2>1. flight[f] \in SyncRequest
    BY DEF TypeOK
  <2> QED
    BY <2>1 DEF SyncRequest
<1>2. r.at # "idle" => r.device \in Devices
  BY <1>1, FlightType
<1>3. flight' = [flight EXCEPT ![f] = r]
  BY DEF Drop
<1>4. flight[f].device \in Devices
  BY FlightType DEF Drop
<1>5. /\ queue' = [queue EXCEPT ![flight[f].device] =
                     {other \in queue[flight[f].device] : other.key # e.key}]
      /\ UNCHANGED <<row, clock, values, losses, report, last, raced, mixed>>
  BY DEF Drop, history
<1> HIDE DEF r
<1>6. queue' \in [Devices -> SUBSET Edit] /\ \A c \in Devices : queue'[c] \subseteq queue[c]
  BY <1>4, <1>5 DEF TypeOK
<1>7. /\ clock' \in [Devices -> Nat]
      /\ row' \in [Keys -> Row] /\ losses' \in 0..MaxLosses
      /\ report' \subseteq [edit : Edit, outcome : Outcome] /\ mixed' \subseteq Keys
  BY <1>5 DEF TypeOK
<1> QED
  BY <1>1, <1>2, <1>3, <1>5, <1>6, <1>7, RequestStepType

LEMMA AdoptEffect ==
  ASSUME TypeOK, NEW f \in Flights, Adopt(f)
  PROVE  /\ clock' \in [Devices -> Nat]
         /\ \A d \in Devices : clock[d] <= clock'[d]
         /\ flight' = [flight EXCEPT ![f] = Idle]
         /\ UNCHANGED <<row, queue, values, losses, report, last, raced, mixed>>
<1>1. flight[f].told \in Nat /\ flight[f].device \in Devices
  BY FlightType DEF Adopt
<1>2. \A c \in Nat : Tick(c, flight[f].told) \in Nat /\ c <= Tick(c, flight[f].told)
  BY <1>1 DEF Tick, Larger
<1>3. clock' = clock \/ clock' = [clock EXCEPT ![flight[f].device] =
                                    Tick(clock[flight[f].device], flight[f].told)]
  BY DEF Adopt
<1>4. clock \in [Devices -> Nat]
  BY DEF TypeOK
<1>5. clock' \in [Devices -> Nat]
  BY <1>1, <1>2, <1>3, <1>4
<1>6. \A d \in Devices : clock[d] <= clock'[d]
  BY <1>1, <1>2, <1>3, <1>4
<1> QED
  BY <1>5, <1>6 DEF Adopt, history

LEMMA AdoptType ==
  ASSUME TypeOK, NEW f \in Flights, Adopt(f)
  PROVE  TypeOK'
<1>1. Idle \in SyncRequest /\ Idle.at = "idle"
  BY NoRowType DEF Idle, Request
<1>2. /\ queue' \in [Devices -> SUBSET Edit] /\ \A c \in Devices : queue'[c] \subseteq queue[c]
      /\ row' \in [Keys -> Row] /\ losses' \in 0..MaxLosses
      /\ report' \subseteq [edit : Edit, outcome : Outcome] /\ mixed' \subseteq Keys
  BY AdoptEffect DEF TypeOK
<1> QED
  BY <1>1, <1>2, AdoptEffect, RequestStepType

LEMMA LoseType ==
  ASSUME TypeOK, NEW f \in Flights, Lose(f)
  PROVE  TypeOK'
<1>1. Idle \in SyncRequest /\ Idle.at = "idle"
  BY NoRowType DEF Idle, Request
<1>2. losses' \in 0..MaxLosses
  BY OfflineAssumption DEF TypeOK, Lose
<1>3. /\ flight' = [flight EXCEPT ![f] = Idle]
      /\ UNCHANGED <<row, clock, queue, values, report, last, raced, mixed>>
  BY DEF Lose, history
<1>4. /\ queue' \in [Devices -> SUBSET Edit] /\ \A c \in Devices : queue'[c] \subseteq queue[c]
      /\ row' \in [Keys -> Row] /\ clock' \in [Devices -> Nat]
      /\ report' \subseteq [edit : Edit, outcome : Outcome] /\ mixed' \subseteq Keys
  BY <1>3 DEF TypeOK
<1> QED
  BY <1>1, <1>2, <1>3, <1>4, RequestStepType

LEMMA ReadRowsType ==
  ASSUME TypeOK, NEW f \in Flights, ReadRows(f)
  PROVE  TypeOK'
<1>1. /\ flight[f].device \in Devices /\ flight[f].edits \in SUBSET Edit
      /\ row \in [Keys -> Row]
  BY FlightType DEF ReadRows, TypeOK
<1> DEFINE r == Request("merging", flight[f].device, flight[f].edits, row, 0)
<1>2. r \in SyncRequest
  BY <1>1, RequestType
<1>3. r.device = flight[f].device
  BY DEF Request
<1>4. /\ flight' = [flight EXCEPT ![f] = r]
      /\ UNCHANGED <<row, clock, queue, values, losses, report, last, raced, mixed>>
  BY DEF ReadRows, history
<1> HIDE DEF r
<1>5. /\ queue' \in [Devices -> SUBSET Edit] /\ \A c \in Devices : queue'[c] \subseteq queue[c]
      /\ row' \in [Keys -> Row] /\ clock' \in [Devices -> Nat] /\ losses' \in 0..MaxLosses
      /\ report' \subseteq [edit : Edit, outcome : Outcome] /\ mixed' \subseteq Keys
  BY <1>4 DEF TypeOK
<1> QED
  BY <1>1, <1>2, <1>3, <1>4, <1>5, RequestStepType

LEMMA SetVariableType ==
  ASSUME TypeOK, NEW k \in Keys, SetVariable(k)
  PROVE  TypeOK'
<1> DEFINE r == [text |-> InColumn("text", values + 1), num |-> InColumn("num", values + 1),
                 lamport |-> row[k].lamport, origin |-> row[k].origin]
<1>1. values + 1 \in 1..MaxValues
  BY OfflineAssumption DEF TypeOK, SetVariable
<1>2. row[k] \in Row /\ row \in [Keys -> Row]
  BY DEF TypeOK
<1>3. r \in Row
  BY <1>1, <1>2, ColumnType DEF Row
<1>4. /\ row' = [row EXCEPT ![k] = r] /\ values' = values + 1
      /\ UNCHANGED <<clock, queue, flight, losses, report, last, raced, mixed>>
  BY DEF SetVariable, history
<1> HIDE DEF r
<1>5. row' \in [Keys -> Row]
  BY <1>2, <1>3, <1>4
<1> QED
  BY <1>1, <1>4, <1>5 DEF TypeOK

LEMMA PackedType ==
  ASSUME NEW e \in Edit
  PROVE  Packed(e) \in Row
<1>1. e.value \in 1..MaxValues /\ e.lamport \in Nat /\ e.origin \in Devices
  BY DEF Edit
<1>2. InColumn("text", e.value) \in 0..MaxValues /\ InColumn("num", e.value) \in 0..MaxValues
  BY <1>1, ColumnType
<1> QED
  BY <1>1, <1>2 DEF Packed, Row

LEMMA UpdatedType ==
  ASSUME NEW c \in Row, NEW r \in Row, NEW n \in Row
  PROVE  /\ Updated(c, r, n) \in Row
         /\ c = r => Updated(c, r, n) = n
<1>1. /\ Changed(c.text, r.text, n.text) \in 0..MaxValues
      /\ Changed(c.num, r.num, n.num) \in 0..MaxValues
      /\ Changed(c.lamport, r.lamport, n.lamport) \in Nat
      /\ Changed(c.origin, r.origin, n.origin) \in Devices \cup {Nobody}
  BY DEF Changed, Row
<1>2. Updated(c, r, n) \in Row
  BY <1>1 DEF Updated, Row
<1>3. ASSUME c = r
      PROVE  Updated(c, r, n) = n
  <2>1. /\ Changed(c.text, r.text, n.text) = n.text
        /\ Changed(c.num, r.num, n.num) = n.num
        /\ Changed(c.lamport, r.lamport, n.lamport) = n.lamport
        /\ Changed(c.origin, r.origin, n.origin) = n.origin
    BY <1>3 DEF Changed
  <2>2. n = [text |-> n.text, num |-> n.num, lamport |-> n.lamport, origin |-> n.origin]
    BY DEF Row
  <2> QED
    BY <2>1, <2>2 DEF Updated
<1> QED
  BY <1>2, <1>3

LEMMA MergeCases ==
  ASSUME NEW e, NEW r
  PROVE  /\ Merge(e, r) \in Outcome
         /\ Merge(e, r) = "rejected" <=> r = NoRow \/ KindOf[e.value] = "big"
         /\ Merge(e, r) = "applied" => Dominates(e, r)
         /\ Merge(e, r) = "ignored" => ~Dominates(e, r)
         /\ Merge(e, r) = "duplicate" => e.lamport = r.lamport /\ e.origin = r.origin
BY DEF Merge, Outcome

LEMMA CommitEffect ==
  ASSUME TypeOK, NEW f \in Flights, Commit(f)
  PROVE  /\ flight[f].at = "merging"
         /\ row' \in [Keys -> Row]
         /\ \A k \in Keys :
              \/ /\ row'[k] = row[k]
                 /\ \A e \in flight[f].edits :
                      e.key = k => Merge(e, flight[f].base[k]) # "applied"
              \/ \E e \in flight[f].edits :
                   /\ e.key = k /\ Merge(e, flight[f].base[k]) = "applied"
                   /\ row'[k] = Updated(row[k], flight[f].base[k], Packed(e))
         /\ report' = report \cup
              {[edit |-> e, outcome |-> Merge(e, flight[f].base[e.key])] : e \in flight[f].edits}
         /\ \A k \in mixed : k \in mixed'
         /\ \A e \in flight[f].edits :
              Merge(e, flight[f].base[e.key]) = "applied" /\ e.key \notin mixed'
                => row[e.key] = flight[f].base[e.key]
         /\ \E told \in Nat : flight' = [flight EXCEPT ![f] =
              Request("answered", flight[f].device, flight[f].edits, NoRows, told)]
         /\ report' \subseteq [edit : Edit, outcome : Outcome] /\ mixed' \subseteq Keys
         /\ UNCHANGED <<clock, queue, values, losses, last, raced>>
<1> DEFINE read == flight[f].base
           edits == flight[f].edits
           applied == {e \in edits : Merge(e, read[e.key]) = "applied"}
<1>1. edits \in SUBSET Edit /\ read \in [Keys -> Row] /\ row \in [Keys -> Row]
  BY FlightType DEF TypeOK
<1>2. \A e \in edits : e \in Edit /\ e.key \in Keys /\ e.lamport \in Nat
  BY <1>1 DEF Edit
<1>3. row' = [k \in Keys |->
          IF \E e \in applied : e.key = k
          THEN Updated(row[k], read[k], Packed(CHOOSE e \in applied : e.key = k))
          ELSE row[k]]
  BY DEF Commit
<1>4. ASSUME NEW k \in Keys
      PROVE  \/ /\ row'[k] = row[k]
                /\ \A e \in edits : e.key = k => Merge(e, read[k]) # "applied"
             \/ \E e \in edits : /\ e.key = k /\ Merge(e, read[k]) = "applied"
                                 /\ row'[k] = Updated(row[k], read[k], Packed(e))
  <2>1. CASE \E e \in applied : e.key = k
    <3> DEFINE w == CHOOSE e \in applied : e.key = k
    <3>1. w \in applied /\ w.key = k
      BY <2>1
    <3>2. row'[k] = Updated(row[k], read[k], Packed(w))
      BY <1>3, <2>1
    <3> QED
      BY <3>1, <3>2
  <2>2. CASE ~\E e \in applied : e.key = k
    <3>1. row'[k] = row[k]
      BY <1>3, <2>2
    <3> QED
      BY <2>2, <3>1
  <2> QED
    BY <2>1, <2>2
<1>5. row' \in [Keys -> Row]
  <2>1. ASSUME NEW k \in Keys
        PROVE  row'[k] \in Row
    <3>1. ASSUME NEW e \in edits
          PROVE  Updated(row[k], read[k], Packed(e)) \in Row
      BY <1>1, <1>2, PackedType, UpdatedType
    <3>2. row[k] \in Row
      BY <1>1
    <3> QED
      BY <1>4, <3>1, <3>2
  <2>2. row' = [k \in Keys |-> row'[k]]
    BY <1>3
  <2> QED
    BY <2>1, <2>2
<1>6. report' = report \cup {[edit |-> e, outcome |-> Merge(e, read[e.key])] : e \in edits}
  BY DEF Commit
<1>7. report' \subseteq [edit : Edit, outcome : Outcome]
  <2>1. \A e \in edits : [edit |-> e, outcome |-> Merge(e, read[e.key])]
                            \in [edit : Edit, outcome : Outcome]
    BY <1>2, MergeCases
  <2> QED
    BY <1>6, <2>1 DEF TypeOK
<1>8. mixed' = mixed \cup {e.key : e \in {x \in applied : row[x.key] # read[x.key]}}
  BY DEF Commit
<1>9. /\ mixed' \subseteq Keys /\ \A k \in mixed : k \in mixed'
      /\ \A e \in edits : Merge(e, read[e.key]) = "applied" /\ e.key \notin mixed'
                            => row[e.key] = read[e.key]
  BY <1>2, <1>8 DEF TypeOK
<1>10. \E told \in Nat : flight' = [flight EXCEPT ![f] =
              Request("answered", flight[f].device, edits, NoRows, told)]
  <2>1. ASSUME NEW e \in edits
        PROVE  Told(e, read[e.key]) \in Nat
    <3>1. read[e.key].lamport \in Nat /\ e.lamport \in Nat
      BY <1>1, <1>2 DEF Row
    <3> QED
      BY <3>1 DEF Told
  <2>2. \E highest \in {Told(e, read[e.key]) : e \in edits} :
          flight' = [flight EXCEPT ![f] =
               Request("answered", flight[f].device, edits, NoRows, highest)]
    BY DEF Commit
  <2> QED
    BY <2>1, <2>2
<1>11. flight[f].at = "merging" /\ UNCHANGED <<clock, queue, values, losses, last, raced>>
  BY DEF Commit
<1> QED
  BY <1>4, <1>5, <1>6, <1>7, <1>9, <1>10, <1>11

LEMMA CommitType ==
  ASSUME TypeOK, NEW f \in Flights, Commit(f)
  PROVE  TypeOK'
<1>1. PICK told \in Nat : flight' = [flight EXCEPT ![f] =
              Request("answered", flight[f].device, flight[f].edits, NoRows, told)]
  BY CommitEffect
<1> DEFINE r == Request("answered", flight[f].device, flight[f].edits, NoRows, told)
<1>2. flight[f].device \in Devices /\ flight[f].edits \in SUBSET Edit
  BY FlightType DEF Commit
<1>3. r \in SyncRequest
  BY <1>2, NoRowType, RequestType
<1>4. r.device = flight[f].device
  BY DEF Request
<1>7. flight' = [flight EXCEPT ![f] = r]
  BY <1>1
<1> HIDE DEF r
<1>5. /\ row' \in [Keys -> Row] /\ report' \subseteq [edit : Edit, outcome : Outcome]
      /\ mixed' \subseteq Keys /\ UNCHANGED <<clock, queue, values, losses, last, raced>>
  BY CommitEffect
<1>6. /\ queue' \in [Devices -> SUBSET Edit] /\ \A c \in Devices : queue'[c] \subseteq queue[c]
      /\ clock' \in [Devices -> Nat] /\ losses' \in 0..MaxLosses
  BY <1>5 DEF TypeOK
<1> QED
  BY <1>2, <1>3, <1>4, <1>5, <1>6, <1>7, RequestStepType

LEMMA TypeStep == TypeOK /\ [Next]_vars => TypeOK'
<1> SUFFICES ASSUME TypeOK, [Next]_vars PROVE TypeOK'
  OBVIOUS
<1>1. ASSUME NEW d \in Devices, NEW k \in Keys, QueueEdit(d, k) PROVE TypeOK'
  BY <1>1, QueueEditType
<1>2. ASSUME NEW f \in Flights, NEW d \in Devices, Flush(f, d) PROVE TypeOK'
  BY <1>2, FlushType
<1>3. ASSUME NEW f \in Flights, ReadRows(f) PROVE TypeOK'
  BY <1>3, ReadRowsType
<1>4. ASSUME NEW f \in Flights, Commit(f) PROVE TypeOK'
  BY <1>4, CommitType
<1>5. ASSUME NEW f \in Flights, Adopt(f) PROVE TypeOK'
  BY <1>5, AdoptType
<1>6. ASSUME NEW f \in Flights, Lose(f) PROVE TypeOK'
  BY <1>6, LoseType
<1>7. ASSUME NEW f \in Flights, NEW e \in flight[f].edits, Drop(f, e) PROVE TypeOK'
  BY <1>7, DropType
<1>8. ASSUME NEW k \in Keys, SetVariable(k) PROVE TypeOK'
  BY <1>8, SetVariableType
<1>9. CASE UNCHANGED vars
  BY <1>9 DEF vars, history, TypeOK
<1> QED
  BY <1>1, <1>2, <1>3, <1>4, <1>5, <1>6, <1>7, <1>8, <1>9 DEF Next

THEOREM TypeCorrect == Spec => []TypeOK
<1>1. Init => TypeOK
  BY Initially DEF IInv
<1> QED
  BY <1>1, TypeStep, PTL DEF Spec
-----------------------------------------------------------------------------
(* The device's part.                                                      *)

LEMMA QueueEditDevice ==
  ASSUME TypeOK, TypeOK', DeviceInv, NEW d \in Devices, NEW k \in Keys, QueueEdit(d, k)
  PROVE  DeviceInv'
<1> USE DEF DeviceInv
<1> DEFINE e == [key |-> k, value |-> values + 1,
                 lamport |-> Tick(clock[d], 0), origin |-> d]
<1>1. /\ clock[d] \in Nat /\ values \in Nat /\ clock \in [Devices -> Nat]
      /\ Tick(clock[d], 0) = clock[d] + 1
  BY OfflineAssumption DEF TypeOK, Tick, Larger
<1>2. /\ clock' = [clock EXCEPT ![d] = clock[d] + 1]
      /\ queue' = [queue EXCEPT ![d] = Put(queue[d], e)]
      /\ last' = [last EXCEPT ![d] = Put(last[d], e)]
      /\ values' = values + 1
      /\ raced' = IF InFlight(d, k) THEN raced \cup {<<d, k>>} ELSE raced \ {<<d, k>>}
      /\ UNCHANGED <<row, flight, losses, report, mixed>>
  BY <1>1 DEF QueueEdit
<1>3. /\ e.key = k /\ e.value = values + 1 /\ e.lamport = clock[d] + 1 /\ e.origin = d
  BY <1>1
<1> HIDE DEF e
<1>4. queue \in [Devices -> SUBSET Edit] /\ last \in [Devices -> SUBSET Edit]
  BY DEF TypeOK
<1>5. /\ queue'[d] = Put(queue[d], e) /\ last'[d] = Put(last[d], e)
      /\ \A c \in Devices : c # d => queue'[c] = queue[c] /\ last'[c] = last[c]
  BY <1>2, <1>4
<1>6. Known' \subseteq Known \cup {e}
  BY <1>2, <1>5 DEF Known, Put
<1>7. \A x \in Known : /\ x.origin \in Devices /\ x.lamport \in Nat /\ x.value \in Nat
                       /\ x.lamport <= clock[x.origin] /\ x.value <= values
  <2> SUFFICES ASSUME NEW x \in Known
               PROVE  /\ x.origin \in Devices /\ x.lamport \in Nat /\ x.value \in Nat
                      /\ x.lamport <= clock[x.origin] /\ x.value <= values
    OBVIOUS
  <2>1. x \in Edit
    BY DEF Known
  <2>2. x.value \in 1..MaxValues /\ MaxValues \in Nat
    BY <2>1, OfflineAssumption DEF Edit
  <2>3. x.origin \in Devices /\ x.lamport \in Nat /\ x.value \in Nat
    BY <2>1, <2>2 DEF Edit
  <2> QED
    BY <2>3 DEF KnownDated
<1>8. KnownDated'
  <2> SUFFICES ASSUME NEW x \in Known'
               PROVE  x.lamport <= clock'[x.origin] /\ x.value <= values'
    BY DEF KnownDated
  <2>1. CASE x = e
    BY <2>1, <1>1, <1>2, <1>3
  <2>2. CASE x \in Known
    <3>1. clock[x.origin] \in Nat /\ clock[x.origin] <= clock'[x.origin]
      BY <1>1, <1>2, <1>7, <2>2
    <3>2. clock'[x.origin] \in Nat
      BY <1>1, <1>2, <1>7, <2>2
    <3> QED
      BY <1>1, <1>2, <1>7, <2>2, <3>1, <3>2
  <2> QED
    BY <1>6, <2>1, <2>2
<1>9. StampsUnique'
  <2>1. \A x \in Known : ~(x.lamport = e.lamport /\ x.origin = e.origin)
    BY <1>1, <1>3, <1>7
  <2> QED
    BY <1>6, <2>1 DEF StampsUnique
<1>10. QueuesLatest'
  <2>1. queue[d] \subseteq last[d] /\ OneEach(last[d])
    BY DEF QueuesLatest
  <2>2. Put(queue[d], e) \subseteq Put(last[d], e) /\ OneEach(Put(last[d], e))
    BY <2>1 DEF Put, OneEach
  <2> QED
    BY <1>5, <2>2 DEF QueuesLatest, OneEach
<1>11. FlightsWhole' /\ AnsweredReported'
  BY <1>2 DEF FlightsWhole, AnsweredReported, OneEach
<1>12. LaterRaced'
  <2> SUFFICES ASSUME NEW f \in Flights, NEW x \in flight[f].edits,
                      NEW y \in last'[flight[f].device], y.key = x.key
               PROVE  y = x \/ <<flight[f].device, y.key>> \in raced'
    BY <1>2 DEF LaterRaced
  <2>1. flight[f].device \in Devices
    BY FlightType DEF FlightsWhole
  <2>2. CASE flight[f].device = d /\ y.key = k
    <3>1. InFlight(d, k)
      BY <2>2 DEF InFlight
    <3> QED
      BY <1>2, <2>2, <3>1
  <2>3. CASE flight[f].device = d /\ y.key # k
    <3>1. y \in last[d]
      BY <1>3, <1>5, <2>3 DEF Put
    <3>2. y = x \/ <<d, y.key>> \in raced
      BY <2>3, <3>1 DEF LaterRaced
    <3> QED
      BY <1>2, <2>3, <3>2
  <2>4. CASE flight[f].device # d
    <3>1. y \in last[flight[f].device]
      BY <1>5, <2>1, <2>4
    <3>2. y = x \/ <<flight[f].device, y.key>> \in raced
      BY <3>1 DEF LaterRaced
    <3> QED
      BY <1>2, <2>4, <3>2
  <2> QED
    BY <2>2, <2>3, <2>4
<1>13. LastEditKept'
  <2> SUFFICES ASSUME NEW c \in Devices, NEW y \in last'[c]
               PROVE  y \in queue'[c] \/ <<c, y.key>> \in raced' \/ \E r \in report : r.edit = y
    BY <1>2 DEF LastEditKept
  <2>1. CASE c = d /\ y = e
    BY <1>5, <2>1 DEF Put
  <2>2. CASE c = d /\ y # e
    <3>1. y \in last[d] /\ y.key # k
      BY <1>3, <1>5, <2>2 DEF Put
    <3>2. y \in queue[d] \/ <<d, y.key>> \in raced \/ \E r \in report : r.edit = y
      BY <3>1 DEF LastEditKept
    <3> QED
      BY <1>2, <1>3, <1>5, <2>2, <3>1, <3>2 DEF Put
  <2>3. CASE c # d
    <3>1. y \in queue[c] \/ <<c, y.key>> \in raced \/ \E r \in report : r.edit = y
      BY <1>5, <2>3 DEF LastEditKept
    <3> QED
      BY <1>2, <1>5, <2>3, <3>1
  <2> QED
    BY <2>1, <2>2, <2>3
<1> QED
  BY <1>8, <1>9, <1>10, <1>11, <1>12, <1>13
(* A step of one request that takes on no edits.                           *)
LEMMA RequestStepDevice ==
  ASSUME TypeOK, TypeOK', DeviceInv, NEW f \in Flights, NEW r,
         flight' = [flight EXCEPT ![f] = r],
         r.edits \subseteq flight[f].edits,
         r.edits # {} => r.device = flight[f].device,
         r.at = "idle" => r.edits = {},
         r.at = "answered" => \A e \in r.edits : \E x \in report' : x.edit = e,
         \A d \in Devices : queue'[d] \subseteq queue[d] /\ clock[d] <= clock'[d],
         report \subseteq report',
         \A x \in report' : x \in report \/ x.edit \in flight[f].edits,
         UNCHANGED <<values, last, raced>>,
         LastEditKept'
  PROVE  DeviceInv'
<1> USE DEF DeviceInv
<1>1. flight'[f] = r /\ \A g \in Flights : g # f => flight'[g] = flight[g]
  BY DEF TypeOK
<1>2. \A g \in Flights : flight'[g].edits \subseteq flight[g].edits
  BY <1>1
<1>3. Known' \subseteq Known
  BY <1>2 DEF Known
<1>4. values <= values'
  BY OfflineAssumption DEF TypeOK
<1>5. KnownDated' /\ StampsUnique'
  BY <1>3, <1>4, KnownFrame
<1>6. QueuesLatest'
  BY DEF QueuesLatest, OneEach
<1>7. FlightsWhole'
  BY <1>1, <1>2 DEF FlightsWhole, OneEach
<1>8. AnsweredReported'
  BY <1>1 DEF AnsweredReported
<1>9. LaterRaced'
  <2> SUFFICES ASSUME NEW g \in Flights, NEW x \in flight'[g].edits,
                      NEW y \in last[flight'[g].device], y.key = x.key
               PROVE  y = x \/ <<flight'[g].device, y.key>> \in raced
    BY DEF LaterRaced
  <2>1. flight'[g].device = flight[g].device /\ x \in flight[g].edits
    BY <1>1, <1>2
  <2> QED
    BY <2>1 DEF LaterRaced
<1> QED
  BY <1>5, <1>6, <1>7, <1>8, <1>9

LEMMA FlushDevice ==
  ASSUME TypeOK, TypeOK', DeviceInv, NEW f \in Flights, NEW d \in Devices, Flush(f, d)
  PROVE  DeviceInv'
<1> USE DEF DeviceInv
<1> DEFINE r == Request("posted", d, queue[d], NoRows, 0)
<1>1. /\ flight' = [flight EXCEPT ![f] = r]
      /\ UNCHANGED <<row, clock, queue, values, losses, report, last, raced, mixed>>
  BY DEF Flush, history
<1>2. r.at = "posted" /\ r.device = d /\ r.edits = queue[d]
  BY DEF Request
<1> HIDE DEF r
<1>3. flight'[f] = r /\ \A g \in Flights : g # f => flight'[g] = flight[g]
  BY <1>1 DEF TypeOK
<1>4. Known' \subseteq Known
  BY <1>1, <1>2, <1>3 DEF Known
<1>5. values <= values' /\ \A c \in Devices : clock[c] <= clock'[c]
  BY <1>1, OfflineAssumption DEF TypeOK
<1>6. KnownDated' /\ StampsUnique'
  BY <1>4, <1>5, KnownFrame
<1>7. QueuesLatest' /\ LastEditKept'
  BY <1>1 DEF QueuesLatest, LastEditKept, OneEach
<1>8. OneEach(queue[d])
  BY DEF QueuesLatest, OneEach
<1>9. FlightsWhole' /\ AnsweredReported'
  BY <1>1, <1>2, <1>3, <1>8 DEF FlightsWhole, AnsweredReported, OneEach
<1>10. LaterRaced'
  <2> SUFFICES ASSUME NEW g \in Flights, NEW x \in flight'[g].edits,
                      NEW y \in last[flight'[g].device], y.key = x.key
               PROVE  y = x \/ <<flight'[g].device, y.key>> \in raced
    BY <1>1 DEF LaterRaced
  <2>1. CASE g = f
    <3>1. x \in last[d] /\ y \in last[d]
      BY <1>2, <1>3, <2>1 DEF QueuesLatest
    <3> QED
      BY <3>1 DEF QueuesLatest, OneEach
  <2>2. CASE g # f
    BY <1>3, <2>2 DEF LaterRaced
  <2> QED
    BY <2>1, <2>2
<1> QED
  BY <1>6, <1>7, <1>9, <1>10

LEMMA DropDevice ==
  ASSUME TypeOK, TypeOK', DeviceInv, NEW f \in Flights, NEW e \in flight[f].edits, Drop(f, e)
  PROVE  DeviceInv'
<1> USE DEF DeviceInv
<1> DEFINE r == [flight[f] EXCEPT !.edits = @ \ {e}]
<1>1. flight[f] \in SyncRequest /\ flight[f].device \in Devices /\ flight[f].at = "answered"
  BY FlightType DEF TypeOK, Drop
<1>2. r.edits = flight[f].edits \ {e} /\ r.device = flight[f].device /\ r.at = flight[f].at
  BY <1>1 DEF SyncRequest
<1>3. /\ flight' = [flight EXCEPT ![f] = r]
      /\ queue' = [queue EXCEPT ![flight[f].device] =
                     {other \in queue[flight[f].device] : other.key # e.key}]
      /\ UNCHANGED <<row, clock, values, losses, report, last, raced, mixed>>
  BY DEF Drop, history
<1> HIDE DEF r
<1>4. /\ queue'[flight[f].device] =
           {other \in queue[flight[f].device] : other.key # e.key}
      /\ \A c \in Devices : c # flight[f].device => queue'[c] = queue[c]
  BY <1>1, <1>3 DEF TypeOK
<1>5. \A c \in Devices : queue'[c] \subseteq queue[c]
  BY <1>4
<1>6. \A c \in Devices : clock[c] <= clock'[c]
  BY <1>3 DEF TypeOK
<1>7. \E x \in report : x.edit = e
  BY <1>1 DEF AnsweredReported
<1>8. LastEditKept'
  <2> SUFFICES ASSUME NEW c \in Devices, NEW y \in last[c]
               PROVE  y \in queue'[c] \/ <<c, y.key>> \in raced \/ \E x \in report : x.edit = y
    BY <1>3 DEF LastEditKept
  <2>1. y \in queue[c] \/ <<c, y.key>> \in raced \/ \E x \in report : x.edit = y
    BY DEF LastEditKept
  <2>2. CASE c = flight[f].device /\ y.key = e.key
    <3>1. y = e \/ <<c, y.key>> \in raced
      BY <2>2 DEF LaterRaced
    <3> QED
      BY <1>7, <3>1
  <2>3. CASE ~(c = flight[f].device /\ y.key = e.key)
    BY <1>4, <2>1, <2>3
  <2> QED
    BY <2>2, <2>3
<1>9. r.at = "answered" => \A x \in r.edits : \E y \in report : y.edit = x
  BY <1>2 DEF AnsweredReported
<1> QED
  BY <1>1, <1>2, <1>3, <1>5, <1>6, <1>8, <1>9, RequestStepDevice

LEMMA QuietRequestDevice ==
  ASSUME TypeOK, TypeOK', DeviceInv, NEW f \in Flights,
         Adopt(f) \/ Lose(f) \/ ReadRows(f)
  PROVE  DeviceInv'
<1> USE DEF DeviceInv
<1>1. /\ UNCHANGED <<row, queue, values, report, last, raced, mixed>>
      /\ \A d \in Devices : clock[d] <= clock'[d]
  <2>1. CASE Adopt(f)
    BY <2>1, AdoptEffect
  <2>2. CASE Lose(f) \/ ReadRows(f)
    BY <2>2 DEF Lose, ReadRows, history, TypeOK
  <2> QED
    BY <2>1, <2>2
<1>2. LastEditKept'
  BY <1>1 DEF LastEditKept
<1>3. CASE Adopt(f) \/ Lose(f)
  <2>1. flight' = [flight EXCEPT ![f] = Idle]
    BY <1>3 DEF Adopt, Lose
  <2>2. Idle.edits = {} /\ Idle.at = "idle"
    BY DEF Idle, Request
  <2> HIDE DEF Idle
  <2> QED
    BY <1>1, <1>2, <2>1, <2>2, RequestStepDevice
<1>4. CASE ReadRows(f)
  <2> DEFINE r == Request("merging", flight[f].device, flight[f].edits, row, 0)
  <2>1. flight' = [flight EXCEPT ![f] = r] /\ flight[f].at # "idle"
    BY <1>4 DEF ReadRows
  <2>2. r.edits = flight[f].edits /\ r.at = "merging" /\ r.device = flight[f].device
    BY DEF Request
  <2> HIDE DEF r
  <2> QED
    BY <1>1, <1>2, <2>1, <2>2, RequestStepDevice
<1> QED
  BY <1>3, <1>4

LEMMA CommitDevice ==
  ASSUME TypeOK, TypeOK', DeviceInv, NEW f \in Flights, Commit(f)
  PROVE  DeviceInv'
<1> USE DEF DeviceInv
<1>1. PICK told \in Nat : flight' = [flight EXCEPT ![f] =
              Request("answered", flight[f].device, flight[f].edits, NoRows, told)]
  BY CommitEffect
<1> DEFINE r == Request("answered", flight[f].device, flight[f].edits, NoRows, told)
<1>2. r.at = "answered" /\ r.device = flight[f].device /\ r.edits = flight[f].edits
  BY DEF Request
<1>3. flight' = [flight EXCEPT ![f] = r]
  BY <1>1
<1> HIDE DEF r
<1>4. /\ UNCHANGED <<clock, queue, values, losses, last, raced>>
      /\ report' = report \cup
           {[edit |-> e, outcome |-> Merge(e, flight[f].base[e.key])] : e \in flight[f].edits}
  BY CommitEffect
<1>5. /\ report \subseteq report'
      /\ \A x \in report' : x \in report \/ x.edit \in flight[f].edits
  BY <1>4
<1>6. \A e \in flight[f].edits : \E x \in report' : x.edit = e
  <2> SUFFICES ASSUME NEW e \in flight[f].edits
               PROVE  \E x \in report' : x.edit = e
    OBVIOUS
  <2> DEFINE x == [edit |-> e, outcome |-> Merge(e, flight[f].base[e.key])]
  <2>1. x \in report' /\ x.edit = e
    BY <1>4
  <2> QED
    BY <2>1
<1>7. LastEditKept'
  BY <1>4, <1>5 DEF LastEditKept
<1>8. \A d \in Devices : queue'[d] \subseteq queue[d] /\ clock[d] <= clock'[d]
  BY <1>4 DEF TypeOK
<1> QED
  BY <1>2, <1>3, <1>4, <1>5, <1>6, <1>7, <1>8, RequestStepDevice

LEMMA SetVariableDevice ==
  ASSUME TypeOK, TypeOK', DeviceInv, NEW k \in Keys, SetVariable(k)
  PROVE  DeviceInv'
<1> USE DEF DeviceInv
<1>1. /\ UNCHANGED <<clock, queue, flight, losses, report, last, raced, mixed>>
      /\ values' = values + 1
  BY DEF SetVariable, history
<1>2. values <= values' /\ \A d \in Devices : clock[d] <= clock'[d]
  BY <1>1, OfflineAssumption DEF TypeOK
<1>3. Known' = Known
  BY <1>1 DEF Known
<1>4. KnownDated' /\ StampsUnique'
  BY <1>2, <1>3, KnownFrame
<1>5. QueuesLatest' /\ FlightsWhole' /\ AnsweredReported' /\ LaterRaced' /\ LastEditKept'
  BY <1>1 DEF QueuesLatest, FlightsWhole, AnsweredReported, LaterRaced, LastEditKept, OneEach
<1> QED
  BY <1>4, <1>5
-----------------------------------------------------------------------------
(* The server's part.                                                      *)

Stamped(s) == s.lamport \in Nat /\ s.origin \in Nat

(* Stamps are ordered, totally and transitively.                           *)
LEMMA StampOrder ==
  ASSUME NEW x, NEW y, NEW z, Stamped(x), Stamped(y), Stamped(z)
  PROVE  /\ ~Dominates(x, y) /\ ~Dominates(y, z) => ~Dominates(x, z)
         /\ Dominates(x, y) => ~Dominates(y, x)
         /\ x.lamport = y.lamport /\ x.origin = y.origin => ~Dominates(x, y)
BY DEF Stamped, Dominates

LEMMA StampTypes ==
  ASSUME TypeOK
  PROVE  /\ \A e \in Edit : Stamped(e) /\ e.origin # Nobody /\ e.key \in Keys
         /\ \A r \in Row : Stamped(r)
         /\ \A k \in Keys : row[k] \in Row
         /\ \A f \in Flights : \A k \in Keys : flight[f].base[k] \in Row
         /\ \A f \in Flights : flight[f].edits \in SUBSET Edit
         /\ \A x \in report : /\ x.edit \in Edit
                              /\ x = [edit |-> x.edit, outcome |-> x.outcome]
<1>1. Nobody \in Nat /\ \A d \in Devices : d \in Nat /\ d # Nobody
  BY OfflineAssumption DEF Nobody
<1>2. \A e \in Edit : Stamped(e) /\ e.origin # Nobody /\ e.key \in Keys
  BY <1>1 DEF Edit, Stamped
<1>3. \A r \in Row : Stamped(r)
  <2> SUFFICES ASSUME NEW r \in Row PROVE Stamped(r)
    OBVIOUS
  <2>1. r.lamport \in Nat /\ r.origin \in Devices \cup {Nobody}
    BY DEF Row
  <2> QED
    BY <1>1, <2>1 DEF Stamped
<1>4. \A f \in Flights : flight[f].base \in [Keys -> Row] /\ flight[f].edits \in SUBSET Edit
  BY FlightType
<1>5. report \subseteq [edit : Edit, outcome : Outcome] /\ row \in [Keys -> Row]
  BY DEF TypeOK
<1>6. \A x \in report : /\ x.edit \in Edit
                        /\ x = [edit |-> x.edit, outcome |-> x.outcome]
  BY <1>5
<1> QED
  BY <1>2, <1>3, <1>4, <1>5, <1>6

(* What an applied edit leaves in the row.                                 *)
LEMMA PackedRow ==
  ASSUME NEW e \in Edit, KindOf[e.value] # "big"
  PROVE  /\ Packed(e).lamport = e.lamport /\ Packed(e).origin = e.origin
         /\ (Packed(e).text = Null) # (Packed(e).num = Null)
         /\ Larger(Packed(e).text, Packed(e).num) = e.value
<1>1. e.value \in 1..MaxValues /\ MaxValues \in Nat
  BY OfflineAssumption DEF Edit
<1>2. KindOf[e.value] = "text" \/ KindOf[e.value] = "num"
  BY <1>1, OfflineAssumption
<1>3. /\ Packed(e).text = InColumn("text", e.value)
      /\ Packed(e).num = InColumn("num", e.value)
      /\ Packed(e).lamport = e.lamport /\ Packed(e).origin = e.origin
  BY DEF Packed
<1>4. CASE KindOf[e.value] = "text"
  <2>1. InColumn("text", e.value) = e.value /\ InColumn("num", e.value) = 0
    BY <1>4 DEF InColumn, Null
  <2> QED
    BY <1>1, <1>3, <2>1 DEF Null, Larger
<1>5. CASE KindOf[e.value] = "num"
  <2>1. InColumn("num", e.value) = e.value /\ InColumn("text", e.value) = 0
    BY <1>5 DEF InColumn, Null
  <2> QED
    BY <1>1, <1>3, <2>1 DEF Null, Larger
<1> QED
  BY <1>2, <1>4, <1>5

(* The edit that was applied under a stamp is the edit with that stamp.    *)
LEMMA BackedBy ==
  ASSUME TypeOK, DeviceInv, NEW e \in Known, NEW r, Backed(e.key, r),
         e.lamport = r.lamport, e.origin = r.origin
  PROVE  [edit |-> e, outcome |-> "applied"] \in report
<1>1. PICK x \in report : /\ x.outcome = "applied" /\ x.edit.key = e.key
                          /\ x.edit.lamport = r.lamport /\ x.edit.origin = r.origin
  BY DEF Backed
<1>2. x.edit \in Known
  BY StampTypes DEF Known
<1>3. x.edit = e
  BY <1>1, <1>2 DEF DeviceInv, StampsUnique
<1>4. x = [edit |-> x.edit, outcome |-> x.outcome]
  BY StampTypes
<1> QED
  BY <1>1, <1>3, <1>4
(* What a sync has read is not above the row, and its winner is not below. *)
LEMMA CommitRows ==
  ASSUME TypeOK, DeviceInv, ServerInv, NEW f \in Flights, Commit(f),
         NEW k \in Keys \ mixed'
  PROVE  \/ /\ row'[k] = row[k]
            /\ \A e \in flight[f].edits :
                 e.key = k => Merge(e, flight[f].base[k]) # "applied"
         \/ \E w \in flight[f].edits :
              /\ w.key = k /\ Merge(w, flight[f].base[k]) = "applied"
              /\ row[k] = flight[f].base[k] /\ Dominates(w, row[k])
              /\ row[k] # NoRow /\ KindOf[w.value] # "big"
              /\ row'[k] = Packed(w)
<1>1. ASSUME NEW w \in flight[f].edits, w.key = k,
             Merge(w, flight[f].base[k]) = "applied",
             row'[k] = Updated(row[k], flight[f].base[k], Packed(w))
      PROVE  /\ row[k] = flight[f].base[k] /\ Dominates(w, row[k])
             /\ row[k] # NoRow /\ KindOf[w.value] # "big"
             /\ row'[k] = Packed(w)
  <2>1. row[k] = flight[f].base[k]
    BY <1>1, CommitEffect
  <2>2. w \in Edit /\ row[k] \in Row /\ Packed(w) \in Row
    BY StampTypes, PackedType
  <2>3. row'[k] = Packed(w)
    BY <1>1, <2>1, <2>2, UpdatedType
  <2>4. Merge(w, row[k]) = "applied"
    BY <1>1, <2>1
  <2>5. Dominates(w, row[k]) /\ row[k] # NoRow /\ KindOf[w.value] # "big"
    BY <2>4, MergeCases
  <2> QED
    BY <2>1, <2>3, <2>5
<1>2. k \in Keys
  OBVIOUS
<1> QED
  BY <1>1, <1>2, CommitEffect

LEMMA CommitServer ==
  ASSUME TypeOK, TypeOK', DeviceInv, ServerInv, NEW f \in Flights, Commit(f)
  PROVE  ServerInv'
<1> DEFINE read == flight[f].base
           edits == flight[f].edits
<1>1. /\ \A k \in Keys \ mixed' : k \in Keys \ mixed
      /\ report' = report \cup {[edit |-> e, outcome |-> Merge(e, read[e.key])] : e \in edits}
      /\ flight[f].at = "merging"
  BY CommitEffect
<1>2. report \subseteq report'
  BY <1>1
<1>3. \A e \in edits : e \in Edit /\ e \in Known /\ e.key \in Keys
  BY StampTypes DEF Known
<1>4. RowsWhole'
  <2> SUFFICES ASSUME NEW k \in Keys \ mixed'
               PROVE  /\ row'[k] = NoRow \/ ((row'[k].text = Null) # (row'[k].num = Null))
                      /\ row'[k].origin = Nobody \/ Backed(k, row[k])'
    BY DEF RowsWhole
  <2>1. CASE row'[k] = row[k]
    <3>1. /\ row[k] = NoRow \/ ((row[k].text = Null) # (row[k].num = Null))
          /\ row[k].origin = Nobody \/ Backed(k, row[k])
      BY <1>1 DEF ServerInv, RowsWhole
    <3>2. Backed(k, row[k]) => Backed(k, row[k])'
      BY <1>2, <2>1 DEF Backed
    <3> QED
      BY <2>1, <3>1, <3>2
  <2>2. CASE \E w \in edits : /\ w.key = k /\ Merge(w, read[k]) = "applied"
                              /\ KindOf[w.value] # "big" /\ row'[k] = Packed(w)
    <3>1. PICK w \in edits : /\ w.key = k /\ Merge(w, read[k]) = "applied"
                             /\ KindOf[w.value] # "big" /\ row'[k] = Packed(w)
      BY <2>2
    <3>2. /\ Packed(w).lamport = w.lamport /\ Packed(w).origin = w.origin
          /\ (Packed(w).text = Null) # (Packed(w).num = Null)
      BY <1>3, <3>1, PackedRow
    <3>3. [edit |-> w, outcome |-> "applied"] \in report'
      BY <1>1, <3>1
    <3>4. Backed(k, row[k])'
      <4> DEFINE x == [edit |-> w, outcome |-> "applied"]
      <4>1. x \in report' /\ x.outcome = "applied" /\ x.edit = w
        BY <3>3
      <4>2. row'[k].lamport = w.lamport /\ row'[k].origin = w.origin
        BY <3>1, <3>2
      <4> HIDE DEF x
      <4> QED
        BY <3>1, <4>1, <4>2 DEF Backed
    <3> QED
      BY <3>1, <3>2, <3>4
  <2> QED
    BY <2>1, <2>2, CommitRows
<1>5. ReadsBehind'
  <2>1. PICK told \in Nat : flight' = [flight EXCEPT ![f] =
                Request("answered", flight[f].device, edits, NoRows, told)]
    BY CommitEffect
  <2>2. Request("answered", flight[f].device, edits, NoRows, told).at = "answered"
    BY DEF Request
  <2>3. \A g \in Flights : flight'[g].at = "merging" => flight'[g] = flight[g]
    BY <2>1, <2>2 DEF TypeOK
  <2> SUFFICES ASSUME NEW g \in Flights, flight'[g].at = "merging", NEW k \in Keys \ mixed'
               PROVE  /\ ~Dominates(flight[g].base[k], row'[k])
                      /\ flight[g].base[k] # NoRow => row'[k] # NoRow
                      /\ flight[g].base[k].origin = Nobody \/ Backed(k, flight[g].base[k])'
    BY <2>3 DEF ReadsBehind
  <2>4. /\ ~Dominates(flight[g].base[k], row[k])
        /\ flight[g].base[k] # NoRow => row[k] # NoRow
        /\ flight[g].base[k].origin = Nobody \/ Backed(k, flight[g].base[k])
    BY <1>1, <2>3 DEF ServerInv, ReadsBehind
  <2>5. Backed(k, flight[g].base[k]) => Backed(k, flight[g].base[k])'
    BY <1>2, <2>3 DEF Backed
  <2>6. CASE row'[k] = row[k]
    BY <2>4, <2>5, <2>6
  <2>7. CASE \E w \in edits : /\ KindOf[w.value] # "big" /\ Dominates(w, row[k])
                              /\ row'[k] = Packed(w)
    <3>1. PICK w \in edits : /\ KindOf[w.value] # "big" /\ Dominates(w, row[k])
                             /\ row'[k] = Packed(w)
      BY <2>7
    <3>2. row'[k].lamport = w.lamport /\ row'[k].origin = w.origin
      BY <1>3, <3>1, PackedRow
    <3>3. Stamped(w) /\ Stamped(row[k]) /\ Stamped(flight[g].base[k]) /\ w.origin # Nobody
      BY <1>3, StampTypes
    <3>4. ~Dominates(flight[g].base[k], w)
      BY <2>4, <3>1, <3>3, StampOrder
    <3>5. ~Dominates(flight[g].base[k], row'[k])
      BY <3>2, <3>4 DEF Dominates
    <3>6. row'[k] # NoRow
      BY <3>2, <3>3 DEF NoRow, Unstamped
    <3> QED
      BY <2>4, <2>5, <3>5, <3>6
  <2> QED
    BY <2>6, <2>7, CommitRows
<1>6. Converges'
  <2> SUFFICES ASSUME NEW e \in Merged', e.key \notin mixed'
               PROVE  /\ ~Dominates(e, row'[e.key])
                      /\ (row'[e.key].text = Null) # (row'[e.key].num = Null)
                      /\ e.lamport = row'[e.key].lamport /\ e.origin = row'[e.key].origin
                           => Larger(row'[e.key].text, row'[e.key].num) >= e.value
    BY DEF Converges
  <2> DEFINE k == e.key
  <2>1. e \in Merged \/ (e \in edits /\ Merge(e, read[k]) # "rejected")
    BY <1>1 DEF Merged
  <2>2. e \in Known /\ e \in Edit /\ k \in Keys \ mixed'
    BY <1>3, <2>1, StampTypes DEF Merged, Known
  <2>3. e.value \in Nat /\ Stamped(e) /\ Stamped(row[k]) /\ Stamped(read[k]) /\ e.origin # Nobody
    BY <2>2, StampTypes, OfflineAssumption DEF Edit
  <2>4. CASE \E w \in edits : /\ w.key = k /\ Dominates(w, row[k])
                              /\ row[k] = read[k] /\ KindOf[w.value] # "big"
                              /\ row'[k] = Packed(w)
    <3>1. PICK w \in edits : /\ w.key = k /\ Dominates(w, row[k])
                             /\ row[k] = read[k] /\ KindOf[w.value] # "big"
                             /\ row'[k] = Packed(w)
      BY <2>4
    <3>2. w \in Edit /\ w \in Known /\ Stamped(w)
      BY <1>3, StampTypes
    <3>3. /\ row'[k].lamport = w.lamport /\ row'[k].origin = w.origin
          /\ (row'[k].text = Null) # (row'[k].num = Null)
          /\ Larger(row'[k].text, row'[k].num) = w.value
      BY <3>1, <3>2, PackedRow
    <3>4. ~Dominates(e, w)
      <4>1. CASE e \in Merged
        <5>1. ~Dominates(e, row[k])
          BY <1>1, <2>2, <4>1 DEF ServerInv, Converges
        <5> QED
          BY <2>3, <3>1, <3>2, <5>1, StampOrder
      <4>2. CASE e \in edits
        <5>1. e = w
          BY <3>1, <4>2 DEF DeviceInv, FlightsWhole, OneEach
        <5> QED
          BY <2>3, <5>1, StampOrder
      <4> QED
        BY <2>1, <4>1, <4>2
    <3>5. ~Dominates(e, row'[k])
      BY <3>3, <3>4 DEF Dominates
    <3>6. e.lamport = w.lamport /\ e.origin = w.origin => e = w
      BY <2>2, <3>2 DEF DeviceInv, StampsUnique
    <3> QED
      BY <2>3, <3>3, <3>5, <3>6
  <2>5. CASE /\ row'[k] = row[k]
             /\ \A w \in edits : w.key = k => Merge(w, read[k]) # "applied"
    <3>1. CASE e \in Merged
      BY <1>1, <2>2, <2>5, <3>1 DEF ServerInv, Converges
    <3>2. CASE e \in edits /\ Merge(e, read[k]) # "rejected"
      <4>1. read[k] # NoRow /\ ~Dominates(e, read[k])
        <5>1. Merge(e, read[k]) \in Outcome /\ Merge(e, read[k]) # "applied"
          BY <2>5, <3>2, MergeCases
        <5>2. /\ read[k] # NoRow
              /\ \/ ~Dominates(e, read[k])
                 \/ e.lamport = read[k].lamport /\ e.origin = read[k].origin
          BY <3>2, <5>1, MergeCases DEF Outcome
        <5> QED
          BY <2>3, <5>2, StampOrder
      <4>2. row[k] # NoRow /\ ~Dominates(read[k], row[k])
        BY <1>1, <2>2, <4>1 DEF ServerInv, ReadsBehind
      <4>3. ~Dominates(e, row[k])
        BY <2>3, <4>1, <4>2, StampOrder
      <4>4. (row[k].text = Null) # (row[k].num = Null)
        BY <1>1, <2>2, <4>2 DEF ServerInv, RowsWhole
      <4>5. ASSUME e.lamport = row[k].lamport, e.origin = row[k].origin
            PROVE  Larger(row[k].text, row[k].num) >= e.value
        <5>1. Backed(k, row[k])
          BY <1>1, <2>2, <2>3, <4>5 DEF ServerInv, RowsWhole
        <5>2. [edit |-> e, outcome |-> "applied"] \in report
          BY <2>2, <4>5, <5>1, BackedBy
        <5>3. e \in Merged
          <6> DEFINE x == [edit |-> e, outcome |-> "applied"]
          <6>1. x \in report /\ x.outcome # "rejected" /\ x.edit = e
            BY <5>2
          <6> HIDE DEF x
          <6> QED
            BY <6>1 DEF Merged
        <5> QED
          BY <1>1, <2>2, <4>5, <5>3 DEF ServerInv, Converges
      <4> QED
        BY <2>5, <4>3, <4>4, <4>5
    <3> QED
      BY <2>1, <3>1, <3>2
  <2> QED
    BY <2>2, <2>4, <2>5, CommitRows
<1> QED
  BY <1>4, <1>5, <1>6 DEF ServerInv
(* A write of the façade keeps the stamp, and its value is the latest.     *)
LEMMA SetVariableServer ==
  ASSUME TypeOK, TypeOK', DeviceInv, ServerInv, NEW k \in Keys, SetVariable(k)
  PROVE  ServerInv'
<1> DEFINE v == values + 1
           r == [text |-> InColumn("text", v), num |-> InColumn("num", v),
                 lamport |-> row[k].lamport, origin |-> row[k].origin]
<1>1. /\ row' = [row EXCEPT ![k] = r] /\ KindOf[v] # "big"
      /\ UNCHANGED <<flight, report, mixed>> /\ row \in [Keys -> Row]
  BY DEF SetVariable, history, TypeOK
<1>2. v \in 1..MaxValues /\ values \in Nat
  BY OfflineAssumption DEF SetVariable, TypeOK
<1>3. /\ (r.text = Null) # (r.num = Null) /\ Larger(r.text, r.num) = v
      /\ r.lamport = row[k].lamport /\ r.origin = row[k].origin
  <2>1. KindOf[v] = "text" \/ KindOf[v] = "num"
    BY <1>1, <1>2, OfflineAssumption
  <2>2. CASE KindOf[v] = "text"
    <3>1. InColumn("text", v) = v /\ InColumn("num", v) = 0
      BY <2>2 DEF InColumn, Null
    <3> QED
      BY <1>2, <3>1 DEF Null, Larger
  <2>3. CASE KindOf[v] = "num"
    <3>1. InColumn("num", v) = v /\ InColumn("text", v) = 0
      BY <2>3 DEF InColumn, Null
    <3> QED
      BY <1>2, <3>1 DEF Null, Larger
  <2> QED
    BY <2>1, <2>2, <2>3
<1> HIDE DEF r
<1>4. row'[k] = r /\ \A j \in Keys : j # k => row'[j] = row[j]
  BY <1>1
<1>5. \A j \in Keys : row'[j].lamport = row[j].lamport /\ row'[j].origin = row[j].origin
  BY <1>3, <1>4
<1>6. RowsWhole'
  <2> SUFFICES ASSUME NEW j \in Keys \ mixed
               PROVE  /\ row'[j] = NoRow \/ ((row'[j].text = Null) # (row'[j].num = Null))
                      /\ row'[j].origin = Nobody \/ Backed(j, row[j])'
    BY <1>1 DEF RowsWhole
  <2>1. /\ row[j] = NoRow \/ ((row[j].text = Null) # (row[j].num = Null))
        /\ row[j].origin = Nobody \/ Backed(j, row[j])
    BY DEF ServerInv, RowsWhole
  <2>2. Backed(j, row[j]) => Backed(j, row[j])'
    BY <1>1, <1>5 DEF Backed
  <2> QED
    BY <1>3, <1>4, <1>5, <2>1, <2>2
<1>7. ReadsBehind'
  <2> SUFFICES ASSUME NEW g \in Flights, flight[g].at = "merging", NEW j \in Keys \ mixed
               PROVE  /\ ~Dominates(flight[g].base[j], row'[j])
                      /\ flight[g].base[j] # NoRow => row'[j] # NoRow
                      /\ flight[g].base[j].origin = Nobody \/ Backed(j, flight[g].base[j])'
    BY <1>1 DEF ReadsBehind
  <2>1. /\ ~Dominates(flight[g].base[j], row[j])
        /\ flight[g].base[j] # NoRow => row[j] # NoRow
        /\ flight[g].base[j].origin = Nobody \/ Backed(j, flight[g].base[j])
    BY DEF ServerInv, ReadsBehind
  <2>2. Backed(j, flight[g].base[j]) => Backed(j, flight[g].base[j])'
    BY <1>1 DEF Backed
  <2>3. ~Dominates(flight[g].base[j], row'[j])
    BY <1>5, <2>1 DEF Dominates
  <2>4. r # NoRow
    BY <1>3 DEF NoRow, Unstamped
  <2> QED
    BY <1>4, <2>1, <2>2, <2>3, <2>4
<1>8. Converges'
  <2> SUFFICES ASSUME NEW e \in Merged, e.key \notin mixed
               PROVE  /\ ~Dominates(e, row'[e.key])
                      /\ (row'[e.key].text = Null) # (row'[e.key].num = Null)
                      /\ e.lamport = row'[e.key].lamport /\ e.origin = row'[e.key].origin
                           => Larger(row'[e.key].text, row'[e.key].num) >= e.value
    BY <1>1 DEF Converges, Merged
  <2>1. e \in Known /\ e \in Edit /\ e.key \in Keys
    BY StampTypes DEF Merged, Known
  <2>2. /\ ~Dominates(e, row[e.key])
        /\ (row[e.key].text = Null) # (row[e.key].num = Null)
        /\ e.lamport = row[e.key].lamport /\ e.origin = row[e.key].origin
             => Larger(row[e.key].text, row[e.key].num) >= e.value
    BY DEF ServerInv, Converges
  <2>3. ~Dominates(e, row'[e.key])
    BY <1>5, <2>1, <2>2 DEF Dominates
  <2>4. e.value \in Nat /\ e.value <= values
    BY <2>1, OfflineAssumption DEF DeviceInv, KnownDated, Edit
  <2>5. v >= e.value
    BY <1>2, <2>4
  <2> HIDE DEF v
  <2> QED
    BY <1>3, <1>4, <2>1, <2>2, <2>3, <2>5
<1> QED
  BY <1>6, <1>7, <1>8 DEF ServerInv

LEMMA ReadRowsServer ==
  ASSUME TypeOK, TypeOK', ServerInv, NEW f \in Flights, ReadRows(f)
  PROVE  ServerInv'
<1> DEFINE r == Request("merging", flight[f].device, flight[f].edits, row, 0)
<1>1. /\ flight' = [flight EXCEPT ![f] = r]
      /\ UNCHANGED <<row, report, mixed>>
  BY DEF ReadRows, history
<1>2. r.base = row
  BY DEF Request
<1> HIDE DEF r
<1>3. flight'[f] = r /\ \A g \in Flights : g # f => flight'[g] = flight[g]
  BY <1>1 DEF TypeOK
<1>4. RowsWhole' /\ Converges'
  BY <1>1 DEF ServerInv, RowsWhole, Converges, Merged, Backed
<1>5. ReadsBehind'
  <2> SUFFICES ASSUME NEW g \in Flights, flight'[g].at = "merging", NEW k \in Keys \ mixed
               PROVE  /\ ~Dominates(flight'[g].base[k], row[k])
                      /\ flight'[g].base[k] # NoRow => row[k] # NoRow
                      /\ flight'[g].base[k].origin = Nobody \/ Backed(k, flight[g].base[k])'
    BY <1>1 DEF ReadsBehind
  <2>1. CASE g = f
    <3>1. Stamped(row[k])
      BY StampTypes
    <3>2. ~Dominates(row[k], row[k])
      BY <3>1, StampOrder
    <3>3. row[k].origin = Nobody \/ Backed(k, row[k])
      BY DEF ServerInv, RowsWhole
    <3>4. Backed(k, row[k]) => Backed(k, flight[g].base[k])'
      BY <1>1, <1>2, <1>3, <2>1 DEF Backed
    <3> QED
      BY <1>2, <1>3, <2>1, <3>2, <3>3, <3>4
  <2>2. CASE g # f
    <3>1. flight'[g] = flight[g]
      BY <1>3, <2>2
    <3>2. Backed(k, flight[g].base[k]) => Backed(k, flight[g].base[k])'
      BY <1>1, <3>1 DEF Backed
    <3> QED
      BY <3>1, <3>2 DEF ServerInv, ReadsBehind
  <2> QED
    BY <2>1, <2>2
<1> QED
  BY <1>4, <1>5 DEF ServerInv
(* Steps of the device neither write rows nor answer, and none of them     *)
(* starts a merge.                                                         *)
LEMMA DeviceStepServer ==
  ASSUME TypeOK, TypeOK', ServerInv,
         \/ \E d \in Devices, k \in Keys : QueueEdit(d, k)
         \/ \E f \in Flights, d \in Devices : Flush(f, d)
         \/ \E f \in Flights : Adopt(f) \/ Lose(f)
         \/ \E f \in Flights : \E e \in flight[f].edits : Drop(f, e)
  PROVE  ServerInv'
<1>1. CASE \E d \in Devices, k \in Keys : QueueEdit(d, k)
  BY <1>1, ServerFrame DEF QueueEdit
<1>2. ASSUME NEW f \in Flights, NEW r, flight' = [flight EXCEPT ![f] = r],
             r.at # "merging", UNCHANGED <<row, report, mixed>>
      PROVE  ServerInv'
  <2>1. \A g \in Flights : flight'[g].at = "merging" => flight'[g] = flight[g]
    BY <1>2 DEF TypeOK
  <2> QED
    BY <1>2, <2>1, ServerFrame
<1>3. CASE \E f \in Flights, d \in Devices : Flush(f, d)
  <2>1. PICK f \in Flights, d \in Devices : Flush(f, d)
    BY <1>3
  <2> DEFINE r == Request("posted", d, queue[d], NoRows, 0)
  <2>2. /\ flight' = [flight EXCEPT ![f] = r] /\ r.at # "merging"
        /\ UNCHANGED <<row, report, mixed>>
    BY <2>1 DEF Flush, history, Request
  <2> HIDE DEF r
  <2> QED
    BY <1>2, <2>2
<1>4. CASE \E f \in Flights : Adopt(f) \/ Lose(f)
  <2>1. PICK f \in Flights : Adopt(f) \/ Lose(f)
    BY <1>4
  <2>2. /\ flight' = [flight EXCEPT ![f] = Idle] /\ Idle.at # "merging"
        /\ UNCHANGED <<row, report, mixed>>
    BY <2>1 DEF Adopt, Lose, history, Idle, Request
  <2> HIDE DEF Idle
  <2> QED
    BY <1>2, <2>2
<1>5. CASE \E f \in Flights : \E e \in flight[f].edits : Drop(f, e)
  <2>1. PICK f \in Flights : \E e \in flight[f].edits : Drop(f, e)
    BY <1>5
  <2>2. PICK e \in flight[f].edits : Drop(f, e)
    BY <2>1
  <2> DEFINE r == [flight[f] EXCEPT !.edits = @ \ {e}]
  <2>3. flight[f] \in SyncRequest /\ flight[f].at = "answered"
    BY <2>2 DEF TypeOK, Drop
  <2>4. r.at # "merging"
    BY <2>3 DEF SyncRequest
  <2>5. flight' = [flight EXCEPT ![f] = r] /\ UNCHANGED <<row, report, mixed>>
    BY <2>2 DEF Drop, history
  <2> HIDE DEF r
  <2> QED
    BY <1>2, <2>4, <2>5
<1> QED
  BY <1>1, <1>3, <1>4, <1>5
-----------------------------------------------------------------------------
(* The invariant, and what the runs check.                                 *)

LEMMA Step == IInv /\ [Next]_vars => IInv'
<1> SUFFICES ASSUME IInv, [Next]_vars PROVE IInv'
  OBVIOUS
<1>0. TypeOK /\ TypeOK' /\ DeviceInv /\ ServerInv
  BY TypeStep DEF IInv
<1>1. ASSUME NEW d \in Devices, NEW k \in Keys, QueueEdit(d, k) PROVE DeviceInv' /\ ServerInv'
  BY <1>0, <1>1, QueueEditDevice, DeviceStepServer
<1>2. ASSUME NEW f \in Flights, NEW d \in Devices, Flush(f, d) PROVE DeviceInv' /\ ServerInv'
  BY <1>0, <1>2, FlushDevice, DeviceStepServer
<1>3. ASSUME NEW f \in Flights, ReadRows(f) PROVE DeviceInv' /\ ServerInv'
  BY <1>0, <1>3, QuietRequestDevice, ReadRowsServer
<1>4. ASSUME NEW f \in Flights, Commit(f) PROVE DeviceInv' /\ ServerInv'
  BY <1>0, <1>4, CommitDevice, CommitServer
<1>5. ASSUME NEW f \in Flights, Adopt(f) PROVE DeviceInv' /\ ServerInv'
  BY <1>0, <1>5, QuietRequestDevice, DeviceStepServer
<1>6. ASSUME NEW f \in Flights, Lose(f) PROVE DeviceInv' /\ ServerInv'
  BY <1>0, <1>6, QuietRequestDevice, DeviceStepServer
<1>7. ASSUME NEW f \in Flights, NEW e \in flight[f].edits, Drop(f, e)
      PROVE  DeviceInv' /\ ServerInv'
  BY <1>0, <1>7, DropDevice, DeviceStepServer
<1>8. ASSUME NEW k \in Keys, SetVariable(k) PROVE DeviceInv' /\ ServerInv'
  BY <1>0, <1>8, SetVariableDevice, SetVariableServer
<1>9. CASE UNCHANGED vars
  <2>1. DeviceInv'
    BY <1>0, <1>9 DEF vars, history, DeviceInv, KnownDated, StampsUnique, Known, QueuesLatest,
       FlightsWhole, AnsweredReported, LaterRaced, LastEditKept, OneEach
  <2>2. /\ UNCHANGED <<row, report, mixed>>
        /\ \A f \in Flights : flight'[f].at = "merging" =>
             flight[f].at = "merging" /\ flight'[f].base = flight[f].base
    BY <1>9 DEF vars, history
  <2>3. ServerInv'
    BY <1>0, <2>2, ServerFrame
  <2> QED
    BY <1>0, <2>1, <2>3 DEF IInv
<1> QED
  BY <1>0, <1>1, <1>2, <1>3, <1>4, <1>5, <1>6, <1>7, <1>8, <1>9 DEF Next, IInv

(* The inductive invariant: what is known to devices, requests and reports *)
(* is dated and unique, and rows and reads carry stamps of applied edits.  *)
THEOREM OfflineInvariant == Spec => []IInv
  BY Initially, Step, PTL DEF Spec

(* The merge of sync_case_variables converges, for any devices, keys and   *)
(* number of requests under way, where no sync has updated a row over a    *)
(* change it did not read.                                                 *)
THEOREM RowsConverge == Spec => []Converges
<1>1. IInv => Converges
  BY DEF IInv, ServerInv
<1> QED
  BY <1>1, OfflineInvariant, PTL

(* flushEdits loses no latest edit, through lost requests and answers,     *)
(* closed pages and overlapping flushes, except in the stated race.        *)
THEOREM NoEditLost == Spec => []LastEditKept
<1>1. IInv => LastEditKept
  BY DEF IInv, DeviceInv
<1> QED
  BY <1>1, OfflineInvariant, PTL

(* What merge calls a duplicate has been applied.                          *)
THEOREM DuplicatesApplied == Spec => DuplicateWasApplied
<1> DEFINE Was == \A r \in report' \ report : r.outcome = "duplicate" =>
                    \/ [edit |-> r.edit, outcome |-> "applied"] \in report
                    \/ r.edit.key \in mixed
<1>1. ASSUME IInv, [Next]_vars PROVE Was
  <2> SUFFICES ASSUME NEW r \in report' \ report, r.outcome = "duplicate",
                      r.edit.key \notin mixed
               PROVE  [edit |-> r.edit, outcome |-> "applied"] \in report
    OBVIOUS
  <2>0. TypeOK /\ DeviceInv /\ ServerInv
    BY <1>1 DEF IInv
  <2>1. PICK f \in Flights : Commit(f)
    BY <1>1 DEF Next, QueueEdit, Flush, ReadRows, Adopt, Lose, Drop, SetVariable, vars, history
  <2>2. PICK e \in flight[f].edits :
          r = [edit |-> e, outcome |-> Merge(e, flight[f].base[e.key])]
    BY <2>0, <2>1, CommitEffect
  <2>3. r.edit = e /\ Merge(e, flight[f].base[e.key]) = "duplicate"
    BY <2>2
  <2>4. /\ e.lamport = flight[f].base[e.key].lamport
        /\ e.origin = flight[f].base[e.key].origin
    BY <2>3, MergeCases
  <2>5. e \in Edit /\ e \in Known /\ e.key \in Keys \ mixed /\ e.origin # Nobody
    BY <2>0, <2>3, StampTypes DEF Known
  <2>6. Backed(e.key, flight[f].base[e.key])
    BY <2>0, <2>1, <2>4, <2>5 DEF Commit, ServerInv, ReadsBehind
  <2> QED
    BY <2>0, <2>3, <2>4, <2>5, <2>6, BackedBy
<1>2. IInv /\ [Next]_vars => [Was]_vars
  BY <1>1
<1> QED
  BY <1>2, OfflineInvariant, PTL DEF Spec, DuplicateWasApplied
-----------------------------------------------------------------------------
(* Requests that overlap are the only thing that keeps the merge from its  *)
(* promise: until its commit a sync finds the rows it updates as it read   *)
(* them, and then no stored stamp is below one that was merged and no row  *)
(* keeps a value of its former type.  Requests on other variables may      *)
(* overlap as they like, and so may every step of the devices.             *)
Undisturbed ==
  \A f \in Flights : flight[f].at = "merging" =>
    \A e \in flight[f].edits : row[e.key] = flight[f].base[e.key]

LEMMA NothingMixed ==
  ASSUME TypeOK, Undisturbed, mixed = {}, [Next]_vars
  PROVE  mixed' = {}
<1>1. ASSUME NEW f \in Flights, Commit(f) PROVE mixed' = {}
  BY <1>1 DEF Commit, Undisturbed
<1> QED
  BY <1>1 DEF Next, QueueEdit, Flush, ReadRows, Adopt, Lose, Drop, SetVariable, vars, history

(* The merge of sync_case_variables converges without exception, and every *)
(* row is in one typed column, where no change of a variable falls between *)
(* the read and the commit of a sync that updates it.                      *)
THEOREM UndisturbedSyncsConverge ==
  Spec /\ []Undisturbed => [](AlwaysConverges /\ OneColumn)
<1>1. Init => mixed = {}
  BY DEF Init
<1>2. IInv /\ Undisturbed /\ mixed = {} /\ [Next]_vars => (mixed = {})'
  BY NothingMixed DEF IInv
<1>3. IInv /\ mixed = {} => AlwaysConverges /\ OneColumn
  <2> SUFFICES ASSUME IInv, mixed = {} PROVE AlwaysConverges /\ OneColumn
    OBVIOUS
  <2>1. Converges /\ RowsWhole
    BY DEF IInv, ServerInv
  <2>2. AlwaysConverges
    BY <2>1 DEF Converges, AlwaysConverges
  <2>3. OneColumn
    BY <2>1 DEF RowsWhole, OneColumn, NoRow, Unstamped
  <2> QED
    BY <2>2, <2>3
<1> QED
  BY <1>1, <1>2, <1>3, OfflineInvariant, PTL DEF Spec
=============================================================================
