---------------------------- MODULE OfflineVariables ----------------------------
(***************************************************************************)
(* The variables of one case: devices edit them offline and queue the      *)
(* edits (portalOffline.ts), sync requests merge the queues into the       *)
(* stored rows by Lamport stamp (core/crdt.py), and the façade writes the  *)
(* same rows without a stamp (case_vars/service.py).                       *)
(*                                                                         *)
(* A sync reads all rows of the case, merges, and at its commit updates    *)
(* the columns that differ from what it read; nothing locks the rows in    *)
(* between.  Values are numbered in the order they are made, by edits and  *)
(* writes alike.  Namespaces and definitions are left out, and of          *)
(* authorization only whether the server takes the requests of a device.   *)
(***************************************************************************)
EXTENDS Naturals, FiniteSets

CONSTANTS
  Devices,     \* origins, as positive numbers: their order breaks ties
  Accepted,    \* devices whose sync requests the server does not refuse
  Keys,        \* full keys of variables
  Stored,      \* keys with a row in the initial state
  Flights,     \* sync requests that may be under way at once, of any device;
               \* numbers, of which the least free one is taken
  KindOf,      \* KindOf[v]: "text", "num", or "big" (over 64 KB)
  MaxVars,     \* MAX_VARS_PER_CASE
  MaxValues,   \* bound: values made, by edits and by the façade
  MaxLosses    \* bound: requests or answers lost

ASSUME OfflineAssumption ==
  /\ Devices \subseteq Nat \ {0}
  /\ Accepted \subseteq Devices /\ Stored \subseteq Keys
  /\ Flights \subseteq Nat
  /\ MaxValues \in Nat \ {0} /\ MaxLosses \in Nat
  /\ KindOf \in [1..MaxValues -> {"text", "num", "big"}] /\ KindOf[1] = "text"

VARIABLES
  row,       \* row[k]: the typed columns and the stamp of the variable
  clock,     \* clock[d]: the Lamport counter in d's local storage
  queue,     \* queue[d]: the pending edits in d's IndexedDB, one per key
  flight,    \* flight[f]: a sync request, from its flush to the adopted clock
  values,    \* values made so far
  losses,    \* requests and answers lost so far
  report,    \* history: every outcome the server has reported
  last,      \* history: the latest edit of each device and key
  raced,     \* history: device and key of the latest edits that were queued while
             \* an older edit of the key was in flight
  mixed      \* history: keys a sync updated after the row it read had changed

history == <<report, last, raced, mixed>>
vars == <<row, clock, queue, flight, values, losses, history>>

Null   == 0     \* SQL NULL: values are numbered from 1
Nobody == 0     \* the origin "" of a row no sync has written

Edit ==
  [key : Keys, value : 1..MaxValues, lamport : Nat, origin : Devices]
Row ==
  [text : 0..MaxValues, num : 0..MaxValues,
   lamport : Nat, origin : Devices \cup {Nobody}]
Outcome == {"applied", "ignored", "duplicate", "rejected"}
SyncRequest ==
  [at : {"idle", "posted", "merging", "answered"}, device : Devices \cup {Nobody},
   edits : SUBSET Edit, base : [Keys -> Row], told : Nat]

(* A variable without a row: every stored value is in one of its columns.  *)
Unstamped(text, num) == [text |-> text, num |-> num, lamport |-> 0, origin |-> Nobody]
NoRow == Unstamped(Null, Null)

NoRows == [k \in Keys |-> NoRow]

Request(at, device, edits, base, told) ==
  [at |-> at, device |-> device, edits |-> edits, base |-> base, told |-> told]
Idle == Request("idle", Nobody, {}, NoRows, 0)

TypeOK ==
  /\ row \in [Keys -> Row]
  /\ clock \in [Devices -> Nat]
  /\ queue \in [Devices -> SUBSET Edit]
  /\ \A d \in Devices : \A e, other \in queue[d] : e.key = other.key => e = other
  /\ flight \in [Flights -> SyncRequest]
  /\ \A f \in Flights : flight[f].at # "idle" => flight[f].device \in Devices
  /\ values \in 1..MaxValues /\ losses \in 0..MaxLosses
  /\ report \subseteq [edit : Edit, outcome : Outcome]
  /\ last \in [Devices -> SUBSET Edit]
  /\ raced \subseteq Devices \X Keys /\ mixed \subseteq Keys

Init ==
  /\ row = [k \in Keys |-> IF k \in Stored THEN Unstamped(1, Null) ELSE NoRow]
  /\ clock = [d \in Devices |-> 0]
  /\ queue = [d \in Devices |-> {}]
  /\ flight = [f \in Flights |-> Idle]
  /\ values = 1 /\ losses = 0
  /\ report = {} /\ last = [d \in Devices |-> {}] /\ raced = {} /\ mixed = {}

Larger(a, b) == IF a > b THEN a ELSE b
-----------------------------------------------------------------------------
(* The device: one pending edit per variable, stamped when it is queued.   *)

(* Mutant: the counter is adopted and not increased.                       *)
TickMax(local, received) == Larger(local, received)

(* tickLamport.                                                            *)
Tick(local, received) == Larger(local, received) + 1

(* Mutant: an edit is appended to the pending ones of its key.             *)
PutChained(edits, e) == edits \cup {e}

(* Putting an edit replaces the pending one of its key.                    *)
Put(edits, e) == {other \in edits : other.key # e.key} \cup {e}

InFlight(d, k) ==
  \E f \in Flights : flight[f].device = d /\ \E e \in flight[f].edits : e.key = k

QueueEdit(d, k) ==
  LET e == [key |-> k, value |-> values + 1,
            lamport |-> Tick(clock[d], 0), origin |-> d]
  IN /\ values < MaxValues
     /\ values' = values + 1
     /\ clock' = [clock EXCEPT ![d] = e.lamport]
     /\ queue' = [queue EXCEPT ![d] = Put(@, e)]
     /\ last' = [last EXCEPT ![d] = Put(@, e)]
     /\ raced' = IF InFlight(d, k) THEN raced \cup {<<d, k>>} ELSE raced \ {<<d, k>>}
     /\ UNCHANGED <<row, flight, losses, report, mixed>>

(* flushEdits posts what is pending; two flushes of a device may overlap.  *)
Flush(f, d) ==
  /\ flight[f].at = "idle" /\ \A g \in Flights : g < f => flight[g].at # "idle"
  /\ queue[d] # {}
  /\ flight' = [flight EXCEPT ![f] = Request("posted", d, queue[d], NoRows, 0)]
  /\ UNCHANGED <<row, clock, queue, values, losses, history>>

(* Mutant: a rejected edit stays in the queue.                             *)
DropUnlessRejected(f, e) ==
  /\ flight[f].at = "answered"
  /\ e \in flight[f].edits
  /\ queue' = IF [edit |-> e, outcome |-> "rejected"] \in report THEN queue
              ELSE [queue EXCEPT ![flight[f].device] =
                      {other \in @ : other.key # e.key}]
  /\ flight' = [flight EXCEPT ![f].edits = @ \ {e}]
  /\ UNCHANGED <<row, clock, values, losses, history>>

(* The answer of an edit takes the pending edit of its key off the queue,  *)
(* whichever that is by now.                                               *)
Drop(f, e) ==
  /\ flight[f].at = "answered"
  /\ e \in flight[f].edits
  /\ queue' = [queue EXCEPT ![flight[f].device] =
                 {other \in @ : other.key # e.key}]
  /\ flight' = [flight EXCEPT ![f].edits = @ \ {e}]
  /\ UNCHANGED <<row, clock, values, losses, history>>

(* Then the device adopts the highest counter it was told.                 *)
Adopt(f) ==
  LET d == flight[f].device
  IN /\ flight[f].at = "answered"
     /\ flight[f].edits = {}
     /\ clock' = IF flight[f].told = 0 THEN clock
                 ELSE [clock EXCEPT ![d] = Tick(@, flight[f].told)]
     /\ flight' = [flight EXCEPT ![f] = Idle]
     /\ UNCHANGED <<row, queue, values, losses, history>>

(* A request is refused (anything but 2xx), and the edits stay queued.     *)
Refused(f) == flight[f].at = "posted" /\ flight[f].device \notin Accepted

(* Mutant: what a failed request carried is not sent again.                *)
LoseForgets(f) ==
  /\ flight[f].at # "idle"
  /\ Refused(f) \/ losses < MaxLosses
  /\ losses' = IF Refused(f) THEN losses ELSE losses + 1
  /\ flight' = [flight EXCEPT ![f] = Idle]
  /\ queue' = [queue EXCEPT ![flight[f].device] = @ \ flight[f].edits]
  /\ UNCHANGED <<row, clock, values, history>>

(* The request is refused or does not arrive, is rolled back, its answer   *)
(* is lost, or the page closes before the answer is worked off: what is    *)
(* left in the queue goes with the next flush.                             *)
Lose(f) ==
  /\ flight[f].at # "idle"
  /\ Refused(f) \/ losses < MaxLosses
  /\ losses' = IF Refused(f) THEN losses ELSE losses + 1
  /\ flight' = [flight EXCEPT ![f] = Idle]
  /\ UNCHANGED <<row, clock, queue, values, history>>
-----------------------------------------------------------------------------
(* The server: sync_case_variables in one transaction, READ COMMITTED.     *)

(* Mutant: between equal counters the later arrival wins.                  *)
DominatesOnArrival(e, r) == e.lamport >= r.lamport

(* Stamp.dominates, for an edit against a stored row.                      *)
Dominates(e, r) ==
  e.lamport > r.lamport \/ (e.lamport = r.lamport /\ e.origin > r.origin)

(* merge, after the two reasons for which an edit is rejected.             *)
Merge(e, r) ==
  IF r = NoRow \/ KindOf[e.value] = "big" THEN "rejected"
  ELSE IF e.lamport = r.lamport /\ e.origin = r.origin THEN "duplicate"
  ELSE IF Dominates(e, r) THEN "applied"
  ELSE "ignored"

InColumn(column, v) == IF KindOf[v] = column THEN v ELSE Null

(* _pack_into_row: every typed column but one is cleared.                  *)
Packed(e) ==
  [text |-> InColumn("text", e.value), num |-> InColumn("num", e.value),
   lamport |-> e.lamport, origin |-> e.origin]

(* The UPDATE of a row names the columns that differ from what was read.   *)
Changed(current, read, new) == IF new = read THEN current ELSE new
Updated(current, read, new) ==
  [text |-> Changed(current.text, read.text, new.text),
   num |-> Changed(current.num, read.num, new.num),
   lamport |-> Changed(current.lamport, read.lamport, new.lamport),
   origin |-> Changed(current.origin, read.origin, new.origin)]

(* The counter reported for an edit: the winner's, and none if rejected.   *)
Told(e, r) ==
  CASE Merge(e, r) = "applied"  -> e.lamport
    [] Merge(e, r) = "rejected" -> 0
    [] OTHER                    -> r.lamport

ReadRows(f) ==
  /\ flight[f].at = "posted" /\ flight[f].device \in Accepted
  /\ flight' = [flight EXCEPT ![f] =
                  Request("merging", flight[f].device, flight[f].edits, row, 0)]
  /\ UNCHANGED <<row, clock, queue, values, losses, history>>

Commit(f) ==
  LET read == flight[f].base
      edits == flight[f].edits
      applied == {e \in edits : Merge(e, read[e.key]) = "applied"}
      counters == {Told(e, read[e.key]) : e \in edits}
  IN /\ flight[f].at = "merging"
     /\ row' = [k \in Keys |->
          IF \E e \in applied : e.key = k
          THEN Updated(row[k], read[k], Packed(CHOOSE e \in applied : e.key = k))
          ELSE row[k]]
     /\ report' = report \cup
          {[edit |-> e, outcome |-> Merge(e, read[e.key])] : e \in edits}
     /\ mixed' = mixed \cup
          {e.key : e \in {x \in applied : row[x.key] # read[x.key]}}
     /\ \E highest \in counters :
          /\ \A c \in counters : c <= highest
          /\ flight' = [flight EXCEPT ![f] =
               Request("answered", flight[f].device, edits, NoRows, highest)]
     /\ UNCHANGED <<clock, queue, values, losses, last, raced>>
-----------------------------------------------------------------------------
(* The façade inserts the row or updates all its typed columns, but not    *)
(* the stamp.  It counts the rows before it writes; what overlapping       *)
(* requests may insert beyond the cap is left out.                         *)

Existing == {k \in Keys : row[k] # NoRow}

SetVariable(k) ==
  /\ values < MaxValues /\ KindOf[values + 1] # "big"
  /\ row[k] # NoRow \/ Cardinality(Existing) < MaxVars
  /\ values' = values + 1
  /\ row' = [row EXCEPT ![k] =
       [text |-> InColumn("text", values + 1), num |-> InColumn("num", values + 1),
        lamport |-> row[k].lamport, origin |-> row[k].origin]]
  /\ UNCHANGED <<clock, queue, flight, losses, history>>
-----------------------------------------------------------------------------
Next ==
  \/ \E d \in Devices, k \in Keys : QueueEdit(d, k)
  \/ \E f \in Flights, d \in Devices : Flush(f, d)
  \/ \E f \in Flights : ReadRows(f) \/ Commit(f) \/ Adopt(f) \/ Lose(f)
  \/ \E f \in Flights : \E e \in flight[f].edits : Drop(f, e)
  \/ \E k \in Keys : SetVariable(k)

Spec == Init /\ [][Next]_vars

(* The customer keeps coming back to the portal, which flushes on every    *)
(* load; a request the network lets through is answered and worked off.    *)
Fairness ==
  /\ \A d \in Devices : WF_vars(\E f \in Flights : Flush(f, d))
  /\ \A f \in Flights :
       WF_vars(\/ ReadRows(f) \/ Commit(f) \/ Adopt(f) \/ (Refused(f) /\ Lose(f))
               \/ \E e \in flight[f].edits : Drop(f, e))

FairSpec == Spec /\ Fairness
-----------------------------------------------------------------------------
Merged == {r.edit : r \in {x \in report : x.outcome # "rejected"}}

(* Whatever the order, the repetition and the loss of requests, a stored   *)
(* stamp is at least that of every edit merged into the variable, and the  *)
(* row of an edit that has won holds its value or a later one of the       *)
(* façade, in one column (core/crdt.py: commutative, idempotent,           *)
(* deterministic) - except a variable that a sync has updated over a       *)
(* change it did not read.                                                 *)
Converges ==
  \A e \in Merged : e.key \notin mixed =>
    LET r == row[e.key] IN
      /\ ~Dominates(e, r)
      /\ (r.text = Null) # (r.num = Null)
      /\ (e.lamport = r.lamport /\ e.origin = r.origin)
           => Larger(r.text, r.num) >= e.value

(* The latest edit a device made to a variable is pending or has been      *)
(* answered, through lost requests and answers, closed pages and           *)
(* overlapping flushes (flushEdits) - unless it was queued while an older  *)
(* edit of the variable was in flight.                                     *)
LastEditKept ==
  \A d \in Devices : \A e \in last[d] :
    e \in queue[d] \/ <<d, e.key>> \in raced \/ \E r \in report : r.edit = e

(* An edit is called a duplicate only if it has been applied before: no    *)
(* two edits ever carry the same stamp (merge, tickLamport).               *)
DuplicateWasApplied ==
  [][\A r \in report' \ report : r.outcome = "duplicate" =>
       \/ [edit |-> r.edit, outcome |-> "applied"] \in report
       \/ r.edit.key \in mixed]_vars

(* The queues drain: every outcome is final for the device, also one that  *)
(* rejects or ignores the edit (flushEdits).                               *)
QueueDrains == <>[](\A d \in Devices : queue[d] = {})
-----------------------------------------------------------------------------
(* What the code does not promise.                                         *)

(* Every outcome is terminal - the server has spoken about this edit.      *)
ServerHasSpoken ==
  \A d \in Devices : \A e \in last[d] :
    e \in queue[d] \/ \E r \in report : r.edit = e

(* Edits converge without the exception of overlapping requests.           *)
AlwaysConverges == \A e \in Merged : ~Dominates(e, row[e.key])

(* A change of type leaves no stale value in another column.               *)
OneColumn == \A k \in Keys : row[k].text = Null \/ row[k].num = Null

(* A value the façade has written is not replaced by an edit made before.  *)
Shown(k) == Larger(row[k].text, row[k].num)
FacadeWriteStays ==
  [][\A k \in Keys : Shown(k)' # Shown(k) /\ (\A e \in Merged : e.value # Shown(k))
       => Shown(k)' > Shown(k)]_vars
=============================================================================
