----------------------------- MODULE EventBusProofs -----------------------------
(* Safety of the drain to the event log for any number of relays, rows and *)
(* cases, any TTL and any number of faults, and its refinement of at-least-*)
(* once delivery.                                                          *)
EXTENDS EventBus, FiniteSetTheorems, TLAPS

(* The refinement and the type need nothing of Relays; the bound on copies *)
(* counts them.                                                            *)
Relay == [busy : BOOLEAN, todo : SUBSET Events, published : SUBSET Events]
Row   == [queued : BOOLEAN, published : BOOLEAN, claimAge : 0..NoClaim]

Safe == TypeOK /\ BatchBacked /\ PublishedIsOnLog

LEMMA Ages == NoClaim \in Nat /\ 0 \in 0..NoClaim /\ NoClaim \in 0..NoClaim
  BY BusAssumption DEF NoClaim

LEMMA InitSafe == Init => Safe
<1> SUFFICES ASSUME Init PROVE Safe
  OBVIOUS
<1>1. TypeOK
  <2>1. Idle \in Relay /\ Idle.todo \cap Idle.published = {}
    BY DEF Idle, Relay
  <2>2. 0 \in 0..MaxFaults
    BY BusAssumption
  <2> QED
    BY <2>1, <2>2, Ages DEF Init, TypeOK, Relay
<1>2. BatchBacked
  BY DEF Init, BatchBacked, Idle
<1>3. PublishedIsOnLog
  BY DEF Init, PublishedIsOnLog
<1> QED
  BY <1>1, <1>2, <1>3 DEF Safe

(* Appending to the log of a case: what is on a log stays there, and what  *)
(* is appended is there.                                                   *)
LEMMA Appended ==
  ASSUME TypeOK, NEW e \in Events,
         log' = [log EXCEPT ![CaseOf[e]] = Append(@, e)]
  PROVE  /\ log' \in [Cases -> Seq(Events)]
         /\ OnLog(e)'
         /\ \A d \in Events : OnLog(d) => OnLog(d)'
<1>0. log \in [Cases -> Seq(Events)] /\ CaseOf[e] \in Cases
  BY BusAssumption DEF TypeOK
<1> DEFINE c == CaseOf[e]
<1>1. log' \in [Cases -> Seq(Events)]
  BY <1>0
<1>2. log'[c] = Append(log[c], e) /\ log[c] \in Seq(Events)
  BY <1>0
<1>3. /\ Len(log'[c]) = Len(log[c]) + 1
      /\ log'[c][Len(log[c]) + 1] = e
      /\ \A i \in 1..Len(log[c]) : log'[c][i] = log[c][i]
  BY <1>2
<1>4. OnLog(e)'
  <2>1. Len(log[c]) + 1 \in DOMAIN log'[c]
    BY <1>1, <1>2, <1>3
  <2> QED
    BY <1>3, <2>1 DEF OnLog
<1>5. ASSUME NEW d \in Events, OnLog(d)
      PROVE  OnLog(d)'
  <2>1. PICK i \in DOMAIN log[CaseOf[d]] : log[CaseOf[d]][i] = d
    BY <1>5 DEF OnLog
  <2>2. CASE CaseOf[d] = c
    <3>1. i \in 1..Len(log[c]) /\ i \in DOMAIN log'[c] /\ log'[c][i] = d
      BY <1>1, <1>2, <1>3, <2>1, <2>2
    <3> QED
      BY <3>1, <2>2 DEF OnLog
  <2>3. CASE CaseOf[d] # c
    <3>1. log'[CaseOf[d]] = log[CaseOf[d]]
      BY <1>0, <2>3, BusAssumption
    <3> QED
      BY <3>1, <2>1 DEF OnLog
  <2> QED
    BY <2>2, <2>3
<1> QED
  BY <1>1, <1>4, <1>5

(* Every step keeps the type, the backing of a batch and of published_at.  *)
LEMMA NextSafe == Safe /\ [Next]_vars => Safe'
<1> SUFFICES ASSUME TypeOK, BatchBacked, PublishedIsOnLog, [Next]_vars
             PROVE  Safe'
  BY DEF Safe
<1>t. /\ outbox \in [Events -> Row] /\ log \in [Cases -> Seq(Events)]
      /\ relay \in [Relays -> Relay] /\ faults \in 0..MaxFaults
      /\ \A r \in Relays : relay[r].todo \cap relay[r].published = {}
  BY DEF TypeOK, Row, Relay
<1>1. ASSUME NEW e \in Events, DispatchEvent(e)
      PROVE  Safe'
  <2>1. [outbox[e] EXCEPT !.queued = TRUE] \in Row
    BY <1>t DEF Row
  <2>2. outbox' \in [Events -> Row]
    BY <1>1, <1>t, <2>1 DEF DispatchEvent
  <2>3. TypeOK'
    BY <1>1, <1>t, <2>2 DEF DispatchEvent, TypeOK, Row, Relay
  <2>4. \A d \in Events : /\ outbox[d].queued => outbox'[d].queued
                          /\ outbox'[d].published = outbox[d].published
    BY <1>1, <1>t DEF DispatchEvent, Row
  <2>5. relay' = relay /\ log' = log
    BY <1>1 DEF DispatchEvent
  <2>6. BatchBacked'
    BY <1>t, <2>4, <2>5 DEF BatchBacked, OnLog, Relay
  <2>7. PublishedIsOnLog'
    BY <2>4, <2>5 DEF PublishedIsOnLog, OnLog
  <2> QED
    BY <2>3, <2>6, <2>7 DEF Safe
<1>2. ASSUME NEW r \in Relays, Claim(r)
      PROVE  Safe'
  <2> DEFINE C == [busy |-> TRUE, todo |-> ClaimBatch, published |-> {}]
  <2>1. ClaimBatch \subseteq Events /\ \A e \in ClaimBatch : outbox[e].queued
    BY DEF ClaimBatch, Claimable
  <2>2. C \in Relay /\ C.todo = ClaimBatch /\ C.published = {} /\ C.busy
    BY <2>1 DEF Relay
  <2> HIDE DEF C
  <2>3. relay' = [relay EXCEPT ![r] = C] /\ log' = log /\ faults' = faults
    BY <1>2 DEF Claim, C
  <2>4. relay' \in [Relays -> Relay] /\ relay'[r] = C
        /\ \A q \in Relays \ {r} : relay'[q] = relay[q]
    BY <1>t, <2>2, <2>3
  <2>5. \A e \in Events : [outbox[e] EXCEPT !.claimAge = 0] \in Row
    BY <1>t, Ages DEF Row
  <2>6. outbox' \in [Events -> Row]
    BY <1>2, <1>t, <2>5 DEF Claim
  <2>7. TypeOK'
    BY <1>t, <2>2, <2>3, <2>4, <2>6 DEF TypeOK, Row, Relay
  <2>8. \A d \in Events : /\ outbox'[d].queued = outbox[d].queued
                          /\ outbox'[d].published = outbox[d].published
    BY <1>2, <1>t DEF Claim, Row
  <2>9. BatchBacked'
    <3>1. \A q \in Relays : relay[q].todo \subseteq Events
      BY <1>t DEF Relay
    <3> QED
      BY <2>1, <2>2, <2>3, <2>4, <2>8, <3>1 DEF BatchBacked, OnLog
  <2>10. PublishedIsOnLog'
    BY <2>3, <2>8 DEF PublishedIsOnLog, OnLog
  <2> QED
    BY <2>7, <2>9, <2>10 DEF Safe
<1>3. ASSUME NEW r \in Relays, NEW e \in Events, SendOk(r, e) \/ SendUnacked(r, e) \/ SendFailed(r, e)
      PROVE  Safe'
  <2> DEFINE done == IF SendOk(r, e) THEN relay[r].published \cup {e} ELSE relay[r].published
             C == [relay[r] EXCEPT !.todo = @ \ {e}, !.published = done]
  <2>1. /\ relay[r] \in Relay /\ e \in relay[r].todo /\ relay[r].busy
        /\ relay[r].todo \cap relay[r].published = {}
    BY <1>3, <1>t DEF SendOk, SendUnacked, SendFailed, NextToSend
  <2>2. /\ C \in Relay /\ C.todo = relay[r].todo \ {e} /\ C.published = done
        /\ C.busy = relay[r].busy /\ C.todo \cap C.published = {}
    BY <2>1 DEF Relay
  <2>3. relay' = [relay EXCEPT ![r] = C]
    <3>1. CASE SendOk(r, e)
      BY <2>1, <3>1 DEF SendOk, Relay
    <3>2. CASE ~SendOk(r, e)
      BY <1>3, <2>1, <3>2 DEF SendUnacked, SendFailed, Relay
    <3> QED
      BY <3>1, <3>2
  <2> HIDE DEF C
  <2>4. relay' \in [Relays -> Relay] /\ relay'[r] = C
        /\ \A q \in Relays \ {r} : relay'[q] = relay[q]
    BY <1>t, <2>2, <2>3
  <2>5. /\ outbox' = outbox /\ faults' \in 0..MaxFaults
        /\ log' \in [Cases -> Seq(Events)]
        /\ \A d \in Events : OnLog(d) => OnLog(d)'
        /\ SendOk(r, e) => OnLog(e)'
    <3>1. CASE SendOk(r, e)
      <4>1. /\ outbox' = outbox /\ faults' = faults
            /\ log' = [log EXCEPT ![CaseOf[e]] = Append(@, e)]
        BY <3>1 DEF SendOk
      <4> QED
        BY <1>t, <4>1, Appended
    <3>2. CASE SendUnacked(r, e) /\ ~SendOk(r, e)
      <4>1. faults' \in 0..MaxFaults
        BY <1>t, <3>2, BusAssumption DEF SendUnacked
      <4>2. outbox' = outbox /\ log' = [log EXCEPT ![CaseOf[e]] = Append(@, e)]
        BY <3>2 DEF SendUnacked
      <4> QED
        BY <3>2, <4>1, <4>2, Appended
    <3>3. CASE SendFailed(r, e) /\ ~SendOk(r, e)
      BY <1>t, <3>3 DEF SendFailed, OnLog
    <3> QED
      BY <1>3, <3>1, <3>2, <3>3
  <2>6. TypeOK'
    BY <1>t, <2>2, <2>4, <2>5 DEF TypeOK, Row, Relay
  <2>7. BatchBacked'
    <3>1. \A q \in Relays : relay[q].todo \subseteq Events /\ relay[q].published \subseteq Events
      BY <1>t DEF Relay
    <3>2. \A d \in C.published : OnLog(d)'
      BY <2>1, <2>2, <2>5, <3>1 DEF BatchBacked
    <3>3. C.busy
      BY <2>1, <2>2
    <3> QED
      BY <2>2, <2>4, <2>5, <3>1, <3>2, <3>3 DEF BatchBacked, Idle
  <2>8. PublishedIsOnLog'
    BY <2>5 DEF PublishedIsOnLog
  <2> QED
    BY <2>6, <2>7, <2>8 DEF Safe
<1>4. ASSUME NEW r \in Relays, MarkPublished(r)
      PROVE  Safe'
  <2>1. log' = log /\ faults' = faults /\ relay' = [relay EXCEPT ![r] = Idle]
    BY <1>4 DEF MarkPublished
  <2>2. Idle \in Relay /\ Idle.todo = {} /\ Idle.published = {}
    BY DEF Idle, Relay
  <2>3. relay' \in [Relays -> Relay] /\ relay'[r] = Idle
        /\ \A q \in Relays \ {r} : relay'[q] = relay[q]
    BY <1>t, <2>1, <2>2
  <2>4. \A d \in Events : [outbox[d] EXCEPT !.published = TRUE] \in Row
    BY <1>t DEF Row
  <2>5. outbox' \in [Events -> Row]
    BY <1>4, <1>t, <2>4 DEF MarkPublished
  <2>6. TypeOK'
    BY <1>t, <2>1, <2>2, <2>3, <2>5 DEF TypeOK, Row, Relay
  <2>7. \A d \in Events : /\ outbox'[d].queued = outbox[d].queued
                          /\ outbox'[d].published => outbox[d].published \/ d \in relay[r].published
    BY <1>4, <1>t DEF MarkPublished, Row
  <2>8. BatchBacked'
    <3>1. \A q \in Relays : relay[q].todo \subseteq Events
      BY <1>t DEF Relay
    <3> QED
      BY <2>1, <2>2, <2>3, <2>7, <3>1 DEF BatchBacked, OnLog
  <2>9. PublishedIsOnLog'
    BY <2>1, <2>7 DEF PublishedIsOnLog, BatchBacked, OnLog
  <2> QED
    BY <2>6, <2>8, <2>9 DEF Safe
<1>5. ASSUME NEW r \in Relays, CycleLost(r)
      PROVE  Safe'
  <2>1. log' = log /\ outbox' = outbox /\ relay' = [relay EXCEPT ![r] = Idle]
    BY <1>5 DEF CycleLost
  <2>2. Idle \in Relay /\ Idle.todo = {} /\ Idle.published = {}
    BY DEF Idle, Relay
  <2>3. relay' \in [Relays -> Relay] /\ relay'[r] = Idle
        /\ \A q \in Relays \ {r} : relay'[q] = relay[q]
    BY <1>t, <2>1, <2>2
  <2>4. faults' \in 0..MaxFaults
    BY <1>5, <1>t, BusAssumption DEF CycleLost
  <2>5. TypeOK'
    BY <1>t, <2>1, <2>2, <2>3, <2>4 DEF TypeOK, Row, Relay
  <2>6. BatchBacked' /\ PublishedIsOnLog'
    BY <2>1, <2>2, <2>3 DEF BatchBacked, PublishedIsOnLog, OnLog
  <2> QED
    BY <2>5, <2>6 DEF Safe
<1>6. CASE Tick
  <2>1. \A d \in Events :
          [outbox[d] EXCEPT !.claimAge = IF @ < NoClaim THEN @ + 1 ELSE NoClaim] \in Row
    BY <1>t, Ages DEF Row
  <2>2. outbox' \in [Events -> Row] /\ log' = log /\ relay' = relay /\ faults' = faults
    BY <1>6, <1>t, <2>1 DEF Tick
  <2>3. \A d \in Events : /\ outbox'[d].queued = outbox[d].queued
                          /\ outbox'[d].published = outbox[d].published
    BY <1>6, <1>t DEF Tick, Row
  <2>4. TypeOK'
    BY <1>t, <2>2 DEF TypeOK, Row, Relay
  <2>5. BatchBacked'
    BY <1>t, <2>2, <2>3 DEF BatchBacked, OnLog, Relay
  <2>6. PublishedIsOnLog'
    BY <2>2, <2>3 DEF PublishedIsOnLog, OnLog
  <2> QED
    BY <2>4, <2>5, <2>6 DEF Safe
<1>7. CASE UNCHANGED vars
  BY <1>7, <1>t DEF vars, Safe, TypeOK, BatchBacked, PublishedIsOnLog, OnLog, Row, Relay
<1> QED
  BY <1>1, <1>2, <1>3, <1>4, <1>5, <1>6, <1>7 DEF Next

-----------------------------------------------------------------------------
(* The bound on repetitions.                                               *)

(* Taking one element out of a finite set lowers its size by one at most.  *)
LEMMA Removing ==
  ASSUME NEW A, NEW x, IsFiniteSet(A)
  PROVE  /\ Cardinality(A \ {x}) \in Nat /\ Cardinality(A) \in Nat
         /\ Cardinality(A \ {x}) <= Cardinality(A)
         /\ Cardinality(A) <= Cardinality(A \ {x}) + 1
         /\ x \in A => Cardinality(A \ {x}) = Cardinality(A) - 1
<1>1. CASE x \in A
  <2>1. IsFiniteSet(A \ {x}) /\ Cardinality(A \ {x}) = Cardinality(A) - 1
    BY <1>1, FS_RemoveElement
  <2>2. Cardinality(A \ {x}) \in Nat /\ Cardinality(A) \in Nat
    BY <2>1, FS_CardinalityType
  <2> QED
    BY <1>1, <2>1, <2>2
<1>2. CASE x \notin A
  <2>1. A \ {x} = A
    BY <1>2
  <2>2. Cardinality(A) \in Nat /\ Cardinality(A \ {x}) = Cardinality(A)
    BY <2>1, FS_CardinalityType
  <2> QED
    BY <1>2, <2>2
<1> QED
  BY <1>1, <1>2

(* A relay cannot be sending and marking one event at once.                *)
LEMMA Shares ==
  ASSUME TypeOK, NEW d \in Events
  PROVE  /\ IsFiniteSet(Sending(d)) /\ IsFiniteSet(Marking(d))
         /\ Cardinality(Sending(d)) \in Nat /\ Cardinality(Marking(d)) \in Nat
         /\ Cardinality(Relays) \in Nat
         /\ Cardinality(Sending(d)) + Cardinality(Marking(d)) <= Cardinality(Relays)
<1> DEFINE S == Sending(d)
           M == Marking(d)
<1>1. S \subseteq Relays /\ M \subseteq Relays /\ S \cap M = {}
  BY DEF Sending, Marking, TypeOK
<1> HIDE DEF S, M
<1>2. IsFiniteSet(S) /\ IsFiniteSet(M) /\ IsFiniteSet(S \cup M)
  BY <1>1, RelaysFinite, FS_Subset, FS_Union
<1>3. Cardinality(S \cup M) = Cardinality(S) + Cardinality(M) - Cardinality(S \cap M)
  BY <1>2, FS_Union
<1>4. Cardinality(S \cap M) = 0
  BY <1>1, FS_EmptySet
<1>5. Cardinality(S \cup M) <= Cardinality(Relays)
  <2>1. S \cup M \subseteq Relays
    BY <1>1
  <2> QED
    BY <2>1, RelaysFinite, FS_Subset
<1>6. /\ Cardinality(S) \in Nat /\ Cardinality(M) \in Nat /\ Cardinality(Relays) \in Nat
      /\ Cardinality(S \cup M) \in Nat
  BY <1>2, RelaysFinite, FS_CardinalityType
<1>7. Cardinality(S) + Cardinality(M) <= Cardinality(Relays)
  BY <1>3, <1>4, <1>5, <1>6
<1> QED
  BY <1>2, <1>6, <1>7 DEF S, M

(* The copies of an event are finitely many.                               *)
LEMMA CopiesNat ==
  ASSUME TypeOK, NEW d \in Events
  PROVE  /\ IsFiniteSet({i \in DOMAIN log[CaseOf[d]] : log[CaseOf[d]][i] = d})
         /\ Copies(d) \in Nat
<1>1. log[CaseOf[d]] \in Seq(Events)
  BY BusAssumption DEF TypeOK
<1>2. DOMAIN log[CaseOf[d]] = 1..Len(log[CaseOf[d]]) /\ Len(log[CaseOf[d]]) \in Nat
  BY <1>1
<1>3. IsFiniteSet(1..Len(log[CaseOf[d]]))
  BY <1>2, FS_Interval
<1>4. IsFiniteSet({i \in DOMAIN log[CaseOf[d]] : log[CaseOf[d]][i] = d})
  BY <1>2, <1>3, FS_Subset
<1> QED
  BY <1>4, FS_CardinalityType DEF Copies

(* A broker append adds one copy of that event and of no other.            *)
LEMMA AppendCounted ==
  ASSUME TypeOK, NEW e \in Events,
         log' = [log EXCEPT ![CaseOf[e]] = Append(@, e)]
  PROVE  /\ Copies(e)' = Copies(e) + 1
         /\ \A d \in Events \ {e} : Copies(d)' = Copies(d)
<1> DEFINE c    == CaseOf[e]
           P(d) == {i \in DOMAIN log[CaseOf[d]] : log[CaseOf[d]][i] = d}
           Q(d) == {i \in DOMAIN log'[CaseOf[d]] : log'[CaseOf[d]][i] = d}
<1>0. log \in [Cases -> Seq(Events)] /\ c \in Cases /\ \A d \in Events : CaseOf[d] \in Cases
  BY BusAssumption DEF TypeOK
<1>1. /\ log[c] \in Seq(Events) /\ log'[c] = Append(log[c], e)
      /\ \A k \in Cases \ {c} : log'[k] = log[k]
  BY <1>0
<1>2. /\ Len(log[c]) \in Nat
      /\ DOMAIN log[c] = 1..Len(log[c]) /\ DOMAIN log'[c] = 1..(Len(log[c]) + 1)
      /\ log'[c][Len(log[c]) + 1] = e
      /\ \A i \in 1..Len(log[c]) : log'[c][i] = log[c][i]
  BY <1>1
<1>3. Q(e) = P(e) \cup {Len(log[c]) + 1} /\ Len(log[c]) + 1 \notin P(e)
  BY <1>2
<1>4. Copies(e)' = Copies(e) + 1
  <2>1. IsFiniteSet({i \in DOMAIN log[CaseOf[e]] : log[CaseOf[e]][i] = e})
    BY CopiesNat
  <2>2. Cardinality(Q(e)) = Cardinality(P(e)) + 1
    BY <1>3, <2>1, FS_AddElement
  <2> QED
    BY <2>2 DEF Copies
<1>5. ASSUME NEW d \in Events \ {e}
      PROVE  Copies(d)' = Copies(d)
  <2>1. CASE CaseOf[d] = c
    <3>1. Q(d) = P(d)
      BY <1>2, <2>1
    <3> QED
      BY <3>1 DEF Copies
  <2>2. CASE CaseOf[d] # c
    <3>1. log'[CaseOf[d]] = log[CaseOf[d]]
      BY <1>0, <1>1, <2>2
    <3> QED
      BY <3>1 DEF Copies
  <2> QED
    BY <2>1, <2>2
<1> QED
  BY <1>4, <1>5

(* One event in one step: its accounting survives when the changes to its  *)
(* copies, to who is marking it and to who is sending it balance.          *)
Accounted(d) ==
  IF outbox[d].published
  THEN Copies(d) + Cardinality(Sending(d)) <= Cardinality(Relays) + faults
  ELSE Copies(d) <= Cardinality(Marking(d)) + faults

(* A step that leaves the copies and the shares of an event alone.         *)
LEMMA Untouched ==
  ASSUME NEW d \in Events, TypeOK, Accounted(d),
         outbox'[d].published = outbox[d].published,
         Copies(d)' = Copies(d), Marking(d)' = Marking(d),
         outbox[d].published => Sending(d)' = Sending(d),
         faults' \in Nat, faults <= faults', faults \in Nat
  PROVE  Accounted(d)'
<1>1. Copies(d) \in Nat /\ Cardinality(Marking(d)) \in Nat
      /\ Cardinality(Sending(d)) \in Nat /\ Cardinality(Relays) \in Nat
  BY CopiesNat, Shares
<1>2. CASE outbox[d].published
  BY <1>1, <1>2 DEF Accounted
<1>3. CASE ~outbox[d].published
  BY <1>1, <1>3 DEF Accounted
<1> QED
  BY <1>2, <1>3

(* The broker appends an event, acknowledged or not.                       *)
LEMMA SendAccounted ==
  ASSUME Safe, CopiesAccounted, NEW r \in Relays, NEW e \in Events, NEW d \in Events,
         SendOk(r, e) \/ SendUnacked(r, e)
  PROVE  Accounted(d)'
<1>0. TypeOK /\ Accounted(d) /\ faults \in Nat
  BY DEF Safe, CopiesAccounted, Accounted, TypeOK
<1>1. /\ outbox' = outbox /\ log' = [log EXCEPT ![CaseOf[e]] = Append(@, e)]
      /\ r \in Sending(e) /\ r \notin Marking(e)
  BY <1>0 DEF SendOk, SendUnacked, NextToSend, Sending, Marking, TypeOK
<1>2. /\ Copies(e)' = Copies(e) + 1
      /\ d # e => Copies(d)' = Copies(d)
  BY <1>0, <1>1, AppendCounted
<1>3. /\ IsFiniteSet(Sending(d)) /\ IsFiniteSet(Marking(d)) /\ Copies(d) \in Nat
      /\ Cardinality(Sending(d)) \in Nat /\ Cardinality(Marking(d)) \in Nat
      /\ Cardinality(Relays) \in Nat
  BY <1>0, Shares, CopiesNat
<1>r. relay \in [Relays -> Relay]
  BY <1>0 DEF TypeOK, Relay
<1>4. CASE SendOk(r, e)
  <2>1. relay' = [relay EXCEPT ![r] =
                    [relay[r] EXCEPT !.todo = @ \ {e}, !.published = @ \cup {e}]]
        /\ faults' = faults
    BY <1>4 DEF SendOk
  <2>2. /\ \A q \in Relays \ {r} : relay'[q] = relay[q]
        /\ relay'[r].todo = relay[r].todo \ {e}
        /\ relay'[r].published = relay[r].published \cup {e}
    BY <1>r, <2>1 DEF Relay
  <2>3. CASE d = e
    <3>1. Sending(d)' = Sending(d) \ {r} /\ Marking(d)' = Marking(d) \cup {r}
      BY <2>2, <2>3 DEF Sending, Marking
    <3>2. Cardinality(Sending(d)') = Cardinality(Sending(d)) - 1
      BY <1>1, <1>3, <2>3, <3>1, FS_RemoveElement
    <3>3. Cardinality(Marking(d)') = Cardinality(Marking(d)) + 1
      BY <1>1, <1>3, <2>3, <3>1, FS_AddElement
    <3>4. CASE outbox[d].published
      BY <1>0, <1>1, <1>2, <1>3, <2>1, <2>3, <3>2, <3>4 DEF Accounted
    <3>5. CASE ~outbox[d].published
      BY <1>0, <1>1, <1>2, <1>3, <2>1, <2>3, <3>3, <3>5 DEF Accounted
    <3> QED
      BY <3>4, <3>5
  <2>4. CASE d # e
    <3>1. Sending(d)' = Sending(d) /\ Marking(d)' = Marking(d)
      BY <2>2, <2>4 DEF Sending, Marking
    <3> QED
      BY <1>0, <1>1, <1>2, <2>1, <2>4, <3>1, Untouched
  <2> QED
    BY <2>3, <2>4
<1>5. CASE SendUnacked(r, e)
  <2>1. relay' = [relay EXCEPT ![r] = [relay[r] EXCEPT !.todo = @ \ {e}]]
        /\ faults' = faults + 1
    BY <1>5 DEF SendUnacked
  <2>2. /\ \A q \in Relays \ {r} : relay'[q] = relay[q]
        /\ relay'[r].todo = relay[r].todo \ {e}
        /\ relay'[r].published = relay[r].published
    BY <1>r, <2>1 DEF Relay
  <2>3. CASE d = e
    <3>1. Sending(d)' = Sending(d) \ {r} /\ Marking(d)' = Marking(d)
      BY <2>2, <2>3 DEF Sending, Marking
    <3>2. Cardinality(Sending(d)') = Cardinality(Sending(d)) - 1
      BY <1>1, <1>3, <2>3, <3>1, FS_RemoveElement
    <3>4. CASE outbox[d].published
      BY <1>0, <1>1, <1>2, <1>3, <2>1, <2>3, <3>2, <3>4 DEF Accounted
    <3>5. CASE ~outbox[d].published
      BY <1>0, <1>1, <1>2, <1>3, <2>1, <2>3, <3>1, <3>5 DEF Accounted
    <3> QED
      BY <3>4, <3>5
  <2>4. CASE d # e
    <3>1. Sending(d)' = Sending(d) /\ Marking(d)' = Marking(d)
      BY <2>2, <2>4 DEF Sending, Marking
    <3> QED
      BY <1>0, <1>1, <1>2, <2>1, <2>4, <3>1, Untouched
  <2> QED
    BY <2>3, <2>4
<1> QED
  BY <1>4, <1>5

(* Every step keeps the accounting.                                        *)
LEMMA NextAccounted == Safe /\ CopiesAccounted /\ [Next]_vars => CopiesAccounted'
<1> SUFFICES ASSUME Safe, CopiesAccounted, [Next]_vars, NEW d \in Events
             PROVE  Accounted(d)'
  BY DEF CopiesAccounted, Accounted
<1>t. /\ TypeOK /\ Accounted(d) /\ faults \in Nat
      /\ relay \in [Relays -> Relay] /\ outbox \in [Events -> Row]
  BY DEF Safe, CopiesAccounted, Accounted, TypeOK, Relay, Row
<1>n. /\ IsFiniteSet(Sending(d)) /\ IsFiniteSet(Marking(d)) /\ Copies(d) \in Nat
      /\ Cardinality(Sending(d)) \in Nat /\ Cardinality(Marking(d)) \in Nat
      /\ Cardinality(Relays) \in Nat
      /\ Cardinality(Sending(d)) + Cardinality(Marking(d)) <= Cardinality(Relays)
  BY <1>t, Shares, CopiesNat
<1>1. ASSUME NEW e \in Events, DispatchEvent(e)
      PROVE  Accounted(d)'
  <2>1. /\ outbox'[d].published = outbox[d].published
        /\ log' = log /\ relay' = relay /\ faults' = faults
    BY <1>1, <1>t DEF DispatchEvent, Row
  <2> QED
    BY <1>t, <2>1, Untouched DEF Copies, Sending, Marking
<1>2. ASSUME NEW r \in Relays, Claim(r)
      PROVE  Accounted(d)'
  <2>1. /\ outbox'[d].published = outbox[d].published /\ log' = log /\ faults' = faults
    BY <1>2, <1>t DEF Claim, Row
  <2>2. relay[r].todo = {} /\ relay[r].published = {}
    BY <1>2 DEF Claim, Safe, BatchBacked, Idle
  <2>3. /\ \A q \in Relays \ {r} : relay'[q] = relay[q]
        /\ relay'[r].todo = ClaimBatch /\ relay'[r].published = {}
    BY <1>2, <1>t DEF Claim
  <2>4. Marking(d)' = Marking(d)
    BY <2>2, <2>3 DEF Marking
  <2>5. outbox[d].published => d \notin ClaimBatch
    BY DEF ClaimBatch, Claimable
  <2>6. outbox[d].published => Sending(d)' = Sending(d)
    BY <2>2, <2>3, <2>5 DEF Sending
  <2> QED
    BY <1>t, <2>1, <2>4, <2>6, Untouched DEF Copies
<1>3. ASSUME NEW r \in Relays, NEW e \in Events, SendOk(r, e) \/ SendUnacked(r, e)
      PROVE  Accounted(d)'
  BY <1>3, SendAccounted
<1>4. ASSUME NEW r \in Relays, NEW e \in Events, SendFailed(r, e)
      PROVE  Accounted(d)'
  <2>1. /\ outbox' = outbox /\ log' = log /\ faults' = faults
        /\ relay' = [relay EXCEPT ![r] = [relay[r] EXCEPT !.todo = @ \ {e}]]
    BY <1>4 DEF SendFailed
  <2>2. /\ \A q \in Relays \ {r} : relay'[q] = relay[q]
        /\ relay'[r].todo = relay[r].todo \ {e}
        /\ relay'[r].published = relay[r].published
    BY <1>t, <2>1 DEF Relay
  <2>3. Marking(d)' = Marking(d) /\ Copies(d)' = Copies(d)
    BY <2>1, <2>2 DEF Marking, Copies
  <2>4. Sending(d)' = Sending(d) \/ Sending(d)' = Sending(d) \ {r}
    BY <2>2 DEF Sending
  <2>5. /\ Cardinality(Sending(d)') \in Nat
        /\ Cardinality(Sending(d)') <= Cardinality(Sending(d))
    <3>1. CASE Sending(d)' = Sending(d)
      BY <1>n, <3>1
    <3>2. CASE Sending(d)' = Sending(d) \ {r}
      BY <1>n, <3>2, Removing
    <3> QED
      BY <2>4, <3>1, <3>2
  <2> QED
    BY <1>t, <1>n, <2>1, <2>3, <2>5 DEF Accounted
<1>5. ASSUME NEW r \in Relays, MarkPublished(r)
      PROVE  Accounted(d)'
  <2>1. /\ log' = log /\ faults' = faults
        /\ relay[r].todo = {}
        /\ relay' = [relay EXCEPT ![r] = Idle]
    BY <1>5 DEF MarkPublished
  <2>i. /\ \A q \in Relays \ {r} : relay'[q] = relay[q]
        /\ relay'[r].todo = {} /\ relay'[r].published = {}
    BY <1>t, <2>1 DEF Idle
  <2>2. outbox'[d].published = (outbox[d].published \/ d \in relay[r].published)
    BY <1>5, <1>t DEF MarkPublished, Row
  <2>3. Sending(d)' = Sending(d) /\ Copies(d)' = Copies(d)
    BY <2>1, <2>i DEF Sending, Copies
  <2>4. CASE outbox[d].published
    <3>1. Copies(d) + Cardinality(Sending(d)) <= Cardinality(Relays) + faults
      BY <1>t, <2>4 DEF Accounted
    <3> QED
      BY <2>1, <2>2, <2>3, <2>4, <3>1 DEF Accounted
  <2>5. CASE ~outbox[d].published /\ d \in relay[r].published
    <3>1. Copies(d) <= Cardinality(Marking(d)) + faults
      BY <1>t, <2>5 DEF Accounted
    <3>2. Copies(d) + Cardinality(Sending(d)) <= Cardinality(Relays) + faults
      BY <1>t, <1>n, <3>1
    <3> QED
      BY <2>1, <2>2, <2>3, <2>5, <3>2 DEF Accounted
  <2>6. CASE ~outbox[d].published /\ d \notin relay[r].published
    <3>1. Marking(d)' = Marking(d)
      BY <2>1, <2>i, <2>6 DEF Marking
    <3> QED
      BY <1>t, <1>n, <2>1, <2>2, <2>3, <2>6, <3>1 DEF Accounted
  <2> QED
    BY <2>4, <2>5, <2>6
<1>6. ASSUME NEW r \in Relays, CycleLost(r)
      PROVE  Accounted(d)'
  <2>1. /\ outbox' = outbox /\ log' = log /\ faults' = faults + 1
        /\ relay' = [relay EXCEPT ![r] = Idle]
    BY <1>6 DEF CycleLost
  <2>i. /\ \A q \in Relays \ {r} : relay'[q] = relay[q]
        /\ relay'[r].todo = {} /\ relay'[r].published = {}
    BY <1>t, <2>1 DEF Idle
  <2>2. /\ Sending(d)' = Sending(d) \ {r} /\ Marking(d)' = Marking(d) \ {r}
        /\ Copies(d)' = Copies(d)
    BY <2>1, <2>i DEF Sending, Marking, Copies
  <2>3. /\ Cardinality(Sending(d)') \in Nat /\ Cardinality(Marking(d)') \in Nat
        /\ Cardinality(Sending(d)') <= Cardinality(Sending(d))
        /\ Cardinality(Marking(d)) <= Cardinality(Marking(d)') + 1
    BY <1>n, <2>2, Removing
  <2>4. CASE outbox[d].published
    BY <1>t, <1>n, <2>1, <2>2, <2>3, <2>4 DEF Accounted
  <2>5. CASE ~outbox[d].published
    BY <1>t, <1>n, <2>1, <2>2, <2>3, <2>5 DEF Accounted
  <2> QED
    BY <2>4, <2>5
<1>7. CASE Tick
  <2>1. /\ outbox'[d].published = outbox[d].published
        /\ log' = log /\ relay' = relay /\ faults' = faults
    BY <1>7, <1>t DEF Tick, Row
  <2> QED
    BY <1>t, <2>1, Untouched DEF Copies, Sending, Marking
<1>8. CASE UNCHANGED vars
  <2>1. outbox' = outbox /\ log' = log /\ relay' = relay /\ faults' = faults
    BY <1>8 DEF vars
  <2> QED
    BY <1>t, <2>1, Untouched DEF Copies, Sending, Marking
<1> QED
  BY <1>1, <1>2, <1>3, <1>4, <1>5, <1>6, <1>7, <1>8 DEF Next

(* At the start nothing is on a log.                                       *)
LEMMA InitAccounted == Init => CopiesAccounted
<1> SUFFICES ASSUME Init, NEW d \in Events PROVE Accounted(d)
  BY DEF CopiesAccounted, Accounted
<1>1. TypeOK
  BY InitSafe DEF Safe
<1>2. Cardinality(Marking(d)) \in Nat
  BY <1>1, Shares
<1>3. Copies(d) = 0
  <2>1. log[CaseOf[d]] = <<>>
    BY BusAssumption DEF Init
  <2>2. {i \in DOMAIN log[CaseOf[d]] : log[CaseOf[d]][i] = d} = {}
    BY <2>1
  <2> QED
    BY <2>2, FS_EmptySet DEF Copies
<1> QED
  BY <1>2, <1>3 DEF Init, Accounted

(* The bound follows from the accounting.                                  *)
LEMMA AccountedBounds == TypeOK /\ CopiesAccounted => DuplicatesBounded
<1> SUFFICES ASSUME TypeOK, CopiesAccounted, NEW d \in Events
             PROVE  Copies(d) <= Cardinality(Relays) + faults
  BY DEF DuplicatesBounded
<1>1. faults \in Nat
  BY BusAssumption DEF TypeOK
<1>2. /\ Copies(d) \in Nat /\ Cardinality(Relays) \in Nat
      /\ Cardinality(Sending(d)) \in Nat /\ Cardinality(Marking(d)) \in Nat
      /\ Cardinality(Sending(d)) + Cardinality(Marking(d)) <= Cardinality(Relays)
  BY CopiesNat, Shares
<1>3. CASE outbox[d].published
  BY <1>1, <1>2, <1>3 DEF CopiesAccounted
<1>4. CASE ~outbox[d].published
  BY <1>1, <1>2, <1>4 DEF CopiesAccounted
<1> QED
  BY <1>3, <1>4

(* The inductive invariant holds in every reachable state.                 *)
THEOREM BusInvariant == Spec => []IInv
<1>1. Init => Safe /\ CopiesAccounted
  BY InitSafe, InitAccounted
<1>2. Safe /\ CopiesAccounted /\ [Next]_vars => (Safe /\ CopiesAccounted)'
  BY NextSafe, NextAccounted
<1>3. Safe /\ CopiesAccounted => IInv
  BY AccountedBounds DEF Safe, IInv
<1> QED
  BY <1>1, <1>2, <1>3, PTL DEF Spec

(* A row is marked published only when the broker has the event.           *)
THEOREM PublishedSound == Spec => []PublishedIsOnLog
<1>1. IInv => PublishedIsOnLog
  BY DEF IInv
<1> QED
  BY <1>1, BusInvariant, PTL

(* At most one copy of an event for each relay and each fault.             *)
THEOREM RepetitionsBounded == Spec => []DuplicatesBounded
<1>1. IInv => DuplicatesBounded
  BY DEF IInv
<1> QED
  BY <1>1, BusInvariant, PTL

-----------------------------------------------------------------------------
(* The refinement.  An append is the abstract Reach, a published_at write  *)
(* the abstract Confirm; claims, failed sends and time are stutters.       *)
Abstract == <<{e \in Events : outbox[e].queued}, {e \in Events : OnLog(e)},
              {e \in Events : outbox[e].published}>>

LEMMA StepImplements == Safe /\ [Next]_vars => [Queue!Next]_Queue!vars
<1> SUFFICES ASSUME Safe, Next
             PROVE  Queue!Next \/ UNCHANGED Abstract
  <2>1. UNCHANGED vars => UNCHANGED Abstract
    BY DEF vars, Abstract, OnLog
  <2> QED
    BY <2>1 DEF Queue!vars, Abstract
<1>t. /\ TypeOK /\ BatchBacked /\ PublishedIsOnLog /\ Safe'
      /\ outbox \in [Events -> Row] /\ relay \in [Relays -> Relay]
  BY NextSafe DEF Safe, TypeOK, Row, Relay
<1>1. ASSUME NEW e \in Events, DispatchEvent(e)
      PROVE  Queue!Emit(e)
  <2>1. \A d \in Events : /\ outbox'[d].queued = (outbox[d].queued \/ d = e)
                          /\ outbox'[d].published = outbox[d].published
    BY <1>1, <1>t DEF DispatchEvent, Row
  <2>2. log' = log /\ ~outbox[e].queued
    BY <1>1 DEF DispatchEvent
  <2> QED
    BY <2>1, <2>2 DEF Queue!Emit, OnLog
<1>2. ASSUME NEW r \in Relays, NEW e \in Events, SendOk(r, e) \/ SendUnacked(r, e)
      PROVE  Queue!Reach(e)
  <2>1. /\ outbox' = outbox /\ e \in relay[r].todo
        /\ log' = [log EXCEPT ![CaseOf[e]] = Append(@, e)]
    BY <1>2 DEF SendOk, SendUnacked, NextToSend
  <2>2. outbox[e].queued
    BY <1>t, <2>1 DEF BatchBacked
  <2>3. \A d \in Events : OnLog(d)' <=> OnLog(d) \/ d = e
    <3>1. log \in [Cases -> Seq(Events)] /\ \A d \in Events : CaseOf[d] \in Cases
      BY <1>t, BusAssumption DEF TypeOK
    <3>2. ASSUME NEW d \in Events, OnLog(d)', d # e
          PROVE  OnLog(d)
      <4>1. PICK i \in DOMAIN log'[CaseOf[d]] : log'[CaseOf[d]][i] = d
        BY <3>2 DEF OnLog
      <4>2. CASE CaseOf[d] = CaseOf[e]
        <5>1. log'[CaseOf[d]] = Append(log[CaseOf[d]], e) /\ log[CaseOf[d]] \in Seq(Events)
          BY <2>1, <3>1, <4>2
        <5>2. i \in 1..Len(log[CaseOf[d]]) \/ i = Len(log[CaseOf[d]]) + 1
          BY <4>1, <5>1
        <5>3. i \in DOMAIN log[CaseOf[d]] /\ log[CaseOf[d]][i] = d
          BY <3>2, <4>1, <5>1, <5>2
        <5> QED
          BY <5>3 DEF OnLog
      <4>3. CASE CaseOf[d] # CaseOf[e]
        <5>1. log'[CaseOf[d]] = log[CaseOf[d]]
          BY <2>1, <3>1, <4>3
        <5> QED
          BY <4>1, <5>1 DEF OnLog
      <4> QED
        BY <4>2, <4>3
    <3>3. OnLog(e)' /\ \A d \in Events : OnLog(d) => OnLog(d)'
      BY <1>t, <2>1, Appended
    <3> QED
      BY <3>2, <3>3
  <2>4. {d \in Events : OnLog(d)}' = {d \in Events : OnLog(d)} \cup {e}
    BY <2>3
  <2> QED
    BY <2>1, <2>2, <2>4 DEF Queue!Reach
<1>3. ASSUME NEW r \in Relays, MarkPublished(r)
      PROVE  Queue!Confirm({e \in Events : outbox'[e].published})
  <2>1. log' = log
    BY <1>3 DEF MarkPublished
  <2>2. \A d \in Events : /\ outbox'[d].queued = outbox[d].queued
                          /\ outbox[d].published => outbox'[d].published
    BY <1>3, <1>t DEF MarkPublished, Row
  <2>3. \A d \in Events : outbox'[d].published => OnLog(d)
    BY <1>t, <2>1 DEF Safe, PublishedIsOnLog, OnLog
  <2> QED
    BY <2>1, <2>2, <2>3 DEF Queue!Confirm, OnLog
<1>4. ASSUME NEW r \in Relays, Claim(r)
      PROVE  UNCHANGED Abstract
  <2>1. log' = log /\ \A d \in Events : /\ outbox'[d].queued = outbox[d].queued
                                       /\ outbox'[d].published = outbox[d].published
    BY <1>4, <1>t DEF Claim, Row
  <2> QED
    BY <2>1 DEF Abstract, OnLog
<1>5. CASE Tick
  <2>1. log' = log /\ \A d \in Events : /\ outbox'[d].queued = outbox[d].queued
                                       /\ outbox'[d].published = outbox[d].published
    BY <1>5, <1>t DEF Tick, Row
  <2> QED
    BY <2>1 DEF Abstract, OnLog
<1>6. ASSUME NEW r \in Relays, CycleLost(r) \/ \E e \in Events : SendFailed(r, e)
      PROVE  UNCHANGED Abstract
  BY <1>6 DEF CycleLost, SendFailed, Abstract, OnLog
<1>7. ASSUME NEW r \in Relays, MarkPublished(r)
      PROVE  Queue!Next
  <2> DEFINE M == {e \in Events : outbox'[e].published}
  <2>1. M \in SUBSET Events
    OBVIOUS
  <2>2. Queue!Confirm(M)
    BY <1>3, <1>7
  <2> HIDE DEF M
  <2>3. \E marked \in SUBSET Events : Queue!Confirm(marked)
    BY <2>1, <2>2 DEF Queue!Confirm
  <2> QED
    BY <2>3 DEF Queue!Next
<1>8. ASSUME NEW e \in Events, Queue!Emit(e) \/ Queue!Reach(e)
      PROVE  Queue!Next
  BY <1>8 DEF Queue!Next
<1> QED
  BY <1>1, <1>2, <1>4, <1>5, <1>6, <1>7, <1>8 DEF Next

(* Draining the outbox to the log is at-least-once delivery, and what is   *)
(* confirmed stays confirmed: the event bus implements DeliveryQueue.      *)
THEOREM BusRefinesQueue == Spec => AtLeastOnce
<1>1. Init => Queue!Init
  <2> SUFFICES ASSUME Init PROVE Queue!Init
    OBVIOUS
  <2>1. \A e \in Events : ~outbox[e].queued /\ ~outbox[e].published
    BY DEF Init
  <2>2. \A e \in Events : log[CaseOf[e]] = <<>>
    BY BusAssumption DEF Init
  <2>3. \A e \in Events : ~OnLog(e)
    BY <2>2 DEF OnLog
  <2> QED
    BY <2>1, <2>3 DEF Queue!Init
<1>2. Init => Safe
  BY InitSafe
<1>3. Safe /\ [Next]_vars => Safe'
  BY NextSafe
<1> QED
  BY <1>1, <1>2, <1>3, StepImplements, PTL DEF Spec, Queue!Spec, AtLeastOnce

(* Rows, logs and relays keep their types.                                 *)
THEOREM TypeCorrect == Spec => []TypeOK
<1>1. IInv => TypeOK
  BY DEF IInv
<1> QED
  BY <1>1, BusInvariant, PTL

-----------------------------------------------------------------------------
(* The order of a case's events.  The module's documentation promises it;  *)
(* a failed send, a lost cycle or acknowledgement, a second relay and a    *)
(* row that commits behind a younger one each break it.  Without these it  *)
(* holds, for any batch size and TTL: no other step reorders events.       *)

(* Rows of one case become visible in the order of their created_at.       *)
InCreationOrder ==
  \A d, e \in Events :
    CaseOf[d] = CaseOf[e] /\ d < e /\ outbox[e].queued => outbox[d].queued

(* No send fails and no cycle is lost.                                     *)
NothingFails ==
  \A r \in Relays :
    /\ ~CycleLost(r)
    /\ \A e \in Events : ~SendFailed(r, e) /\ ~SendUnacked(r, e)

(* A row that waits is one the next claim takes; a row of the batch has    *)
(* not been sent yet; what has been sent is marked, or will be at the end  *)
(* of the cycle.                                                           *)
WaitingIsDue(r) ==
  /\ \A e \in Events : ~outbox[e].queued => outbox[e].claimAge > ClaimTTL
  /\ \A e \in Events :
       outbox[e].queued /\ ~OnLog(e) => e \in relay[r].todo \/ Claimable(e)
  /\ \A e \in relay[r].todo : ~OnLog(e)
  /\ \A e \in Events :
       OnLog(e) => outbox[e].queued /\ (outbox[e].published \/ e \in relay[r].published)

(* Whatever is still to come of a case is younger than what was sent, and  *)
(* what is not in the batch younger than what is.                          *)
YoungerComeLater(r) ==
  \A d, e \in Events :
    CaseOf[d] = CaseOf[e] /\ outbox[e].queued /\ ~OnLog(e)
      => /\ OnLog(d) => d < e
         /\ d \in relay[r].todo /\ e \notin relay[r].todo => d < e

(* The log of a case holds its events, each once and in order.             *)
LogIncreasing ==
  \A c \in Cases :
    /\ \A i \in DOMAIN log[c] : log[c][i] \in Events /\ CaseOf[log[c][i]] = c
    /\ \A i, j \in DOMAIN log[c] : i < j => log[c][i] < log[c][j]

InOrder(r) == Safe /\ WaitingIsDue(r) /\ YoungerComeLater(r) /\ LogIncreasing

(* What an append does to the log of its case, and to no other.            *)
LEMMA AppendedLast ==
  ASSUME TypeOK, LogIncreasing, NEW e \in Events,
         log' = [log EXCEPT ![CaseOf[e]] = Append(@, e)],
         \A d \in Events : CaseOf[d] = CaseOf[e] /\ OnLog(d) => d < e
  PROVE  LogIncreasing' /\ \A d \in Events : OnLog(d)' => OnLog(d) \/ d = e
<1>0. log \in [Cases -> Seq(Events)] /\ CaseOf[e] \in Cases /\ Events \subseteq Nat
  BY BusAssumption DEF TypeOK
<1> DEFINE c == CaseOf[e]
           n == Len(log[c])
<1>1. /\ log'[c] = Append(log[c], e) /\ log[c] \in Seq(Events) /\ n \in Nat
      /\ \A b \in Cases : b # c => log'[b] = log[b]
  BY <1>0
<1>2. /\ DOMAIN log'[c] = 1..(n + 1) /\ DOMAIN log[c] = 1..n
      /\ log'[c][n + 1] = e
      /\ \A i \in 1..n : log'[c][i] = log[c][i]
  BY <1>1
<1>3. \A i \in 1..n : log[c][i] \in Events /\ CaseOf[log[c][i]] = c /\ log[c][i] < e
  BY <1>0, <1>2 DEF LogIncreasing, OnLog
<1> HIDE DEF n, c
<1>4. ASSUME NEW b \in Cases
      PROVE  /\ \A i \in DOMAIN log'[b] : log'[b][i] \in Events /\ CaseOf[log'[b][i]] = b
             /\ \A i, j \in DOMAIN log'[b] : i < j => log'[b][i] < log'[b][j]
  <2>1. CASE b # c
    BY <1>1, <2>1 DEF LogIncreasing
  <2>2. CASE b = c
    <3>1. \A i \in 1..(n + 1) : i \in 1..n \/ i = n + 1
      BY <1>1
    <3>2. ASSUME NEW i \in 1..(n + 1)
          PROVE  log'[c][i] \in Events /\ CaseOf[log'[c][i]] = c
      BY <1>2, <1>3, <3>1 DEF c
    <3>3. ASSUME NEW i \in 1..(n + 1), NEW j \in 1..(n + 1), i < j
          PROVE  log'[c][i] < log'[c][j]
      <4>1. i \in 1..n
        BY <3>3, <1>1
      <4>2. CASE j = n + 1
        BY <4>1, <4>2, <1>2, <1>3
      <4>3. CASE j \in 1..n
        BY <4>1, <4>3, <3>3, <1>0, <1>2 DEF LogIncreasing, c
      <4> QED
        BY <3>1, <4>2, <4>3
    <3> QED
      BY <1>2, <2>2, <3>2, <3>3
  <2> QED
    BY <2>1, <2>2
<1>5. ASSUME NEW d \in Events, OnLog(d)', ~OnLog(d)
      PROVE  d = e
  <2>1. CaseOf[d] \in Cases
    BY BusAssumption
  <2>2. CaseOf[d] = c
    BY <2>1, <1>1, <1>5 DEF OnLog
  <2>3. PICK i \in 1..(n + 1) : log'[c][i] = d
    BY <1>2, <1>5, <2>2 DEF OnLog
  <2>4. i \notin 1..n
    BY <1>2, <1>5, <2>2, <2>3 DEF OnLog
  <2>5. i = n + 1
    BY <1>1, <2>4
  <2> QED
    BY <1>2, <2>3, <2>5
<1>6. LogIncreasing'
  BY <1>4 DEF LogIncreasing
<1> QED
  BY <1>5, <1>6

(* A claim takes the oldest of the rows that are due.                      *)
LEMMA BatchIsOldest ==
  ASSUME NEW d \in ClaimBatch, NEW e \in Events, Claimable(e), e \notin ClaimBatch
  PROVE  d < e
<1> DEFINE due == {x \in Events : Claimable(x)}
           Below(x) == {y \in due : y < x}
<1>1. /\ Events \subseteq Nat /\ BatchSize \in Nat
      /\ d \in due /\ e \in due
      /\ Cardinality(Below(d)) < BatchSize
      /\ ~(Cardinality(Below(e)) < BatchSize)
  BY BusAssumption DEF ClaimBatch
<1>2. SUFFICES ASSUME ~(d < e) PROVE FALSE
  OBVIOUS
<1>3. Below(e) \subseteq Below(d)
  <2>1. \A y \in due : y < e => y < d
    BY <1>1, <1>2
  <2> HIDE DEF due
  <2> QED
    BY <2>1
<1>4. \A x \in due : IsFiniteSet(Below(x))
  <2> SUFFICES ASSUME NEW x \in due PROVE IsFiniteSet(Below(x))
    OBVIOUS
  <2>1. x \in Nat /\ due \subseteq Nat
    BY <1>1
  <2>2. Below(x) \subseteq 0..x
    <3>1. \A y \in due : y < x => y \in 0..x
      BY <2>1
    <3> HIDE DEF due
    <3> QED
      BY <3>1
  <2>3. IsFiniteSet(0..x)
    BY <2>1, FS_Interval
  <2> HIDE DEF Below
  <2> QED
    BY <2>2, <2>3, FS_Subset
<1>5. Cardinality(Below(e)) <= Cardinality(Below(d))
  BY <1>1, <1>3, <1>4, FS_Subset
<1>6. Cardinality(Below(e)) \in Nat /\ Cardinality(Below(d)) \in Nat
  BY <1>1, <1>4, FS_CardinalityType
<1> QED
  BY <1>1, <1>5, <1>6

LEMMA InitInOrder == ASSUME Init, NEW r \in Relays PROVE InOrder(r)
<1>1. \A e \in Events : ~outbox[e].queued /\ outbox[e].claimAge > ClaimTTL
  BY BusAssumption DEF Init, NoClaim
<1>2. \A c \in Cases : log[c] = <<>>
  BY DEF Init
<1>3. \A e \in Events : ~OnLog(e)
  BY <1>2, BusAssumption DEF OnLog
<1>4. relay[r].todo = {}
  BY DEF Init, Idle
<1>5. LogIncreasing
  BY <1>2 DEF LogIncreasing
<1> QED
  BY <1>1, <1>3, <1>4, <1>5, InitSafe DEF InOrder, WaitingIsDue, YoungerComeLater

(* Every step of one relay that meets no failure keeps the order.          *)
LEMMA NextInOrder ==
  ASSUME NEW r \in Relays, Relays = {r}, InOrder(r), InCreationOrder,
         [Next /\ NothingFails]_vars
  PROVE  InOrder(r)'
<1>s. Safe' /\ Safe
  BY NextSafe DEF InOrder
<1>t. /\ outbox \in [Events -> Row] /\ log \in [Cases -> Seq(Events)]
      /\ relay \in [Relays -> Relay] /\ Events \subseteq Nat
      /\ relay[r].todo \subseteq Events
      /\ TypeOK /\ BatchBacked /\ PublishedIsOnLog
  BY <1>s, BusAssumption DEF Safe, TypeOK, Row, Relay
<1>i. WaitingIsDue(r) /\ YoungerComeLater(r) /\ LogIncreasing
  BY DEF InOrder
<1> SUFFICES WaitingIsDue(r)' /\ YoungerComeLater(r)' /\ LogIncreasing'
  BY <1>s DEF InOrder
<1>1. ASSUME NEW e \in Events, DispatchEvent(e)
      PROVE  WaitingIsDue(r)' /\ YoungerComeLater(r)' /\ LogIncreasing'
  <2>1. /\ log' = log /\ relay' = relay /\ ~outbox[e].queued
        /\ \A d \in Events : /\ (outbox'[d].queued <=> outbox[d].queued \/ d = e)
                              /\ (outbox'[d].published <=> outbox[d].published)
                              /\ outbox'[d].claimAge = outbox[d].claimAge
    BY <1>1, <1>t DEF DispatchEvent, Row
  <2>2. ~OnLog(e) /\ ~outbox[e].published
    BY <2>1, <1>i, <1>t DEF WaitingIsDue, PublishedIsOnLog
  <2>3. e \notin relay[r].todo
    BY <2>1, <1>t DEF BatchBacked
  <2>q. /\ relay[r].todo \subseteq Events
        /\ \A d \in Events : OnLog(d) \/ d \in relay[r].todo => outbox[d].queued
    BY <1>t, <1>i DEF WaitingIsDue, BatchBacked, Relay
  <2>o. \A d \in Events : OnLog(d)' <=> OnLog(d)
    BY <2>1 DEF OnLog
  <2>4. WaitingIsDue(r)'
    BY <1>i, <1>t, <2>1, <2>2, <2>o DEF WaitingIsDue, Claimable
  <2>5. ASSUME NEW d \in Events, CaseOf[d] = CaseOf[e], outbox[d].queued
        PROVE  d < e
    BY <2>1, <2>5, <1>t DEF InCreationOrder
  <2>6. YoungerComeLater(r)'
    BY <1>i, <2>1, <2>5, <2>q, <2>o DEF YoungerComeLater
  <2> QED
    BY <1>i, <2>1, <2>4, <2>6 DEF LogIncreasing
<1>2. ASSUME Claim(r)
      PROVE  WaitingIsDue(r)' /\ YoungerComeLater(r)' /\ LogIncreasing'
  <2>1. /\ log' = log /\ relay'[r].todo = ClaimBatch /\ relay'[r].published = {}
        /\ relay[r].todo = {} /\ relay[r].published = {}
    BY <1>2, <1>t DEF Claim, BatchBacked, Idle
  <2>2. \A d \in Events : /\ (outbox'[d].queued <=> outbox[d].queued)
                          /\ (outbox'[d].published <=> outbox[d].published)
                          /\ d \notin ClaimBatch => outbox'[d] = outbox[d]
    BY <1>2, <1>t DEF Claim, Row
  <2>3. \A d \in ClaimBatch : d \in Events /\ Claimable(d)
    BY DEF ClaimBatch
  <2>o. \A d \in Events : OnLog(d)' <=> OnLog(d)
    BY <2>1 DEF OnLog
  <2>4. WaitingIsDue(r)'
    <3>1. \A d \in ClaimBatch : ~OnLog(d) /\ outbox[d].queued
      BY <1>i, <2>1, <2>3 DEF WaitingIsDue, Claimable
    <3> QED
      BY <1>i, <2>1, <2>2, <2>3, <2>o, <3>1 DEF WaitingIsDue, Claimable
  <2>5. ASSUME NEW d \in Events, NEW e \in Events, outbox[e].queued, ~OnLog(e),
               d \in ClaimBatch, e \notin ClaimBatch
        PROVE  d < e
    <3>1. Claimable(e)
      BY <1>i, <2>1, <2>5 DEF WaitingIsDue
    <3> QED
      BY <2>5, <3>1, BatchIsOldest
  <2>6. YoungerComeLater(r)'
    BY <1>i, <2>1, <2>2, <2>5, <2>o DEF YoungerComeLater
  <2> QED
    BY <1>i, <2>1, <2>4, <2>6 DEF LogIncreasing
<1>3. ASSUME NEW e \in Events, SendOk(r, e)
      PROVE  WaitingIsDue(r)' /\ YoungerComeLater(r)' /\ LogIncreasing'
  <2>1. /\ log' = [log EXCEPT ![CaseOf[e]] = Append(@, e)] /\ outbox' = outbox
        /\ relay'[r].todo = relay[r].todo \ {e}
        /\ relay'[r].published = relay[r].published \cup {e}
        /\ e \in relay[r].todo /\ \A d \in relay[r].todo : e <= d
    BY <1>3, <1>t DEF SendOk, NextToSend, Relay
  <2>2. ~OnLog(e) /\ outbox[e].queued
    BY <2>1, <1>i, <1>t DEF WaitingIsDue, BatchBacked
  <2>3. \A d \in Events : CaseOf[d] = CaseOf[e] /\ OnLog(d) => d < e
    BY <2>2, <1>i DEF YoungerComeLater
  <2>4. LogIncreasing' /\ \A d \in Events : OnLog(d)' => OnLog(d) \/ d = e
    BY <2>1, <2>3, <1>t, <1>i, AppendedLast
  <2>5. \A d \in Events : OnLog(d)' <=> OnLog(d) \/ d = e
    BY <2>1, <2>4, <1>t, Appended
  <2>6. WaitingIsDue(r)'
    BY <1>i, <1>t, <2>1, <2>2, <2>5 DEF WaitingIsDue, Claimable
  <2>7. ASSUME NEW f \in Events, CaseOf[f] = CaseOf[e], outbox[f].queued, ~OnLog(f), f # e
        PROVE  e < f
    <3>1. CASE f \in relay[r].todo
      BY <2>1, <2>7, <3>1, <1>t
    <3>2. CASE f \notin relay[r].todo
      BY <2>1, <2>7, <3>2, <1>i DEF YoungerComeLater
    <3> QED
      BY <3>1, <3>2
  <2>8. YoungerComeLater(r)'
    BY <1>i, <2>1, <2>5, <2>7 DEF YoungerComeLater
  <2> QED
    BY <2>4, <2>6, <2>8
<1>4. ASSUME MarkPublished(r)
      PROVE  WaitingIsDue(r)' /\ YoungerComeLater(r)' /\ LogIncreasing'
  <2>1. log' = log /\ relay[r].todo = {} /\ relay'[r].todo = {}
    BY <1>4, <1>t DEF MarkPublished, Idle
  <2>2. \A d \in Events :
          /\ (outbox'[d].queued <=> outbox[d].queued)
          /\ outbox'[d].claimAge = outbox[d].claimAge
          /\ (outbox'[d].published <=> outbox[d].published \/ d \in relay[r].published)
    BY <1>4, <1>t DEF MarkPublished, Row
  <2>o. \A d \in Events : OnLog(d)' <=> OnLog(d)
    BY <2>1 DEF OnLog
  <2>3. \A d \in relay[r].published : OnLog(d)
    BY <1>t DEF BatchBacked
  <2>4. WaitingIsDue(r)'
    BY <1>i, <2>1, <2>2, <2>3, <2>o DEF WaitingIsDue, Claimable
  <2>5. YoungerComeLater(r)'
    BY <1>i, <2>1, <2>2, <2>o DEF YoungerComeLater
  <2> QED
    BY <1>i, <2>1, <2>4, <2>5 DEF LogIncreasing
<1>5. ASSUME Tick
      PROVE  WaitingIsDue(r)' /\ YoungerComeLater(r)' /\ LogIncreasing'
  <2>1. log' = log /\ relay' = relay
    BY <1>5 DEF Tick
  <2>2. \A d \in Events : /\ (outbox'[d].queued <=> outbox[d].queued)
                          /\ (outbox'[d].published <=> outbox[d].published)
                          /\ outbox[d].claimAge > ClaimTTL => outbox'[d].claimAge > ClaimTTL
    <3> SUFFICES ASSUME NEW d \in Events
                 PROVE  /\ (outbox'[d].queued <=> outbox[d].queued)
                        /\ (outbox'[d].published <=> outbox[d].published)
                        /\ outbox[d].claimAge > ClaimTTL => outbox'[d].claimAge > ClaimTTL
      OBVIOUS
    <3> DEFINE a == IF outbox[d].claimAge < NoClaim THEN outbox[d].claimAge + 1 ELSE NoClaim
    <3>1. outbox[d] \in Row /\ outbox'[d] = [outbox[d] EXCEPT !.claimAge = a]
      BY <1>5, <1>t DEF Tick
    <3>2. outbox[d].claimAge > ClaimTTL => a > ClaimTTL
      BY <3>1, Ages, BusAssumption DEF Row, NoClaim
    <3> HIDE DEF a
    <3> QED
      BY <3>1, <3>2 DEF Row
  <2>o. \A d \in Events : OnLog(d)' <=> OnLog(d)
    BY <2>1 DEF OnLog
  <2>3. WaitingIsDue(r)'
    BY <1>i, <1>t, <2>1, <2>2, <2>o DEF WaitingIsDue, Claimable
  <2>4. YoungerComeLater(r)'
    BY <1>i, <2>1, <2>2, <2>o DEF YoungerComeLater
  <2> QED
    BY <1>i, <2>1, <2>3, <2>4 DEF LogIncreasing
<1>6. CASE UNCHANGED vars
  <2>1. \A d \in Events : OnLog(d)' <=> OnLog(d)
    BY <1>6 DEF vars, OnLog
  <2>2. outbox' = outbox /\ log' = log /\ relay' = relay
    BY <1>6 DEF vars
  <2>3. WaitingIsDue(r)'
    BY <1>i, <1>t, <2>1, <2>2 DEF WaitingIsDue, Claimable
  <2>4. YoungerComeLater(r)'
    BY <1>i, <2>1, <2>2 DEF YoungerComeLater
  <2> QED
    BY <1>i, <2>2, <2>3, <2>4 DEF LogIncreasing
<1>7. CASE Next /\ NothingFails
  BY <1>7, <1>1, <1>2, <1>3, <1>4, <1>5 DEF Next, NothingFails
<1> QED
  BY <1>6, <1>7

(* The events of a case are on the log in the order they were created,     *)
(* when one relay drains them, they commit in that order, and nothing      *)
(* fails: the promise holds up to the failures that section 4 of the       *)
(* README lists, and these are all there are.                              *)
THEOREM OrderWithoutFailures ==
  ASSUME NEW r, Relays = {r}
  PROVE  Spec /\ []InCreationOrder /\ [][NothingFails]_vars => []CaseOrderKept
<1> DEFINE I == InOrder(r)
<1>0. r \in Relays
  OBVIOUS
<1>1. Init => I
  BY <1>0, InitInOrder
<1>2. I /\ InCreationOrder /\ [Next]_vars /\ [NothingFails]_vars => I'
  BY <1>0, NextInOrder
<1>3. I => CaseOrderKept
  BY DEF InOrder, LogIncreasing, CaseOrderKept
<1> QED
  BY <1>1, <1>2, <1>3, PTL DEF Spec
=============================================================================
