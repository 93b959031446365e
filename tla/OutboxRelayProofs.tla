---------------------------- MODULE OutboxRelayProofs ----------------------------
(* Safety of webhook delivery for any number of replicas, events and       *)
(* subscriptions and any TTL, back-off and batch size.                     *)
EXTENDS OutboxRelay, TLAPS

USE EventsAssumption, TimingAssumption, BackoffAssumption

(* The bounds on ages are naturals and a relay's age can exceed the TTL.   *)
LEMMA AgeBounds ==
  /\ NoClaim \in Nat /\ ClaimTTL \in Nat /\ ClaimTTL < NoClaim
  /\ AgeCap \in Nat /\ NoClaim <= AgeCap
  BY DEF NoClaim, AgeCap

(* The initial states satisfy the inductive invariant.                     *)
LEMMA InitIInv == Init => IInv
<1> SUFFICES ASSUME Init PROVE IInv
  OBVIOUS
<1> USE AgeBounds DEF Init, Idle, FreshCycle
<1>1. TypeOK
  BY DEF TypeOK, Row, Cycle, Outcomes
<1>2. ClaimsDated
  BY DEF ClaimsDated
<1>3. OutcomesBacked
  BY DEF OutcomesBacked
<1>4. FreshClaimExclusive /\ DeliveredWasAccepted
  BY DEF FreshClaimExclusive, DeliveredWasAccepted, Holds
<1> QED
  BY <1>1, <1>2, <1>3, <1>4 DEF IInv

(* Emitting an event or changing a subscription touches no claim.          *)
LEMMA EnvironmentStep ==
  ASSUME IInv,
         \/ \E e \in Events : DispatchEvent(e)
         \/ \E s \in Subs : ToggleSubscription(s)
  PROVE  IInv'
<1> USE DEF DispatchEvent, ToggleSubscription
<1>0. TypeOK /\ ClaimsDated /\ OutcomesBacked /\ FreshClaimExclusive /\ DeliveredWasAccepted
  BY DEF IInv
<1>1. TypeOK'
  <2>1. CASE \E e \in Events : DispatchEvent(e)
    <3>1. PICK d \in Events : DispatchEvent(d)
      BY <2>1
    <3>2. [outbox[d] EXCEPT !.queued = TRUE] \in Row
      BY <1>0 DEF TypeOK, Row
    <3>3. outbox' \in [Events -> Row]
      BY <1>0, <3>1, <3>2 DEF TypeOK
    <3> QED
      BY <1>0, <3>1, <3>3 DEF TypeOK
  <2>2. CASE \E s \in Subs : ToggleSubscription(s)
    BY <1>0, <2>2 DEF TypeOK
  <2> QED
    BY <2>1, <2>2
<1>2. ClaimsDated'
  <2>1. \A e \in Events : outbox'[e].claimAge = outbox[e].claimAge
    BY <1>0 DEF TypeOK, Row
  <2>2. relay' = relay /\ \A r \in Relays : relay[r].batch \subseteq Events
    BY <1>0 DEF TypeOK, Cycle
  <2> QED
    BY <1>0, <2>1, <2>2 DEF ClaimsDated
<1>3. OutcomesBacked'
  BY <1>0 DEF OutcomesBacked
<1>4. FreshClaimExclusive'
  BY <1>0 DEF FreshClaimExclusive, Holds
<1>5. DeliveredWasAccepted'
  BY <1>0 DEF DeliveredWasAccepted, TypeOK, Row
<1> QED
  BY <1>1, <1>2, <1>3, <1>4, <1>5 DEF IInv

(* Transaction 1: whoever already holds a claimable row has held it longer *)
(* than the TTL, because the row's own claimed_at is that old.             *)
LEMMA ClaimStep ==
  ASSUME IInv, NEW r \in Relays, Claim(r)
  PROVE  IInv'
<1> USE AgeBounds
<1>0. TypeOK /\ ClaimsDated /\ OutcomesBacked /\ FreshClaimExclusive /\ DeliveredWasAccepted
  BY DEF IInv
<1>a. \A e \in ClaimBatch : e \in Events /\ Claimable(e)
  BY DEF ClaimBatch
<1> DEFINE seen == [e \in Events |-> IF e \in ClaimBatch THEN outbox[e].attempts ELSE 0]
           C == FreshCycle("busy", ClaimBatch, seen)
<1>b. relay' = [relay EXCEPT ![r] = C]
  BY DEF Claim
<1>c. \A e \in Events :
        outbox'[e] = IF e \in ClaimBatch THEN [outbox[e] EXCEPT !.claimAge = 0] ELSE outbox[e]
  BY DEF Claim
<1>d. /\ seen \in [Events -> 0..MaxAttempts]
      /\ \A e \in ClaimBatch : seen[e] < MaxAttempts
  <2>1. \A e \in Events : outbox[e].attempts \in 0..MaxAttempts
    BY <1>0 DEF TypeOK, Row
  <2> QED
    BY <2>1, <1>a DEF Claimable
<1> HIDE DEF seen
<1>e. /\ C \in Cycle
      /\ C.pc = "busy" /\ C.batch = ClaimBatch /\ C.seen = seen /\ C.age = 0
      /\ C.outcome = [e \in Events |-> "none"]
  <2>1. ClaimBatch \in SUBSET Events
    BY <1>a
  <2>2. C = [pc |-> "busy", batch |-> ClaimBatch, cur |-> 0, pending |-> {}, any |-> FALSE,
             seen |-> seen, outcome |-> [e \in Events |-> "none"], age |-> 0]
    BY DEF FreshCycle
  <2> HIDE DEF C
  <2>3. C \in Cycle
    BY <2>1, <2>2, <1>d DEF Cycle, Outcomes
  <2> QED
    BY <2>2, <2>3
<1> HIDE DEF C
<1>f. relay' \in [Relays -> Cycle] /\ relay'[r] = C
      /\ \A q \in Relays \ {r} : relay'[q] = relay[q]
  BY <1>0, <1>b, <1>e DEF TypeOK
<1>g. \A e \in Events : /\ outbox[e].claimAge \in 0..NoClaim
                        /\ e \in ClaimBatch => outbox'[e].claimAge = 0
                        /\ e \notin ClaimBatch => outbox'[e].claimAge = outbox[e].claimAge
                        /\ outbox'[e].delivered = outbox[e].delivered
  BY <1>0, <1>c DEF TypeOK, Row
<1>1. TypeOK'
  <2>1. outbox' \in [Events -> Row]
    BY <1>0 DEF Claim, TypeOK, Row
  <2> QED
    BY <1>0, <1>f, <2>1 DEF Claim, TypeOK
<1>2. ClaimsDated'
  <2> SUFFICES ASSUME NEW q \in Relays
               PROVE  /\ relay'[q].pc = "idle" => relay'[q].batch = {}
                      /\ \A e \in relay'[q].batch :
                           /\ relay'[q].age >= outbox'[e].claimAge
                           /\ relay'[q].seen[e] < MaxAttempts
    BY DEF ClaimsDated
  <2>1. CASE q = r
    <3>1. \A e \in ClaimBatch : outbox'[e].claimAge = 0 /\ seen[e] < MaxAttempts
      BY <1>a, <1>d, <1>g
    <3>2. /\ relay'[q].pc = "busy" /\ relay'[q].batch = ClaimBatch
          /\ relay'[q].seen = seen /\ relay'[q].age = 0
      BY <2>1, <1>e, <1>f
    <3> QED
      BY <3>1, <3>2
  <2>2. CASE q # r
    <3>1. relay[q].batch \subseteq Events /\ relay[q].age \in Nat
      BY <1>0 DEF TypeOK, Cycle
    <3>2. relay'[q] = relay[q]
      BY <2>2, <1>f
    <3>3. ASSUME NEW e \in relay[q].batch
          PROVE  relay[q].age >= outbox'[e].claimAge /\ relay[q].seen[e] < MaxAttempts
      <4>1. relay[q].age >= outbox[e].claimAge /\ relay[q].seen[e] < MaxAttempts
        BY <1>0 DEF ClaimsDated
      <4>2. outbox'[e].claimAge = 0 \/ outbox'[e].claimAge = outbox[e].claimAge
        BY <1>g, <3>1
      <4> QED
        BY <3>1, <4>1, <4>2
    <3>4. relay[q].pc = "idle" => relay[q].batch = {}
      BY <1>0 DEF ClaimsDated
    <3> QED
      BY <3>2, <3>3, <3>4
  <2> QED
    BY <2>1, <2>2
<1>3. OutcomesBacked'
  BY <1>0, <1>e, <1>f DEF OutcomesBacked, Claim
<1>4. FreshClaimExclusive'
  <2> SUFFICES ASSUME NEW p \in Relays, NEW q \in Relays, NEW e \in Events,
                      p # q, Holds(p, e)', Holds(q, e)'
               PROVE  relay'[p].age > ClaimTTL \/ relay'[q].age > ClaimTTL
    BY DEF FreshClaimExclusive
  <2>1. CASE p # r /\ q # r
    BY <2>1, <1>0, <1>f DEF FreshClaimExclusive, Holds
  <2>2. ASSUME NEW x \in Relays \ {r}, Holds(x, e)', Holds(r, e)'
        PROVE  relay'[x].age > ClaimTTL
    <3>1. relay[x].age >= outbox[e].claimAge /\ relay[x].age \in Nat
      BY <2>2, <1>0, <1>f DEF Holds, ClaimsDated, TypeOK, Cycle
    <3>2. outbox[e].claimAge > ClaimTTL
      BY <2>2, <1>a, <1>e, <1>f DEF Holds, Claimable
    <3>3. relay'[x] = relay[x]
      BY <1>f
    <3>4. outbox[e].claimAge \in Nat /\ ClaimTTL \in Nat
      BY <1>0, TimingAssumption DEF TypeOK, Row, NoClaim
    <3> QED
      BY <3>1, <3>2, <3>3, <3>4
  <2>3. CASE p = r \/ q = r
    BY <2>2, <2>3
  <2> QED
    BY <2>1, <2>3
<1>5. DeliveredWasAccepted'
  BY <1>0, <1>g DEF DeliveredWasAccepted, Claim
<1> QED
  BY <1>1, <1>2, <1>3, <1>4, <1>5 DEF IInv

(* The records of the HTTP phase: typed, and they keep batch, seen and age.*)
LEMMA HttpRecords ==
  ASSUME TypeOK, NEW r \in Relays, NEW e \in Events, NEW left \in SUBSET Subs,
         NEW any \in BOOLEAN, NEW o \in Outcomes
  PROVE  /\ WithOutcome(r, e, o) \in Cycle
         /\ Posting(r, e, left, any) \in Cycle
         /\ \A rec \in {WithOutcome(r, e, o), Posting(r, e, left, any)} :
              /\ rec.batch = relay[r].batch
              /\ rec.age = relay[r].age
              /\ rec.seen = relay[r].seen
              /\ rec.pc # "idle"
         /\ WithOutcome(r, e, o).pc = "busy"
         /\ WithOutcome(r, e, o).outcome = [relay[r].outcome EXCEPT ![e] = o]
         /\ Posting(r, e, left, any).outcome = relay[r].outcome
         /\ Posting(r, e, left, any).cur = e
         /\ Posting(r, e, left, any).any = any
<1>1. relay[r] \in Cycle
  BY DEF TypeOK
<1>2. [relay[r].outcome EXCEPT ![e] = o] \in [Events -> Outcomes]
  BY <1>1 DEF Cycle
<1>3. WithOutcome(r, e, o) \in Cycle
  BY <1>1, <1>2 DEF WithOutcome, Cycle
<1>4. Posting(r, e, left, any) \in Cycle
  BY <1>1 DEF Posting, Cycle
<1>5. /\ WithOutcome(r, e, o).batch = relay[r].batch
      /\ WithOutcome(r, e, o).age = relay[r].age
      /\ WithOutcome(r, e, o).seen = relay[r].seen
      /\ WithOutcome(r, e, o).pc = "busy"
      /\ WithOutcome(r, e, o).outcome = [relay[r].outcome EXCEPT ![e] = o]
  BY <1>1 DEF WithOutcome, Cycle
<1>6. /\ Posting(r, e, left, any).batch = relay[r].batch
      /\ Posting(r, e, left, any).age = relay[r].age
      /\ Posting(r, e, left, any).seen = relay[r].seen
      /\ Posting(r, e, left, any).pc = "posting"
      /\ Posting(r, e, left, any).outcome = relay[r].outcome
      /\ Posting(r, e, left, any).cur = e
      /\ Posting(r, e, left, any).any = any
  BY <1>1 DEF Posting, Cycle
<1> QED
  BY <1>3, <1>4, <1>5, <1>6

(* The HTTP phase changes no row and no claim, and backs what it reports.  *)
LEMMA HttpStep ==
  ASSUME IInv, NEW r \in Relays, NEW e \in Events, NEW left \in SUBSET Subs,
         NEW any \in BOOLEAN, NEW o \in Outcomes, e \in relay[r].batch,
         \/ relay' = [relay EXCEPT ![r] = WithOutcome(r, e, o)]
         \/ relay' = [relay EXCEPT ![r] = Posting(r, e, left, any)],
         relay[r].pc # "idle",
         accepted' \in [Events -> SUBSET Subs],
         excused' \in SUBSET Events,
         \A d \in Events : accepted[d] # {} => accepted'[d] # {},
         excused \subseteq excused',
         any \/ o = "delivered" => accepted'[e] # {} \/ e \in excused',
         UNCHANGED <<outbox, subscribed, crashes>>
  PROVE  IInv'
<1> USE AgeBounds
<1>0. TypeOK /\ ClaimsDated /\ OutcomesBacked /\ FreshClaimExclusive /\ DeliveredWasAccepted
  BY DEF IInv
<1> DEFINE W == WithOutcome(r, e, o)
           P == Posting(r, e, left, any)
<1>h. /\ W \in Cycle /\ P \in Cycle
      /\ \A rec \in {W, P} : /\ rec.batch = relay[r].batch
                              /\ rec.age = relay[r].age
                              /\ rec.seen = relay[r].seen
                              /\ rec.pc # "idle"
      /\ W.pc = "busy" /\ W.outcome = [relay[r].outcome EXCEPT ![e] = o]
      /\ P.outcome = relay[r].outcome /\ P.cur = e /\ P.any = any
  BY <1>0, HttpRecords
<1> HIDE DEF W, P
<1>r. relay' \in [Relays -> Cycle] /\ (relay'[r] = W \/ relay'[r] = P)
      /\ \A q \in Relays \ {r} : relay'[q] = relay[q]
  BY <1>0, <1>h DEF TypeOK, W, P
<1>b. \A q \in Relays : /\ relay'[q].batch = relay[q].batch
                        /\ relay'[q].age = relay[q].age
                        /\ relay'[q].seen = relay[q].seen
                        /\ relay'[q].pc = "idle" => relay[q].pc = "idle"
  BY <1>h, <1>r
<1>1. TypeOK'
  BY <1>0, <1>r DEF TypeOK
<1>2. ClaimsDated'
  BY <1>0, <1>b DEF ClaimsDated
<1>3. OutcomesBacked'
  <2> SUFFICES ASSUME NEW q \in Relays
               PROVE  /\ relay'[q].pc = "posting" => relay'[q].cur \in relay'[q].batch
                      /\ relay'[q].pc = "posting" /\ relay'[q].any
                           => accepted'[relay'[q].cur] # {} \/ relay'[q].cur \in excused'
                      /\ \A d \in Events : relay'[q].outcome[d] = "delivered"
                           => accepted'[d] # {} \/ d \in excused'
    BY DEF OutcomesBacked
  <2>1. CASE q # r
    <3>1. relay[q].pc = "posting" => relay[q].cur \in Events
      BY <1>0 DEF OutcomesBacked, TypeOK, Cycle
    <3> QED
      BY <2>1, <3>1, <1>0, <1>r DEF OutcomesBacked
  <2>2. CASE q = r
    <3>1. relay[r].outcome \in [Events -> Outcomes]
      BY <1>0 DEF TypeOK, Cycle
    <3>2. \A d \in Events : relay[r].outcome[d] = "delivered" => accepted[d] # {} \/ d \in excused
      BY <1>0 DEF OutcomesBacked
    <3>3. CASE relay'[r] = W
      BY <2>2, <3>1, <3>2, <3>3, <1>h
    <3>4. CASE relay'[r] = P
      BY <2>2, <3>1, <3>2, <3>4, <1>h
    <3> QED
      BY <3>3, <3>4, <1>r
  <2> QED
    BY <2>1, <2>2
<1>4. FreshClaimExclusive'
  BY <1>0, <1>b DEF FreshClaimExclusive, Holds
<1>5. DeliveredWasAccepted'
  BY <1>0 DEF DeliveredWasAccepted
<1> QED
  BY <1>1, <1>2, <1>3, <1>4, <1>5 DEF IInv

(* Starting a row of the batch.                                            *)
LEMMA StartRowStep ==
  ASSUME IInv, NEW r \in Relays, NEW e \in Events, StartRow(r, e)
  PROVE  IInv'
<1>1. subscribed \in SUBSET Subs /\ excused \in SUBSET Events
      /\ accepted \in [Events -> SUBSET Subs]
  BY DEF IInv, TypeOK
<1>2. e \in relay[r].batch /\ relay[r].pc # "idle"
  BY DEF StartRow, Undelivered
<1>3. CASE subscribed = {}
  <2>1. relay' = [relay EXCEPT ![r] = WithOutcome(r, e, "delivered")]
    BY <1>3 DEF StartRow
  <2> QED
    BY <1>1, <1>2, <1>3, <2>1, HttpStep DEF StartRow, Outcomes
<1>4. CASE subscribed # {}
  <2>1. relay' = [relay EXCEPT ![r] = Posting(r, e, subscribed, FALSE)]
    BY <1>4 DEF StartRow
  <2>2. "retry" \in Outcomes /\ FALSE \in BOOLEAN /\ "retry" # "delivered"
    BY DEF Outcomes
  <2> QED
    BY <1>1, <1>2, <1>4, <2>1, <2>2, HttpStep DEF StartRow
<1> QED
  BY <1>3, <1>4

(* One POST.                                                               *)
LEMMA PostStep ==
  ASSUME IInv, NEW r \in Relays, NEW s \in Subs, NEW answer \in Answers,
         Post(r, s, answer)
  PROVE  IInv'
<1> DEFINE e == relay[r].cur
           any == relay[r].any \/ answer # "failed"
           left == relay[r].pending \ {s}
           o == IF any THEN "delivered" ELSE "retry"
<1>0. TypeOK /\ OutcomesBacked
  BY DEF IInv
<1>1. /\ relay[r].pc # "idle" /\ e \in relay[r].batch /\ e \in Events
      /\ left \in SUBSET Subs /\ any \in BOOLEAN /\ o \in Outcomes
      /\ relay[r].any => accepted[e] # {} \/ e \in excused
  BY <1>0 DEF Post, OutcomesBacked, TypeOK, Cycle, Outcomes
<1>2. /\ accepted' \in [Events -> SUBSET Subs]
      /\ excused' \in SUBSET Events
      /\ \A d \in Events : accepted[d] # {} => accepted'[d] # {}
      /\ excused \subseteq excused'
      /\ answer # "failed" => accepted'[e] # {} \/ e \in excused'
  BY <1>0, <1>1 DEF Post, TypeOK, Answers
<1>3. any \/ o = "delivered" => accepted'[e] # {} \/ e \in excused'
  BY <1>1, <1>2
<1>4. \/ relay' = [relay EXCEPT ![r] = WithOutcome(r, e, o)]
      \/ relay' = [relay EXCEPT ![r] = Posting(r, e, left, any)]
  BY DEF Post
<1>5. UNCHANGED <<outbox, subscribed, crashes>>
  BY DEF Post
<1> HIDE DEF e, any, left, o
<1> QED
  BY <1>1, <1>2, <1>3, <1>4, <1>5, HttpStep

(* Transaction 2 writes only backed successes and lets the batch go.       *)
LEMMA PersistStep ==
  ASSUME IInv, NEW r \in Relays, Persist(r)
  PROVE  IInv'
<1> USE AgeBounds
<1>0. TypeOK /\ ClaimsDated /\ OutcomesBacked /\ FreshClaimExclusive /\ DeliveredWasAccepted
  BY DEF IInv
<1>a. Idle \in Cycle /\ Idle.pc = "idle" /\ Idle.batch = {}
      /\ \A e \in Events : Idle.outcome[e] = "none"
  BY DEF Idle, FreshCycle, Cycle, Outcomes
<1>b. relay' \in [Relays -> Cycle] /\ relay'[r] = Idle
      /\ \A q \in Relays \ {r} : relay'[q] = relay[q]
  BY <1>0, <1>a DEF Persist, TypeOK
<1>c. \A e \in relay[r].batch :
        /\ PersistedRow(r, e) \in Row
        /\ PersistedRow(r, e).claimAge = outbox[e].claimAge
        /\ PersistedRow(r, e).delivered <=> relay[r].outcome[e] = "delivered"
  <2> SUFFICES ASSUME NEW e \in relay[r].batch
               PROVE  /\ PersistedRow(r, e) \in Row
                      /\ PersistedRow(r, e).claimAge = outbox[e].claimAge
                      /\ PersistedRow(r, e).delivered <=> relay[r].outcome[e] = "delivered"
    OBVIOUS
  <2> DEFINE n == relay[r].seen[e] + 1
             w == IF relay[r].outcome[e] = "delivered" THEN 0 ELSE Remaining(n, relay[r].age)
  <2>1. e \in Events /\ outbox[e] \in Row /\ relay[r].age \in Nat
    BY <1>0 DEF TypeOK, Cycle
  <2>2. n \in 0..MaxAttempts
    BY <1>0, <2>1 DEF ClaimsDated, TypeOK, Cycle
  <2>3. Backoff(n) \in Nat
    BY <2>2
  <2>4. w \in Nat
    BY <2>1, <2>3 DEF Remaining
  <2>5. PersistedRow(r, e) = [outbox[e] EXCEPT !.attempts = n,
          !.delivered = (relay[r].outcome[e] = "delivered"), !.wait = w]
    BY DEF PersistedRow
  <2> HIDE DEF n, w
  <2> QED
    BY <2>1, <2>2, <2>4, <2>5 DEF Row
<1>d. \A e \in Events : outbox'[e] = IF e \in relay[r].batch THEN PersistedRow(r, e) ELSE outbox[e]
  BY DEF Persist
<1>1. TypeOK'
  <2>1. outbox' \in [Events -> Row]
    BY <1>0, <1>c DEF Persist, TypeOK
  <2> QED
    BY <1>0, <1>b, <2>1 DEF Persist, TypeOK
<1>2. ClaimsDated'
  <2>1. \A e \in Events : outbox'[e].claimAge = outbox[e].claimAge
    BY <1>c, <1>d
  <2>2. \A q \in Relays : relay[q].batch \subseteq Events
    BY <1>0 DEF TypeOK, Cycle
  <2> QED
    BY <1>0, <1>a, <1>b, <2>1, <2>2 DEF ClaimsDated
<1>3. OutcomesBacked'
  BY <1>0, <1>a, <1>b DEF OutcomesBacked, Persist
<1>4. FreshClaimExclusive'
  BY <1>0, <1>a, <1>b DEF FreshClaimExclusive, Holds
<1>5. DeliveredWasAccepted'
  BY <1>0, <1>c, <1>d DEF DeliveredWasAccepted, OutcomesBacked, Persist
<1> QED
  BY <1>1, <1>2, <1>3, <1>4, <1>5 DEF IInv

(* A lost cycle forgets its batch; the rows stay claimed until the TTL.    *)
LEMMA CycleLostStep ==
  ASSUME IInv, NEW r \in Relays, CycleLost(r)
  PROVE  IInv'
<1> USE AgeBounds
<1>0. TypeOK /\ ClaimsDated /\ OutcomesBacked /\ FreshClaimExclusive /\ DeliveredWasAccepted
  BY DEF IInv
<1>a. Idle \in Cycle /\ Idle.pc = "idle" /\ Idle.batch = {}
      /\ \A e \in Events : Idle.outcome[e] = "none"
  BY DEF Idle, FreshCycle, Cycle, Outcomes
<1>b. relay' \in [Relays -> Cycle] /\ relay'[r] = Idle
      /\ \A q \in Relays \ {r} : relay'[q] = relay[q]
  BY <1>0, <1>a DEF CycleLost, TypeOK
<1>1. TypeOK'
  BY <1>0, <1>b DEF CycleLost, TypeOK
<1>2. ClaimsDated' /\ OutcomesBacked'
  BY <1>0, <1>a, <1>b DEF ClaimsDated, OutcomesBacked, CycleLost
<1>3. FreshClaimExclusive' /\ DeliveredWasAccepted'
  BY <1>0, <1>a, <1>b DEF FreshClaimExclusive, DeliveredWasAccepted, Holds, CycleLost
<1> QED
  BY <1>1, <1>2, <1>3 DEF IInv

(* Time passes for a claim and for its holder alike.                       *)
LEMMA TickStep ==
  ASSUME IInv, Tick
  PROVE  IInv'
<1> USE AgeBounds
<1>0. TypeOK /\ ClaimsDated /\ OutcomesBacked /\ FreshClaimExclusive /\ DeliveredWasAccepted
  BY DEF IInv
<1>a. \A e \in Events :
        /\ outbox'[e] \in Row
        /\ outbox'[e].claimAge = IF outbox[e].claimAge < NoClaim
                                 THEN outbox[e].claimAge + 1 ELSE NoClaim
        /\ outbox'[e].delivered = outbox[e].delivered
  <2> SUFFICES ASSUME NEW e \in Events
               PROVE  /\ outbox'[e] \in Row
                      /\ outbox'[e].claimAge = IF outbox[e].claimAge < NoClaim
                                               THEN outbox[e].claimAge + 1 ELSE NoClaim
                      /\ outbox'[e].delivered = outbox[e].delivered
    OBVIOUS
  <2> DEFINE w == IF outbox[e].wait > 0 THEN outbox[e].wait - 1 ELSE 0
             a == IF outbox[e].claimAge < NoClaim THEN outbox[e].claimAge + 1 ELSE NoClaim
  <2>1. outbox[e] \in Row /\ outbox'[e] = [outbox[e] EXCEPT !.wait = w, !.claimAge = a]
    BY <1>0 DEF Tick, TypeOK
  <2>2. w \in Nat /\ a \in 0..NoClaim
    BY <2>1 DEF Row
  <2> HIDE DEF w, a
  <2>3. outbox'[e] \in Row /\ outbox'[e].claimAge = a /\ outbox'[e].delivered = outbox[e].delivered
    BY <2>1, <2>2 DEF Row
  <2> QED
    BY <2>3 DEF a
<1>b. \A r \in Relays :
        /\ relay'[r] \in Cycle
        /\ relay'[r].age = IF relay[r].pc # "idle" /\ relay[r].age < AgeCap
                           THEN relay[r].age + 1 ELSE relay[r].age
        /\ relay'[r].pc = relay[r].pc /\ relay'[r].batch = relay[r].batch
        /\ relay'[r].seen = relay[r].seen /\ relay'[r].outcome = relay[r].outcome
        /\ relay'[r].cur = relay[r].cur /\ relay'[r].any = relay[r].any
  <2> SUFFICES ASSUME NEW r \in Relays
               PROVE  /\ relay'[r] \in Cycle
                      /\ relay'[r].age = IF relay[r].pc # "idle" /\ relay[r].age < AgeCap
                                         THEN relay[r].age + 1 ELSE relay[r].age
                      /\ relay'[r].pc = relay[r].pc /\ relay'[r].batch = relay[r].batch
                      /\ relay'[r].seen = relay[r].seen /\ relay'[r].outcome = relay[r].outcome
                      /\ relay'[r].cur = relay[r].cur /\ relay'[r].any = relay[r].any
    OBVIOUS
  <2> DEFINE a == IF relay[r].pc # "idle" /\ relay[r].age < AgeCap
                  THEN relay[r].age + 1 ELSE relay[r].age
  <2>1. relay[r] \in Cycle /\ relay'[r] = [relay[r] EXCEPT !.age = a]
    BY <1>0 DEF Tick, TypeOK
  <2>2. a \in 0..AgeCap
    BY <2>1 DEF Cycle
  <2> HIDE DEF a
  <2>3. relay'[r].age = a
    BY <2>1 DEF Cycle
  <2> QED
    BY <2>1, <2>2, <2>3 DEF Cycle, a
<1>c. \A r \in Relays : relay[r].age \in 0..AgeCap /\ relay[r].batch \subseteq Events
  BY <1>0 DEF TypeOK, Cycle
<1>d. \A e \in Events : outbox[e].claimAge \in 0..NoClaim
  BY <1>0 DEF TypeOK, Row
<1>1. TypeOK'
  BY <1>0, <1>a, <1>b DEF Tick, TypeOK
<1>2. ClaimsDated'
  <2> SUFFICES ASSUME NEW r \in Relays, NEW e \in relay[r].batch
               PROVE  relay'[r].age >= outbox'[e].claimAge
    BY <1>0, <1>b DEF ClaimsDated
  <2>1. relay[r].age >= outbox[e].claimAge /\ relay[r].pc # "idle"
    BY <1>0 DEF ClaimsDated
  <2>2. e \in Events
    BY <1>c
  <2>3. outbox'[e].claimAge = IF outbox[e].claimAge < NoClaim
                              THEN outbox[e].claimAge + 1 ELSE NoClaim
    BY <1>a, <2>2
  <2>4. relay'[r].age = IF relay[r].age < AgeCap THEN relay[r].age + 1 ELSE relay[r].age
    BY <1>b, <2>1
  <2> QED
    BY <2>1, <2>2, <2>3, <2>4, <1>c, <1>d
<1>3. OutcomesBacked'
  <2>1. accepted' = accepted /\ excused' = excused
    BY DEF Tick
  <2> SUFFICES ASSUME NEW r \in Relays
               PROVE  /\ relay'[r].pc = "posting" => relay'[r].cur \in relay'[r].batch
                      /\ relay'[r].pc = "posting" /\ relay'[r].any
                           => accepted[relay'[r].cur] # {} \/ relay'[r].cur \in excused
                      /\ \A d \in Events : relay'[r].outcome[d] = "delivered"
                           => accepted[d] # {} \/ d \in excused
    BY <2>1 DEF OutcomesBacked
  <2> QED
    BY <1>0, <1>b DEF OutcomesBacked
<1>4. FreshClaimExclusive'
  BY <1>0, <1>b, <1>c DEF FreshClaimExclusive, Holds
<1>5. DeliveredWasAccepted'
  BY <1>0, <1>a DEF DeliveredWasAccepted, Tick
<1> QED
  BY <1>1, <1>2, <1>3, <1>4, <1>5 DEF IInv

(* IInv is inductive.                                                      *)
LEMMA StepIInv == IInv /\ [Next]_vars => IInv'
<1> SUFFICES ASSUME IInv, [Next]_vars PROVE IInv'
  OBVIOUS
<1>1. CASE UNCHANGED vars
  BY <1>1 DEF vars, IInv, TypeOK, ClaimsDated, OutcomesBacked, FreshClaimExclusive,
              DeliveredWasAccepted, Holds
<1>2. CASE Next
  BY <1>2, EnvironmentStep, ClaimStep, StartRowStep, PostStep, PersistStep,
     CycleLostStep, TickStep DEF Next
<1> QED
  BY <1>1, <1>2

(* Every reachable state satisfies the inductive invariant: outbox rows    *)
(* and relay cycles keep their types whatever is claimed, lost or retried. *)
THEOREM RelayInvariant == Spec => []IInv
  BY InitIInv, StepIInv, PTL DEF Spec

(* A claim younger than _CLAIM_TTL is exclusive, for any number of relay   *)
(* replicas, any batch size and any timing.                                *)
THEOREM ExclusiveClaims == Spec => []FreshClaimExclusive
<1>1. IInv => FreshClaimExclusive
  BY DEF IInv
<1> QED
  BY <1>1, RelayInvariant, PTL

(* No row is ever marked delivered without an accepting subscriber or a    *)
(* reason not to send it.                                                  *)
THEOREM DeliveredSound == Spec => []DeliveredWasAccepted
<1>1. IInv => DeliveredWasAccepted
  BY DEF IInv
<1> QED
  BY <1>1, RelayInvariant, PTL

-----------------------------------------------------------------------------
(* The refinement.  A POST that is accepted or blocked is the abstract     *)
(* Reach, transaction 2 the abstract Confirm; the rest are stutters.       *)

(* Which rows are queued changes with DispatchEvent only, and which rows a *)
(* relay holds with its claim and the end of its cycle only.               *)
LEMMA StepBatchQueued == IInv /\ BatchQueued /\ [Next]_vars => BatchQueued'
<1> SUFFICES ASSUME IInv, BatchQueued, Next
             PROVE  BatchQueued'
  BY DEF BatchQueued, vars
<1>t. /\ outbox \in [Events -> Row] /\ relay \in [Relays -> Cycle]
      /\ \A r \in Relays : relay[r].batch \subseteq Events
  BY DEF IInv, TypeOK, Cycle
<1>q. \A e \in Events : outbox[e].queued => outbox'[e].queued
  <2>1. ASSUME NEW e \in Events, DispatchEvent(e)
        PROVE  \A d \in Events : outbox[d].queued => outbox'[d].queued
    BY <2>1, <1>t DEF DispatchEvent, Row
  <2>2. ASSUME NEW r \in Relays, Claim(r)
        PROVE  \A d \in Events : outbox[d].queued => outbox'[d].queued
    BY <2>2, <1>t DEF Claim, Row
  <2>3. ASSUME NEW r \in Relays, Persist(r)
        PROVE  \A d \in Events : outbox[d].queued => outbox'[d].queued
    BY <2>3, <1>t DEF Persist, PersistedRow, Row
  <2>4. ASSUME Tick
        PROVE  \A d \in Events : outbox[d].queued => outbox'[d].queued
    BY <2>4, <1>t DEF Tick, Row
  <2>5. ASSUME outbox' = outbox
        PROVE  \A d \in Events : outbox[d].queued => outbox'[d].queued
    BY <2>5
  <2> QED
    BY <2>1, <2>2, <2>3, <2>4, <2>5
       DEF Next, ToggleSubscription, StartRow, Post, CycleLost
<1>b. \A q \in Relays : \/ relay'[q].batch \subseteq relay[q].batch
                        \/ relay'[q].batch \subseteq ClaimBatch
  <2>1. ASSUME NEW r \in Relays, Claim(r), NEW q \in Relays
        PROVE  relay'[q].batch \subseteq relay[q].batch \/ relay'[q].batch \subseteq ClaimBatch
    BY <2>1, <1>t DEF Claim, FreshCycle
  <2>2. ASSUME NEW r \in Relays, Persist(r) \/ CycleLost(r), NEW q \in Relays
        PROVE  relay'[q].batch \subseteq relay[q].batch
    <3>1. relay' = [relay EXCEPT ![r] = Idle] /\ Idle.batch = {}
      BY <2>2 DEF Persist, CycleLost, Idle, FreshCycle
    <3> QED
      BY <3>1, <1>t
  <2>3. ASSUME NEW r \in Relays, NEW e \in Events, StartRow(r, e), NEW q \in Relays
        PROVE  relay'[q].batch \subseteq relay[q].batch
    BY <2>3, <1>t DEF StartRow, WithOutcome, Posting, Cycle
  <2>4. ASSUME NEW r \in Relays, NEW s \in Subs, NEW answer \in Answers,
               Post(r, s, answer), NEW q \in Relays
        PROVE  relay'[q].batch \subseteq relay[q].batch
    BY <2>4, <1>t DEF Post, WithOutcome, Posting, Cycle
  <2>5. ASSUME Tick, NEW q \in Relays
        PROVE  relay'[q].batch \subseteq relay[q].batch
    BY <2>5, <1>t DEF Tick, Cycle
  <2> QED
    BY <2>1, <2>2, <2>3, <2>4, <2>5 DEF Next, DispatchEvent, ToggleSubscription
<1>c. \A e \in ClaimBatch : e \in Events /\ outbox[e].queued
  BY DEF ClaimBatch, Claimable
<1> QED
  BY <1>t, <1>q, <1>b, <1>c DEF BatchQueued

Reached(e) == accepted[e] # {} \/ e \in excused
Abstract == <<{e \in Events : outbox[e].queued}, {e \in Events : Reached(e)},
              {e \in Events : outbox[e].delivered}>>

(* A step that leaves queued and delivered alone, and reaches e at most.   *)
LEMMA HttpImplements ==
  ASSUME IInv, BatchQueued, NEW r \in Relays, NEW e \in relay[r].batch,
         outbox' = outbox, \A d \in Events : Reached(d)' <=> Reached(d) \/ d = e
  PROVE  Queue!Reach(e) /\ e \in Events
<1>1. e \in Events /\ outbox[e].queued
  BY DEF BatchQueued, IInv, TypeOK, Cycle
<1> QED
  BY <1>1 DEF Queue!Reach, Reached

LEMMA StepImplements ==
  IInv /\ BatchQueued /\ [Next]_vars => [Queue!Next]_Queue!vars
<1> SUFFICES ASSUME IInv, BatchQueued, Next
             PROVE  Queue!Next \/ UNCHANGED Abstract
  <2>1. UNCHANGED vars => UNCHANGED Abstract
    BY DEF vars, Abstract, Reached
  <2> QED
    BY <2>1 DEF Queue!vars, Abstract, Reached
<1>t. /\ outbox \in [Events -> Row] /\ relay \in [Relays -> Cycle]
      /\ accepted \in [Events -> SUBSET Subs] /\ IInv'
  BY StepIInv DEF IInv, TypeOK
<1>r. \A e \in Events : Queue!Emit(e) \/ Queue!Reach(e) => Queue!Next
  BY DEF Queue!Next
<1>1. ASSUME NEW e \in Events, DispatchEvent(e)
      PROVE  Queue!Next
  <2>1. \A d \in Events : /\ outbox'[d].queued = (outbox[d].queued \/ d = e)
                          /\ outbox'[d].delivered = outbox[d].delivered
    BY <1>1, <1>t DEF DispatchEvent, Row
  <2>2. accepted' = accepted /\ excused' = excused /\ ~outbox[e].queued
    BY <1>1 DEF DispatchEvent
  <2>3. Queue!Emit(e)
    BY <2>1, <2>2 DEF Queue!Emit
  <2> QED
    BY <2>3, <1>r
<1>2. ASSUME NEW r \in Relays, NEW e \in Events, StartRow(r, e)
      PROVE  Queue!Next \/ UNCHANGED Abstract
  <2>1. outbox' = outbox /\ accepted' = accepted /\ e \in relay[r].batch
    BY <1>2 DEF StartRow, Undelivered
  <2>2. CASE subscribed = {}
    <3>1. \A d \in Events : Reached(d)' <=> Reached(d) \/ d = e
      BY <1>2, <2>1, <2>2 DEF StartRow, Reached
    <3> QED
      BY <2>1, <3>1, <1>r, HttpImplements
  <2>3. CASE subscribed # {}
    BY <1>2, <2>1, <2>3 DEF StartRow, Abstract, Reached
  <2> QED
    BY <2>2, <2>3
<1>3. ASSUME NEW r \in Relays, NEW s \in Subs, NEW answer \in Answers, Post(r, s, answer)
      PROVE  Queue!Next \/ UNCHANGED Abstract
  <2> DEFINE e == relay[r].cur
  <2>1. outbox' = outbox /\ e \in relay[r].batch /\ e \in Events
    BY <1>3, <1>t DEF Post, IInv, OutcomesBacked, TypeOK, Cycle
  <2>2. CASE answer = "failed"
    BY <1>3, <2>1, <2>2 DEF Post, Abstract, Reached
  <2>3. CASE answer # "failed"
    <3>1. \A d \in Events : Reached(d)' <=> Reached(d) \/ d = e
      <4>1. CASE answer = "accepted"
        BY <1>3, <1>t, <2>1, <4>1 DEF Post, Reached
      <4>2. CASE answer = "blocked"
        BY <1>3, <1>t, <2>1, <4>2 DEF Post, Reached
      <4> QED
        BY <2>3, <4>1, <4>2 DEF Answers
    <3> HIDE DEF e
    <3> QED
      BY <2>1, <3>1, <1>r, HttpImplements
  <2> QED
    BY <2>2, <2>3
<1>4. ASSUME NEW r \in Relays, Persist(r)
      PROVE  Queue!Next
  <2> DEFINE M == {e \in Events : outbox'[e].delivered}
  <2>1. accepted' = accepted /\ excused' = excused
    BY <1>4 DEF Persist
  <2>2. \A d \in Events : outbox'[d].queued = outbox[d].queued
    BY <1>4, <1>t DEF Persist, PersistedRow, Row
  <2>3. M \in SUBSET Events /\ M \subseteq {e \in Events : Reached(e)}
    BY <1>t, <2>1 DEF IInv, DeliveredWasAccepted, Reached
  <2>4. /\ {e \in Events : outbox[e].delivered}' = M
        /\ {e \in Events : outbox[e].queued}' = {e \in Events : outbox[e].queued}
        /\ {e \in Events : Reached(e)}' = {e \in Events : Reached(e)}
    BY <2>1, <2>2 DEF Reached
  <2> HIDE DEF M
  <2>5. \E marked \in SUBSET Events : Queue!Confirm(marked)
    BY <2>3, <2>4 DEF Queue!Confirm, Reached
  <2> QED
    BY <2>5 DEF Queue!Next
<1>5. ASSUME NEW r \in Relays, Claim(r)
      PROVE  UNCHANGED Abstract
  <2>1. /\ accepted' = accepted /\ excused' = excused
        /\ \A d \in Events : /\ outbox'[d].queued = outbox[d].queued
                              /\ outbox'[d].delivered = outbox[d].delivered
    BY <1>5, <1>t DEF Claim, Row
  <2> QED
    BY <2>1 DEF Abstract, Reached
<1>6. CASE Tick
  <2>1. /\ accepted' = accepted /\ excused' = excused
        /\ \A d \in Events : /\ outbox'[d].queued = outbox[d].queued
                              /\ outbox'[d].delivered = outbox[d].delivered
    BY <1>6, <1>t DEF Tick, Row
  <2> QED
    BY <2>1 DEF Abstract, Reached
<1>7. ASSUME \/ \E r \in Relays : CycleLost(r)
             \/ \E s \in Subs : ToggleSubscription(s)
      PROVE  UNCHANGED Abstract
  BY <1>7 DEF CycleLost, ToggleSubscription, Abstract, Reached
<1> QED
  BY <1>1, <1>2, <1>3, <1>4, <1>5, <1>6, <1>7 DEF Next

(* Webhook delivery is at-least-once delivery for any number of relays,    *)
(* crashes and attempts, in the form where confirmations may be lost.      *)
THEOREM RelayRefinesQueue == Spec => AtLeastOnce
<1>1. Init => Queue!Init /\ BatchQueued
  BY DEF Init, Queue!Init, BatchQueued, Idle, FreshCycle
<1> QED
  BY <1>1, InitIInv, StepIInv, StepBatchQueued, StepImplements, PTL
     DEF Spec, Queue!Spec, AtLeastOnce

-----------------------------------------------------------------------------
(* Cycles that end within the claim TTL.  A cycle that outlives its claim  *)
(* can be overtaken, and transaction 2 then writes its old outcome over a  *)
(* newer one: DeliveredIsFinal fails, and an attempt is lost.  These are   *)
(* the only ways it fails.                                                 *)

(* No relay has worked on a batch for longer than _CLAIM_TTL.              *)
Timely == \A r \in Relays : relay[r].age <= ClaimTTL

(* What a relay read when it claimed a row is still what the row says.     *)
ClaimsCurrent ==
  \A r \in Relays : \A e \in relay[r].batch :
    ~outbox[e].delivered /\ relay[r].seen[e] = outbox[e].attempts

(* A row that is settled stays so, and no recorded attempt is forgotten.   *)
StaysSettled(e) ==
  /\ outbox[e].delivered => outbox'[e].delivered
  /\ Settled(e) => Settled(e)'
  /\ outbox'[e].attempts >= outbox[e].attempts
SettledForGood == [][\A e \in Events : StaysSettled(e)]_vars

(* The relay's batch and what it read change with its claim only, until    *)
(* the cycle ends.                                                         *)
LEMMA BatchStep ==
  ASSUME IInv, Next, NEW q \in Relays
  PROVE  \/ Claim(q)
         \/ relay'[q].batch = {}
         \/ relay'[q].batch = relay[q].batch /\ relay'[q].seen = relay[q].seen
<1>t. relay \in [Relays -> Cycle]
  BY DEF IInv, TypeOK
<1>1. ASSUME NEW r \in Relays, Claim(r)
      PROVE  q # r => relay'[q] = relay[q]
  BY <1>1, <1>t DEF Claim
<1>2. ASSUME NEW r \in Relays, Persist(r) \/ CycleLost(r)
      PROVE  relay'[q].batch = {} \/ relay'[q] = relay[q]
  <2>1. relay' = [relay EXCEPT ![r] = Idle] /\ Idle.batch = {}
    BY <1>2 DEF Persist, CycleLost, Idle, FreshCycle
  <2> QED
    BY <2>1, <1>t
<1>3. ASSUME NEW r \in Relays, NEW e \in Events, StartRow(r, e)
      PROVE  relay'[q].batch = relay[q].batch /\ relay'[q].seen = relay[q].seen
  BY <1>3, <1>t DEF StartRow, WithOutcome, Posting, Cycle
<1>4. ASSUME NEW r \in Relays, NEW s \in Subs, NEW answer \in Answers, Post(r, s, answer)
      PROVE  relay'[q].batch = relay[q].batch /\ relay'[q].seen = relay[q].seen
  BY <1>4, <1>t DEF Post, WithOutcome, Posting, Cycle
<1>5. ASSUME Tick
      PROVE  relay'[q].batch = relay[q].batch /\ relay'[q].seen = relay[q].seen
  BY <1>5, <1>t DEF Tick, Cycle
<1> QED
  BY <1>1, <1>2, <1>3, <1>4, <1>5 DEF Next, DispatchEvent, ToggleSubscription

(* Transaction 2 of a relay that holds the row is the only writer of its   *)
(* delivered mark and of its attempt counter.                              *)
LEMMA OutcomeStep ==
  ASSUME IInv, Next, NEW e \in Events
  PROVE  \/ /\ outbox'[e].delivered = outbox[e].delivered
            /\ outbox'[e].attempts = outbox[e].attempts
         \/ \E r \in Relays : /\ Persist(r)
                              /\ e \in relay[r].batch
                              /\ outbox'[e].attempts = relay[r].seen[e] + 1
<1>t. outbox \in [Events -> Row]
  BY DEF IInv, TypeOK
<1> DEFINE Kept == /\ outbox'[e].delivered = outbox[e].delivered
                   /\ outbox'[e].attempts = outbox[e].attempts
<1>1. ASSUME NEW d \in Events, DispatchEvent(d) PROVE Kept
  BY <1>1, <1>t DEF DispatchEvent, Row
<1>2. ASSUME NEW r \in Relays, Claim(r) PROVE Kept
  BY <1>2, <1>t DEF Claim, Row
<1>3. ASSUME NEW r \in Relays, Persist(r), e \notin relay[r].batch PROVE Kept
  BY <1>3 DEF Persist
<1>4. ASSUME NEW r \in Relays, Persist(r), e \in relay[r].batch
      PROVE  outbox'[e].attempts = relay[r].seen[e] + 1
  BY <1>4, <1>t DEF Persist, PersistedRow, Row
<1>5. ASSUME Tick PROVE Kept
  BY <1>5, <1>t DEF Tick, Row
<1>6. ASSUME outbox' = outbox PROVE Kept
  BY <1>6
<1> HIDE DEF Kept
<1>7. Kept \/ \E r \in Relays : /\ Persist(r)
                              /\ e \in relay[r].batch
                              /\ outbox'[e].attempts = relay[r].seen[e] + 1
  BY <1>1, <1>2, <1>3, <1>4, <1>5, <1>6
     DEF Next, ToggleSubscription, StartRow, Post, CycleLost
<1> QED
  BY <1>7 DEF Kept

(* Claims within the TTL are exclusive, so nobody else writes a held row.  *)
LEMMA StepClaimsCurrent ==
  ASSUME IInv, Timely, ClaimsCurrent, [Next]_vars
  PROVE  ClaimsCurrent'
<1> SUFFICES ASSUME Next, NEW q \in Relays, NEW e \in relay'[q].batch
             PROVE  ~outbox'[e].delivered /\ relay'[q].seen[e] = outbox'[e].attempts
  BY DEF ClaimsCurrent, vars
<1>t. /\ outbox \in [Events -> Row] /\ relay \in [Relays -> Cycle]
      /\ \A r \in Relays : relay[r].age \in Nat
      /\ relay'[q].batch \subseteq Events
  BY StepIInv, AgeBounds DEF IInv, TypeOK, Cycle
<1>1. CASE Claim(q)
  <2>1. /\ e \in ClaimBatch /\ e \in Events
        /\ relay'[q].seen[e] = outbox[e].attempts
    BY <1>1, <1>t DEF Claim, FreshCycle
  <2>2. ~outbox[e].delivered
    BY <2>1 DEF ClaimBatch, Claimable
  <2>3. outbox'[e].delivered = outbox[e].delivered /\ outbox'[e].attempts = outbox[e].attempts
    BY <1>1, <2>1, <1>t DEF Claim, Row
  <2> QED
    BY <2>1, <2>2, <2>3
<1>2. CASE e \in relay[q].batch /\ relay'[q].batch # {} /\ relay'[q].seen = relay[q].seen
  <2>1. ~outbox[e].delivered /\ relay[q].seen[e] = outbox[e].attempts
    BY <1>2 DEF ClaimsCurrent
  <2>2. ASSUME NEW r \in Relays, Persist(r), e \in relay[r].batch
        PROVE  FALSE
    <3>1. r # q
      BY <2>2, <1>2, <1>t DEF Persist, Idle, FreshCycle
    <3>2. relay[q].age > ClaimTTL \/ relay[r].age > ClaimTTL
      BY <3>1, <2>2, <1>2, <1>t DEF IInv, FreshClaimExclusive, Holds
    <3>3. relay[q].age <= ClaimTTL /\ relay[r].age <= ClaimTTL
      BY DEF Timely
    <3> QED
      BY <3>2, <3>3, <1>t, AgeBounds
  <2> QED
    BY <2>1, <2>2, <1>2, <1>t, OutcomeStep
<1> QED
  BY <1>1, <1>2, BatchStep

(* What a step does to a settled row when the claims are current.          *)
LEMMA SettledStep ==
  ASSUME IInv, ClaimsCurrent, [Next]_vars, NEW e \in Events
  PROVE  StaysSettled(e)
<1> USE DEF StaysSettled
<1>t. outbox[e].attempts \in 0..MaxAttempts
  BY DEF IInv, TypeOK, Row
<1>1. CASE UNCHANGED vars
  BY <1>1, <1>t DEF vars, Settled
<1>2. CASE Next
  <2>1. CASE /\ outbox'[e].delivered = outbox[e].delivered
             /\ outbox'[e].attempts = outbox[e].attempts
    BY <2>1, <1>t DEF Settled
  <2>2. ASSUME NEW r \in Relays, e \in relay[r].batch,
               outbox'[e].attempts = relay[r].seen[e] + 1
        PROVE  /\ ~Settled(e) /\ ~outbox[e].delivered
               /\ outbox'[e].attempts >= outbox[e].attempts
    BY <2>2, <1>t DEF ClaimsCurrent, IInv, ClaimsDated, Settled
  <2> QED
    BY <1>2, <2>1, <2>2, OutcomeStep
<1> QED
  BY <1>1, <1>2

(* As long as every cycle ends within _CLAIM_TTL, a delivered row stays    *)
(* delivered, a row given up stays given up and no attempt is forgotten,   *)
(* whatever cycles crash and however the relays interleave.                *)
THEOREM TimelySettlement == Spec /\ []Timely => SettledForGood /\ DeliveredIsFinal
<1>1. Init => ClaimsCurrent
  BY DEF Init, ClaimsCurrent, Idle, FreshCycle
<1>2. IInv /\ Timely /\ ClaimsCurrent /\ [Next]_vars => ClaimsCurrent'
  BY StepClaimsCurrent
<1>3. IInv /\ ClaimsCurrent /\ [Next]_vars
        => [\A e \in Events : StaysSettled(e)]_vars
  BY SettledStep
<1>4. IInv /\ ClaimsCurrent /\ [Next]_vars
        => [\A e \in Events : outbox[e].delivered => outbox'[e].delivered]_vars
  BY SettledStep DEF StaysSettled
<1> QED
  BY <1>1, <1>2, <1>3, <1>4, RelayInvariant, PTL
     DEF Spec, SettledForGood, DeliveredIsFinal

(* Rows, cycles and the histories keep their types.                        *)
THEOREM TypeCorrect == Spec => []TypeOK
<1>1. IInv => TypeOK
  BY DEF IInv
<1> QED
  BY <1>1, RelayInvariant, PTL
=============================================================================
