------------------------------- MODULE OutboxRelay -------------------------------
(***************************************************************************)
(* Webhook delivery from the transactional outbox.                         *)
(*                                                                         *)
(* Every replica of the case service runs one OutboxRelay.  A cycle is     *)
(*   transaction 1: claim a batch of due rows, commit;                     *)
(*   HTTP: POST each row to each matching subscription, no lock held;      *)
(*   transaction 2: write the outcome of every row of the batch, commit.   *)
(*                                                                         *)
(* Abstractions.  An event is a number, its created_at order.  Timestamps  *)
(* are kept relative to the present: claimAge is now - claimed_at and wait *)
(* is next_attempt_at - now (0 once it has passed, or when it is NULL).    *)
(* Ages stop growing at the largest value any test compares them with, so  *)
(* time itself is unbounded.  A NULL claimed_at and one older than         *)
(* ClaimTTL answer the claim query alike and share the value NoClaim.      *)
(***************************************************************************)
EXTENDS Naturals, FiniteSets

CONSTANTS
  Relays,        \* relay processes, one per replica
  Events,        \* outbox rows, numbered in created_at order
  Subs,          \* webhook subscriptions
  ClaimTTL,      \* _CLAIM_TTL
  BackoffBase,   \* the 30 seconds of _backoff
  MaxAttempts,   \* _MAX_ATTEMPTS
  BatchSize,     \* _BATCH_SIZE
  MaxCrashes     \* bound on the number of crashed or failed cycles

(* _backoff: base, 2 base, 4 base, ... after attempts 1, 2, 3, ... *)
Backoff(n) == BackoffBase * (IF n = 0 THEN 1 ELSE 2^(n - 1))

ASSUME EventsAssumption == Events \subseteq Nat
ASSUME TimingAssumption ==
  /\ ClaimTTL \in Nat
  /\ MaxAttempts \in Nat \ {0}
  /\ BatchSize \in Nat \ {0}
  /\ MaxCrashes \in Nat
ASSUME BackoffAssumption == \A n \in 0..MaxAttempts : Backoff(n) \in Nat

VARIABLES
  outbox,      \* outbox[e]: the row of event e
  subscribed,  \* subscriptions with is_active
  relay,       \* relay[r]: the local state of relay r's current cycle
  accepted,    \* history: accepted[e], the subscriptions that answered < 400
  excused,     \* history: events with no matching or only a blocked target
  crashes      \* number of crashed cycles so far

vars == <<outbox, subscribed, relay, accepted, excused, crashes>>

NoClaim == ClaimTTL + 1
AgeCap  == IF Backoff(MaxAttempts) > NoClaim THEN Backoff(MaxAttempts) ELSE NoClaim

Row == [queued : BOOLEAN, delivered : BOOLEAN, attempts : 0..MaxAttempts,
        wait : Nat, claimAge : 0..NoClaim]

(* A relay between cycles holds no batch.  In a cycle, seen[e] is the      *)
(* attempt counter read when e was claimed and outcome[e] what _deliver_one*)
(* returned for it; cur and pending are the row and the subscriptions the  *)
(* HTTP loop is working on.                                                *)
Outcomes == {"none", "delivered", "retry"}

Cycle == [pc : {"idle", "busy", "posting"}, batch : SUBSET Events,
          cur : Events \cup {0}, pending : SUBSET Subs, any : BOOLEAN,
          seen : [Events -> 0..MaxAttempts], outcome : [Events -> Outcomes],
          age : 0..AgeCap]

FreshCycle(pc, batch, seen) ==
  [pc |-> pc, batch |-> batch, cur |-> 0, pending |-> {}, any |-> FALSE,
   seen |-> seen, outcome |-> [e \in Events |-> "none"], age |-> 0]

Idle == FreshCycle("idle", {}, [e \in Events |-> 0])

TypeOK ==
  /\ outbox \in [Events -> Row]
  /\ subscribed \in SUBSET Subs
  /\ relay \in [Relays -> Cycle]
  /\ accepted \in [Events -> SUBSET Subs]
  /\ excused \in SUBSET Events
  /\ crashes \in 0..MaxCrashes

Init ==
  /\ outbox = [e \in Events |-> [queued |-> FALSE, delivered |-> FALSE,
                                 attempts |-> 0, wait |-> 0, claimAge |-> NoClaim]]
  /\ subscribed \in SUBSET Subs
  /\ relay = [r \in Relays |-> Idle]
  /\ accepted = [e \in Events |-> {}]
  /\ excused = {}
  /\ crashes = 0
-----------------------------------------------------------------------------
(* dispatch_event: the row commits with the business change it reports.    *)
DispatchEvent(e) ==
  /\ ~outbox[e].queued
  /\ outbox' = [outbox EXCEPT ![e].queued = TRUE]
  /\ UNCHANGED <<subscribed, relay, accepted, excused, crashes>>

(* An administrator switches a subscription on or off.                     *)
ToggleSubscription(s) ==
  /\ subscribed' = IF s \in subscribed THEN subscribed \ {s} ELSE subscribed \cup {s}
  /\ UNCHANGED <<outbox, relay, accepted, excused, crashes>>

(* Mutant: the claimed_at test is missing from the query.                  *)
ClaimableIgnoringClaims(e) ==
  /\ outbox[e].queued
  /\ ~outbox[e].delivered
  /\ outbox[e].attempts < MaxAttempts
  /\ outbox[e].wait = 0

(* Mutant: attempts <= MaxAttempts, one attempt too many.                  *)
ClaimableOnceMore(e) ==
  /\ outbox[e].queued
  /\ ~outbox[e].delivered
  /\ outbox[e].attempts <= MaxAttempts
  /\ outbox[e].wait = 0
  /\ outbox[e].claimAge > ClaimTTL

(* The WHERE clause of the claim query.                                    *)
Claimable(e) ==
  /\ outbox[e].queued
  /\ ~outbox[e].delivered
  /\ outbox[e].attempts < MaxAttempts
  /\ outbox[e].wait = 0
  /\ outbox[e].claimAge > ClaimTTL

(* ORDER BY created_at LIMIT _BATCH_SIZE.                                  *)
ClaimBatch ==
  LET due == {e \in Events : Claimable(e)}
  IN  {e \in due : Cardinality({d \in due : d < e}) < BatchSize}

(* Transaction 1.  FOR UPDATE SKIP LOCKED makes concurrent claims serial.  *)
Claim(r) ==
  /\ relay[r].pc = "idle"
  /\ ClaimBatch # {}
  /\ outbox' = [e \in Events |->
                  IF e \in ClaimBatch THEN [outbox[e] EXCEPT !.claimAge = 0]
                  ELSE outbox[e]]
  /\ relay' = [relay EXCEPT ![r] =
                 FreshCycle("busy", ClaimBatch, [e \in Events |->
                   IF e \in ClaimBatch THEN outbox[e].attempts ELSE 0])]
  /\ UNCHANGED <<subscribed, accepted, excused, crashes>>

Undelivered(r) == {e \in relay[r].batch : relay[r].outcome[e] = "none"}

(* relay[r] once outcome o is known for row e, and once the HTTP loop over *)
(* the active subscriptions has started for e.                             *)
WithOutcome(r, e, o) ==
  [relay[r] EXCEPT !.outcome = [relay[r].outcome EXCEPT ![e] = o], !.pc = "busy",
                   !.cur = 0, !.pending = {}, !.any = FALSE]
Posting(r, e, left, any) ==
  [relay[r] EXCEPT !.pc = "posting", !.cur = e, !.pending = left, !.any = any]

(* _deliver_one, start: load the matching subscriptions of the next row of *)
(* the batch; with none, the row counts as delivered.                      *)
StartRow(r, e) ==
  /\ relay[r].pc = "busy"
  /\ e \in Undelivered(r)
  /\ \A d \in Undelivered(r) : e <= d
  /\ relay' = [relay EXCEPT ![r] = IF subscribed = {}
                                   THEN WithOutcome(r, e, "delivered")
                                   ELSE Posting(r, e, subscribed, FALSE)]
  /\ excused' = IF subscribed = {} THEN excused \cup {e} ELSE excused
  /\ UNCHANGED <<outbox, subscribed, accepted, crashes>>

(* One POST of the loop over subscriptions.  "accepted": status < 400;     *)
(* "blocked": validate_outbound_url raised ValueError, which counts as     *)
(* delivered; "failed": an error status, a timeout or a network error.     *)
(* After the last subscription the row's outcome is known.                 *)
Post(r, s, answer) ==
  LET e    == relay[r].cur
      any  == relay[r].any \/ answer # "failed"
      left == relay[r].pending \ {s}
  IN
  /\ relay[r].pc = "posting"
  /\ s \in relay[r].pending
  /\ relay' = [relay EXCEPT ![r] =
                 IF left # {} THEN Posting(r, e, left, any)
                 ELSE WithOutcome(r, e, IF any THEN "delivered" ELSE "retry")]
  /\ accepted' = IF answer = "accepted"
                 THEN [accepted EXCEPT ![e] = @ \cup {s}] ELSE accepted
  /\ excused' = IF answer = "blocked" THEN excused \cup {e} ELSE excused
  /\ UNCHANGED <<outbox, subscribed, crashes>>

(* next_attempt_at is measured from the `now` read when the batch was      *)
(* claimed, so the time the cycle has taken is already used up.            *)
Remaining(n, age) == IF Backoff(n) > age THEN Backoff(n) - age ELSE 0

(* Mutants: an attempt that is not counted, and a row that is marked       *)
(* delivered once every subscription has been tried.                       *)
PersistedRowUncounted(r, e) ==
  [outbox[e] EXCEPT !.delivered = relay[r].outcome[e] = "delivered"]
PersistedRowAlwaysDelivered(r, e) ==
  [outbox[e] EXCEPT !.attempts = relay[r].seen[e] + 1, !.delivered = TRUE]

(* Transaction 2: the outcome of every row of the batch, written over      *)
(* whatever the row holds by now.  claimed_at is left as it is.  The row   *)
(* is loaded and flushed in one step: a second transaction that overlaps   *)
(* with this one and leaves a mix of the two outcomes is left out.         *)
PersistedRow(r, e) ==
  LET n == relay[r].seen[e] + 1
      delivered == relay[r].outcome[e] = "delivered"
  IN  [outbox[e] EXCEPT
         !.attempts  = n,
         !.delivered = delivered,
         !.wait      = IF delivered THEN 0 ELSE Remaining(n, relay[r].age)]

Persist(r) ==
  /\ relay[r].pc = "busy"
  /\ Undelivered(r) = {}
  /\ outbox' = [e \in Events |->
                  IF e \in relay[r].batch THEN PersistedRow(r, e) ELSE outbox[e]]
  /\ relay' = [relay EXCEPT ![r] = Idle]
  /\ UNCHANGED <<subscribed, accepted, excused, crashes>>

(* The process dies, or the cycle raises (a database error while loading   *)
(* subscriptions): every outcome collected so far is lost.                 *)
CycleLost(r) ==
  /\ relay[r].pc # "idle"
  /\ crashes < MaxCrashes
  /\ crashes' = crashes + 1
  /\ relay' = [relay EXCEPT ![r] = Idle]
  /\ UNCHANGED <<outbox, subscribed, accepted, excused>>

(* Time passes: every age grows to its cap, every wait shrinks to 0.       *)
Tick ==
  /\ outbox' = [e \in Events |->
       [outbox[e] EXCEPT
          !.wait = IF @ > 0 THEN @ - 1 ELSE 0,
          !.claimAge = IF @ < NoClaim THEN @ + 1 ELSE NoClaim]]
  /\ relay' = [r \in Relays |->
       [relay[r] EXCEPT
          !.age = IF relay[r].pc # "idle" /\ @ < AgeCap THEN @ + 1 ELSE @]]
  /\ UNCHANGED <<subscribed, accepted, excused, crashes>>

Answers == {"accepted", "blocked", "failed"}

Next ==
  \/ \E e \in Events : DispatchEvent(e)
  \/ \E s \in Subs : ToggleSubscription(s)
  \/ \E r \in Relays : Claim(r)
  \/ \E r \in Relays, e \in Events : StartRow(r, e)
  \/ \E r \in Relays, s \in Subs, answer \in Answers : Post(r, s, answer)
  \/ \E r \in Relays : Persist(r)
  \/ \E r \in Relays : CycleLost(r)
  \/ Tick

Spec == Init /\ [][Next]_vars

(* A running relay keeps taking the next step of its cycle (every POST has *)
(* a timeout), polls again after _POLL_INTERVAL, and time passes.  Nobody  *)
(* is obliged to emit events, to change subscriptions or to crash.         *)
Fairness ==
  /\ WF_vars(Tick)
  /\ \A r \in Relays :
       /\ WF_vars(Claim(r))
       /\ WF_vars(\E e \in Events : StartRow(r, e))
       /\ WF_vars(\E s \in Subs, answer \in Answers : Post(r, s, answer))
       /\ WF_vars(Persist(r))

FairSpec == Spec /\ Fairness
-----------------------------------------------------------------------------
Holds(r, e) == e \in relay[r].batch

(* A claim that has not outlived _CLAIM_TTL is exclusive: while two relays *)
(* work on the same row, at least one of them claimed it longer than       *)
(* ClaimTTL ago.  (SKIP LOCKED and the claimed_at test of transaction 1.)  *)
FreshClaimExclusive ==
  \A q, r \in Relays : \A e \in Events :
    q # r /\ Holds(q, e) /\ Holds(r, e)
      => relay[q].age > ClaimTTL \/ relay[r].age > ClaimTTL

(* A row marked delivered really reached a subscriber that accepted it, or *)
(* there was nobody to send it to: no crash, retry or concurrent cycle     *)
(* marks an event delivered that every subscriber refused.                 *)
DeliveredWasAccepted ==
  \A e \in Events :
    outbox[e].delivered => accepted[e] # {} \/ e \in excused

(* The parts of the inductive invariant behind the two invariants above.   *)
(* A relay's claims are at least as old as the claimed_at of their rows    *)
(* (a later claim can only make the row look younger), an idle relay holds *)
(* nothing, and a claimed row had attempts left.                           *)
ClaimsDated ==
  \A r \in Relays :
    /\ relay[r].pc = "idle" => relay[r].batch = {}
    /\ \A e \in relay[r].batch :
         /\ relay[r].age >= outbox[e].claimAge
         /\ relay[r].seen[e] < MaxAttempts

(* A success a relay is about to write down is backed by an answer.        *)
OutcomesBacked ==
  \A r \in Relays :
    /\ relay[r].pc = "posting" => relay[r].cur \in relay[r].batch
    /\ relay[r].pc = "posting" /\ relay[r].any
         => accepted[relay[r].cur] # {} \/ relay[r].cur \in excused
    /\ \A e \in Events :
         relay[r].outcome[e] = "delivered" => accepted[e] # {} \/ e \in excused

(* A relay posts queued rows only: a claim reads what is committed.        *)
BatchQueued == \A r \in Relays : \A e \in relay[r].batch : outbox[e].queued

(* The inductive invariant.                                                *)
IInv ==
  TypeOK /\ ClaimsDated /\ OutcomesBacked /\ FreshClaimExclusive /\ DeliveredWasAccepted

(* The webhook relay implements at-least-once delivery, in the weak form   *)
(* where a confirmation may be lost again: rows are only ever added, a     *)
(* POST goes to queued rows only, and a cycle writes a confirmation for    *)
(* nothing but what has reached a subscriber (or had nobody to reach).     *)
Queue == INSTANCE DeliveryQueue WITH
  Forgets   <- TRUE,
  queued    <- {e \in Events : outbox[e].queued},
  reached   <- {e \in Events : accepted[e] # {} \/ e \in excused},
  confirmed <- {e \in Events : outbox[e].delivered}
AtLeastOnce == Queue!Spec

Settled(e) == outbox[e].delivered \/ outbox[e].attempts = MaxAttempts

(* Every event written to the outbox is eventually, and for good, either   *)
(* delivered or given up after MaxAttempts, whatever cycles are lost on    *)
(* the way: a crashed claim is taken over after ClaimTTL, and stale        *)
(* results written over newer ones only postpone the end.                  *)
EventuallySettled ==
  \A e \in Events : outbox[e].queued ~> []Settled(e)

(* The documented retry schedule: a failed row is tried again as soon as   *)
(* its back-off (next_attempt_at) has elapsed.                             *)
RetriedAfterBackoff ==
  \A e \in Events :
    ( /\ outbox[e].attempts \in 1..(MaxAttempts - 1)
      /\ ~outbox[e].delivered
      /\ outbox[e].wait = 0
      /\ \A r \in Relays : ~Holds(r, e) )
    => Claimable(e)

(* A row confirmed delivered leaves the outbox for good: no later write    *)
(* puts it back among the rows still to be delivered.                      *)
DeliveredIsFinal ==
  [][\A e \in Events : outbox[e].delivered => outbox'[e].delivered]_vars
=============================================================================
