-------------------------------- MODULE EventBus --------------------------------
(***************************************************************************)
(* The durable event log: EventBusRelay drains the same outbox rows onto   *)
(* a Kafka topic, with its own cursor (published_at, publish_claimed_at).  *)
(*                                                                         *)
(* A cycle claims a batch, sends the rows one by one and then marks the    *)
(* ones that were acknowledged; a failed send is logged and skipped, and   *)
(* its row becomes claimable again after ClaimTTL.  topic_for splits the   *)
(* events of a case over topics by family, and on a topic the events of a  *)
(* case share a partition key: a member of Cases is a case on one topic,   *)
(* and log[c] its part of the partition, as a consumer of that topic reads *)
(* it.  Across topics there is no order to keep.  The broker is external:  *)
(* it appends what it accepts.                                             *)
(* Ages are relative to the present and stop at NoClaim, as in OutboxRelay.*)
(***************************************************************************)
EXTENDS Naturals, Sequences, FiniteSets

CONSTANTS
  Relays,      \* relay processes
  Events,      \* outbox rows, numbered in created_at order
  Cases,       \* a case on one topic
  CaseOf,      \* CaseOf[e]: the topic of e and the case_id in its payload
  ClaimTTL,    \* _CLAIM_TTL
  BatchSize,   \* _BATCH_SIZE
  MaxFaults    \* bound on lost cycles and lost acknowledgements

ASSUME BusAssumption ==
  /\ Events \subseteq Nat
  /\ CaseOf \in [Events -> Cases]
  /\ ClaimTTL \in Nat
  /\ BatchSize \in Nat \ {0}
  /\ MaxFaults \in Nat
ASSUME RelaysFinite == IsFiniteSet(Relays)

VARIABLES
  outbox,    \* outbox[e]: queued, published, age of publish_claimed_at
  log,       \* log[c]: the events of case c in broker order
  relay,     \* relay[r]: rows of the batch still to send, and those sent
  faults

vars == <<outbox, log, relay, faults>>

NoClaim == ClaimTTL + 1

TypeOK ==
  /\ outbox \in [Events -> [queued : BOOLEAN, published : BOOLEAN, claimAge : 0..NoClaim]]
  /\ log \in [Cases -> Seq(Events)]
  /\ relay \in [Relays -> [busy : BOOLEAN, todo : SUBSET Events, published : SUBSET Events]]
  /\ \A r \in Relays : relay[r].todo \cap relay[r].published = {}
  /\ faults \in 0..MaxFaults

Idle == [busy |-> FALSE, todo |-> {}, published |-> {}]

Init ==
  /\ outbox = [e \in Events |-> [queued |-> FALSE, published |-> FALSE, claimAge |-> NoClaim]]
  /\ log = [c \in Cases |-> <<>>]
  /\ relay = [r \in Relays |-> Idle]
  /\ faults = 0

OnLog(e) == \E i \in DOMAIN log[CaseOf[e]] : log[CaseOf[e]][i] = e
-----------------------------------------------------------------------------
DispatchEvent(e) ==
  /\ ~outbox[e].queued
  /\ outbox' = [outbox EXCEPT ![e].queued = TRUE]
  /\ UNCHANGED <<log, relay, faults>>

(* Mutant: the query forgets that a row is already published.              *)
ClaimableForever(e) == outbox[e].queued /\ outbox[e].claimAge > ClaimTTL

(* The WHERE clause of the drain query.                                    *)
Claimable(e) ==
  /\ outbox[e].queued
  /\ ~outbox[e].published
  /\ outbox[e].claimAge > ClaimTTL

ClaimBatch ==
  LET due == {e \in Events : Claimable(e)}
  IN  {e \in due : Cardinality({d \in due : d < e}) < BatchSize}

(* drain_once, first transaction.                                          *)
Claim(r) ==
  /\ ~relay[r].busy
  /\ ClaimBatch # {}
  /\ outbox' = [e \in Events |->
                  IF e \in ClaimBatch THEN [outbox[e] EXCEPT !.claimAge = 0] ELSE outbox[e]]
  /\ relay' = [relay EXCEPT ![r] = [busy |-> TRUE, todo |-> ClaimBatch, published |-> {}]]
  /\ UNCHANGED <<log, faults>>

NextToSend(r, e) == e \in relay[r].todo /\ \A d \in relay[r].todo : e <= d

(* Mutant: an acknowledged row is not taken off the batch.                 *)
SendOkKept(r, e) ==
  /\ relay[r].busy
  /\ NextToSend(r, e)
  /\ log' = [log EXCEPT ![CaseOf[e]] = Append(@, e)]
  /\ relay' = [relay EXCEPT ![r] = [relay[r] EXCEPT !.published = @ \cup {e}]]
  /\ UNCHANGED <<outbox, faults>>

(* send_and_wait acknowledged by the broker.                               *)
SendOk(r, e) ==
  /\ relay[r].busy
  /\ NextToSend(r, e)
  /\ log' = [log EXCEPT ![CaseOf[e]] = Append(@, e)]
  /\ relay' = [relay EXCEPT ![r] =
                 [relay[r] EXCEPT !.todo = @ \ {e}, !.published = @ \cup {e}]]
  /\ UNCHANGED <<outbox, faults>>

(* Mutant: a failed send is marked published with the others.              *)
SendFailedMarked(r, e) ==
  /\ relay[r].busy
  /\ NextToSend(r, e)
  /\ relay' = [relay EXCEPT ![r] =
                 [relay[r] EXCEPT !.todo = @ \ {e}, !.published = @ \cup {e}]]
  /\ UNCHANGED <<outbox, log, faults>>

(* The send raised: logged, and the loop goes on with the next row.        *)
SendFailed(r, e) ==
  /\ relay[r].busy
  /\ NextToSend(r, e)
  /\ relay' = [relay EXCEPT ![r] = [relay[r] EXCEPT !.todo = @ \ {e}]]
  /\ UNCHANGED <<outbox, log, faults>>

(* The broker appended the event but its acknowledgement was lost: to the  *)
(* relay this is a failed send.                                            *)
SendUnacked(r, e) ==
  /\ relay[r].busy
  /\ NextToSend(r, e)
  /\ faults < MaxFaults
  /\ faults' = faults + 1
  /\ log' = [log EXCEPT ![CaseOf[e]] = Append(@, e)]
  /\ relay' = [relay EXCEPT ![r] = [relay[r] EXCEPT !.todo = @ \ {e}]]
  /\ UNCHANGED outbox

(* Mutant: every row with a live claim is marked, not the acknowledged     *)
(* ones of this cycle.                                                     *)
MarkPublishedClaimed(r) ==
  /\ relay[r].busy
  /\ relay[r].todo = {}
  /\ outbox' = [e \in Events |->
                  IF outbox[e].claimAge <= ClaimTTL
                  THEN [outbox[e] EXCEPT !.published = TRUE] ELSE outbox[e]]
  /\ relay' = [relay EXCEPT ![r] = Idle]
  /\ UNCHANGED <<log, faults>>

(* drain_once, second transaction: published_at of the acknowledged rows.  *)
MarkPublished(r) ==
  /\ relay[r].busy
  /\ relay[r].todo = {}
  /\ outbox' = [e \in Events |->
                  IF e \in relay[r].published
                  THEN [outbox[e] EXCEPT !.published = TRUE] ELSE outbox[e]]
  /\ relay' = [relay EXCEPT ![r] = Idle]
  /\ UNCHANGED <<log, faults>>

(* The process dies, or _ensure_producer raises after the claim committed. *)
CycleLost(r) ==
  /\ relay[r].busy
  /\ faults < MaxFaults
  /\ faults' = faults + 1
  /\ relay' = [relay EXCEPT ![r] = Idle]
  /\ UNCHANGED <<outbox, log>>

Tick ==
  /\ \E e \in Events : outbox[e].claimAge < NoClaim
  /\ outbox' = [e \in Events |->
       [outbox[e] EXCEPT !.claimAge = IF @ < NoClaim THEN @ + 1 ELSE NoClaim]]
  /\ UNCHANGED <<log, relay, faults>>

Next ==
  \/ \E e \in Events : DispatchEvent(e)
  \/ \E r \in Relays : Claim(r) \/ MarkPublished(r) \/ CycleLost(r)
  \/ \E r \in Relays, e \in Events : SendOk(r, e) \/ SendFailed(r, e) \/ SendUnacked(r, e)
  \/ Tick

Spec == Init /\ [][Next]_vars

(* The relay loop keeps running and time passes.  The broker is up again   *)
(* and again: a send that is attempted infinitely often succeeds.          *)
Fairness ==
  /\ WF_vars(Tick)
  /\ \A r \in Relays :
       /\ WF_vars(Claim(r))
       /\ WF_vars(\E e \in Events : SendOk(r, e) \/ SendFailed(r, e))
       /\ WF_vars(MarkPublished(r))
       /\ \A e \in Events : SF_vars(SendOk(r, e))

FairSpec == Spec /\ Fairness
-----------------------------------------------------------------------------
(* Nothing is marked published that the broker did not acknowledge, in any *)
(* mix of failed sends, lost cycles and two relays draining one backlog:   *)
(* a marked row is never sent again, so it would be lost.                  *)
PublishedIsOnLog == \A e \in Events : outbox[e].published => OnLog(e)

(* The log of a case repeats an event only when a cycle or an              *)
(* acknowledgement was lost or a claim outlived its TTL: at most one copy  *)
(* per relay and per fault.  Consumers deduplicate by outbox_id; this      *)
(* bounds what they have to absorb.                                        *)
Copies(e) == Cardinality({i \in DOMAIN log[CaseOf[e]] : log[CaseOf[e]][i] = e})
DuplicatesBounded == \A e \in Events : Copies(e) <= Cardinality(Relays) + faults

(* The accounting behind that bound.  Until a row is marked published,     *)
(* each copy is owed to a relay that still has to mark it, or to a fault.  *)
(* Afterwards nobody claims it any more, and only the relays that still    *)
(* have it in their batch can add a copy.                                  *)
Marking(e) == {r \in Relays : e \in relay[r].published}
Sending(e) == {r \in Relays : e \in relay[r].todo}
CopiesAccounted ==
  \A e \in Events :
    IF outbox[e].published
    THEN Copies(e) + Cardinality(Sending(e)) <= Cardinality(Relays) + faults
    ELSE Copies(e) <= Cardinality(Marking(e)) + faults

(* What a relay holds was queued, and what it is about to mark is logged.  *)
BatchBacked ==
  \A r \in Relays :
    /\ \A e \in relay[r].todo : outbox[e].queued
    /\ \A e \in relay[r].published : OnLog(e)
    /\ ~relay[r].busy => relay[r] = Idle

(* The inductive invariant.                                                *)
IInv ==
  TypeOK /\ BatchBacked /\ PublishedIsOnLog /\ CopiesAccounted /\ DuplicatesBounded

(* The event bus implements at-least-once delivery, with confirmations     *)
(* that last: a row is drained until the broker has it, and a published_at *)
(* once written is never undone, although two relays drain one backlog.    *)
Queue == INSTANCE DeliveryQueue WITH
  Forgets   <- FALSE,
  queued    <- {e \in Events : outbox[e].queued},
  reached   <- {e \in Events : OnLog(e)},
  confirmed <- {e \in Events : outbox[e].published}
AtLeastOnce == Queue!Spec

(* Every outbox row reaches the log and is then marked published: the      *)
(* liveness of the abstract queue, so that no row is drained for ever.     *)
DrainedInTheEnd == Queue!Fairness

(* The documented ordering: the events of one case are on the log of a     *)
(* topic in the order they were created, repetitions aside.                *)
CaseOrderKept ==
  \A c \in Cases : \A i, j \in DOMAIN log[c] :
    i < j /\ (\A k \in 1..(i - 1) : log[c][k] # log[c][i])
          /\ (\A k \in 1..(j - 1) : log[c][k] # log[c][j])
      => log[c][i] < log[c][j]
=============================================================================
