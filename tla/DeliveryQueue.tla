----------------------------- MODULE DeliveryQueue -----------------------------
(***************************************************************************)
(* What the transactional outbox promises, whoever drains it: at-least-    *)
(* once delivery.  An event is queued by the transaction that causes it,   *)
(* reaches its receiver any number of times, and is confirmed (its row is  *)
(* marked and not drained again) only when it has reached the receiver.    *)
(*                                                                         *)
(* OutboxRelay and EventBus implement it.  Forgets tells them apart: the   *)
(* second transaction of the webhook relay may take a confirmation back.   *)
(***************************************************************************)
CONSTANTS
  Events,   \* outbox rows
  Forgets   \* TRUE when a confirmation may be lost again

VARIABLES queued, reached, confirmed

vars == <<queued, reached, confirmed>>

Init == queued = {} /\ reached = {} /\ confirmed = {}

Emit(e) ==
  /\ e \notin queued
  /\ queued' = queued \cup {e}
  /\ UNCHANGED <<reached, confirmed>>

Reach(e) ==
  /\ e \in queued
  /\ reached' = reached \cup {e}
  /\ UNCHANGED <<queued, confirmed>>

(* One write may confirm several events.                                   *)
Confirm(marked) ==
  /\ marked \subseteq reached
  /\ Forgets \/ confirmed \subseteq marked
  /\ confirmed' = marked
  /\ UNCHANGED <<queued, reached>>

Next ==
  \/ \E e \in Events : Emit(e) \/ Reach(e)
  \/ \E marked \in SUBSET Events : Confirm(marked)

Spec == Init /\ [][Next]_vars

(* What is queued reaches its receiver, and a confirmation follows.        *)
Fairness ==
  \A e \in Events : /\ WF_vars(Reach(e))
                    /\ WF_vars(\E marked \in SUBSET Events : e \in marked /\ Confirm(marked))

FairSpec == Spec /\ Fairness
=============================================================================
