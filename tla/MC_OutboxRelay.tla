----------------------------- MODULE MC_OutboxRelay -----------------------------
(* Two replicas, batches of one row.  The ratio of back-offs to the claim  *)
(* TTL is the code's: every back-off but the last is within the TTL.       *)
EXTENDS OutboxRelay

MC_Events2 == 1..2
=============================================================================
