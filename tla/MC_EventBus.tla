------------------------------ MODULE MC_EventBus ------------------------------
(* Two events of one case; the second case stays without events.           *)
EXTENDS EventBus

MC_Cases   == {"c1", "c2"}
MC_Pair    == 1..2
MC_OneCase == [e \in MC_Pair |-> "c1"]
=============================================================================
