--------------------------- MODULE MC_OfflineVariables ---------------------------
(* Two devices and two variables, one of which has no row at first.        *)
EXTENDS OfflineVariables

MC_Devices == 1..2
MC_Flights == 1..2
MC_KindOf  == <<"text", "num", "text", "big">>
=============================================================================
