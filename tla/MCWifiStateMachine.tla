------------------------- MODULE MCWifiStateMachine -------------------------
(* WifiStateMachine has no sets to choose: the events and the states are   *)
(* those of the code, and QueueLen is the capacity in main.cpp.            *)
EXTENDS WifiStateMachine
=============================================================================
