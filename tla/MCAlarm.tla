------------------------------- MODULE MCAlarm -------------------------------
(* opd -s deadlock.tcl -t: the agent that timeouts are for, with the       *)
(* constants of MCAgents for it.                                           *)
EXTENDS OpdAlarm, MCAgents
=============================================================================
