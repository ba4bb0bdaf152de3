------------------------------ MODULE Session -------------------------------
(***************************************************************************)
(* What a debugging session promises the analysis of its log: the          *)
(* application stops only for the record.  Every stop is written down, in  *)
(* the order gdb reported them, before the application runs again; the     *)
(* session ends with nothing unwritten and only on a stop the application  *)
(* does not survive; and it never leaves the application standing.         *)
(***************************************************************************)
EXTENDS Integers, Sequences

CONSTANTS
  Stops,    \* what gdb can report
  Fatal     \* those of them that end a session

VARIABLES
  state,    \* the application: "ready", "running", "stopped"; or "over"
  trace,    \* the stops, as reported
  journal   \* the stops, as recorded

vars == <<state, trace, journal>>

Init == state = "ready" /\ trace = <<>> /\ journal = <<>>

Start ==
  /\ state = "ready" /\ state' = "running"
  /\ UNCHANGED <<trace, journal>>

Stop ==
  /\ state = "running" /\ state' = "stopped"
  /\ \E s \in Stops : trace' = Append(trace, s)
  /\ UNCHANGED journal

Record ==
  /\ Len(journal) < Len(trace)
  /\ journal' = Append(journal, trace[Len(journal) + 1])
  /\ UNCHANGED <<state, trace>>

Recorded == state = "stopped" /\ journal = trace

Survived == trace[Len(trace)] \notin Fatal

Resume ==
  /\ Recorded /\ Survived
  /\ state' = "running"
  /\ UNCHANGED <<trace, journal>>

End ==
  /\ Recorded /\ ~Survived
  /\ state' = "over"
  /\ UNCHANGED <<trace, journal>>

Next == Start \/ Stop \/ Record \/ Resume \/ End

(* The debugger does its part; how long the application runs is its own.   *)
Spec == Init /\ [][Next]_vars /\ WF_vars(Start \/ Record \/ Resume \/ End)
============================================================================
