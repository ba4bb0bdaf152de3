------------------------------ MODULE OpdAlarm ------------------------------
(***************************************************************************)
(* src/opd.c with -t: a session of Opd with the alarm as a second thread   *)
(* of control.  Every turn of the event loop arms the alarm; when it goes  *)
(* off, catch_alarm suspends whatever opd is doing, reads from the same    *)
(* pipes into the same line, closes the database, tells gdb to exit, and   *)
(* returns into what it suspended.                                         *)
(*                                                                         *)
(* A timeout is at least a second, and opd spends its seconds in the       *)
(* select of gdb_next_event: the alarm strikes there, with nothing to be   *)
(* read, in main or in a reading loop, and that select returns -1.  The    *)
(* model follows the first alarm of a session.                             *)
(***************************************************************************)
EXTENDS Opd

VARIABLES
  suspended,  \* what catch_alarm interrupted: <<>>, or one frame
  closed,     \* catch_alarm has closed the database
  struck      \* history: "no", or the reading loop the alarm struck ("none": main's)

alarmVars == <<opdVars, suspended, closed, struck>>

AlarmInit == OpdInit /\ suspended = <<>> /\ closed = FALSE /\ struck = "no"

----------------------------------------------------------------------------
(* Mutant: the interrupt is logged, but the stack is not asked for.        *)
opd_dispatchInterruptBlind ==
  <<Log("opd.timeout.gdb", "", "event"), Log("opd.timeout.stack", "", "answer")>>

opd_dispatchInterrupt ==
  <<Log("opd.timeout.gdb", "", "event"),
    Query("stack", ""), Log("opd.timeout.stack", "", "answer")>>

catch_alarm ==
  <<Do("gdb_interrupt")>> \o opd_dispatchInterrupt
    \o <<Do("db_close"), Do("gdb_exit"), Do("return")>>

InSelect ==
  /\ gdb_stderr = 0 /\ gdb_stdout = <<>> /\ app # "gone"
  /\ \/ wait = "none" /\ code = <<>> /\ exitflag = 0
     \/ wait \in {"response", "value", "prompt"}

AlarmStrikes ==
  /\ phase = "loop" /\ struck = "no" /\ InSelect
  /\ suspended' = <<[code |-> code, wait |-> wait, asked |-> asked]>>
  /\ code' = catch_alarm /\ wait' = "none"
  /\ struck' = wait
  /\ current' = <<>>
  /\ UNCHANGED <<breakpoints, step_function, child_pid, asked, line, event, pipes, gdb,
                 sent, events, blame, phase, exitflag, log, aborted, trace, journal, closed>>

Handling(command) == Evaluating /\ Head(code).do = command /\ code' = Tail(code)

Interrupt ==
  /\ Handling("gdb_interrupt") /\ gdb_interrupt
  /\ UNCHANGED <<phase, exitflag, log, aborted, history, suspended, closed, struck>>

Close ==
  /\ Handling("db_close") /\ closed' = TRUE
  /\ UNCHANGED <<vars, phase, exitflag, log, aborted, history, suspended, struck>>

Quit ==
  /\ Handling("gdb_exit") /\ gdb_exit
  /\ UNCHANGED <<phase, exitflag, log, aborted, history, suspended, closed, struck>>

(* The select that was interrupted returns -1, with line as the handler    *)
(* left it.  main takes it for an event without a case; gdb_getresponse    *)
(* looks at the line all the same; gdb_call's loops go on.                 *)
Resumed(frame) ==
  /\ asked' = frame.asked
  /\ code' = IF frame.wait = "none" THEN opd_dispatchOther ELSE frame.code
  /\ wait' = CASE frame.wait = "response" /\ EndsResponse(line) -> "none"
               [] frame.wait = "value" /\ HasValue(line)        -> "prompt"
               [] OTHER                                         -> frame.wait
  /\ breakpoints' = IF frame.wait = "response" /\ frame.asked.op = "watch" /\ line.kind = "done"
                      THEN Append(breakpoints, frame.asked.fn) ELSE breakpoints

Return ==
  /\ Evaluating /\ Head(code).do = "return"
  /\ Resumed(suspended[1]) /\ suspended' = <<>>
  /\ UNCHANGED <<step_function, child_pid, line, event, pipes, gdb, sent, events, blame,
                 phase, exitflag, log, aborted, history, closed, struck>>

----------------------------------------------------------------------------
(* What opd goes on with.  sqlite may notice that the database is closed,  *)
(* and does not have to: it looks at freed memory.                         *)

UsesClosed ==
  /\ closed
  /\ \/ Evaluating /\ Head(code).do = "log"
     \/ phase = "loop" /\ code = <<>> /\ wait = "none" /\ exitflag # 0

LogRefused ==
  /\ UsesClosed /\ code # <<>>
  /\ code' = Tail(code)
  /\ UNCHANGED <<vars, phase, exitflag, log, aborted, history, suspended, closed, struck>>

ClosedCrashes ==
  /\ UsesClosed
  /\ phase' = "crashed" /\ code' = <<>>
  /\ UNCHANGED <<vars, exitflag, log, aborted, history, suspended, closed, struck>>

(* A command for a gdb that is gone: SIGPIPE.                              *)
PipeBroken ==
  /\ \/ Evaluating /\ Head(code).do \notin {"log", "opd_setExit"}
     \/ phase = "loop" /\ code = <<>> /\ exitflag # 0
  /\ WriteBroken
  /\ UNCHANGED <<session, history, suspended, closed, struck>>

GoesOn ==
  /\ \/ EvalGdb \/ opd_setExit \/ Await \/ StartLoop \/ Dispatch \/ opd_exit
     \/ ~closed /\ db_logMessage
  /\ UNCHANGED <<suspended, closed, struck>>

HandlerStep == Interrupt \/ Close \/ Quit \/ Return
AlarmOpdStep == GoesOn \/ HandlerStep \/ LogRefused \/ ClosedCrashes \/ PipeBroken

AlarmNext ==
  \/ AlarmOpdStep \/ AlarmStrikes
  \/ (GdbStep \/ AppStep) /\ UNCHANGED <<suspended, closed, struck>>

(* The application may run for ever; then the alarm goes off.              *)
AlarmSpec ==
  /\ AlarmInit /\ [][AlarmNext]_alarmVars
  /\ WF_alarmVars(AlarmOpdStep) /\ WF_alarmVars(AlarmStrikes)
  /\ WF_alarmVars(GdbStep /\ UNCHANGED <<suspended, closed, struck>>)

----------------------------------------------------------------------------
Over == phase \in {"ended", "crashed"} \/ wait = "killed"

(* catch_alarm has stopped the application that main was waiting for.      *)
Interrupted ==
  /\ struck = "none" /\ suspended # <<>>
  /\ code = Tail(catch_alarm) /\ wait = "none" /\ line.kind = "SIGINT"

TimeoutReport ==
  LET n == Len(log)
  IN  /\ n >= 2
      /\ log[n - 1].key = "opd.timeout.gdb" /\ log[n - 1].line.kind = "SIGINT"
      /\ log[n].key = "opd.timeout.stack" /\ log[n].line.id = log[n].asked

(* A timeout that stops an application main was waiting for leaves, as its *)
(* last rows, the stop and the stack, and ends opd: the -1 that select     *)
(* returns to main after the handler closed everything leads out of the    *)
(* loop, by way of opd_dispatchOther.                                      *)
TimeoutIsReported == Interrupted ~> TimeoutReport /\ Over

(* The handler reads from the pipes a procedure is reading from: whatever  *)
(* it takes from them, no row of the procedure, and no row of a timeout    *)
(* that struck main, holds an answer to another command.  (The stack of a  *)
(* timeout that struck a reading loop may be the answer to that loop's     *)
(* command, which was still on its way.)                                   *)
OtherRowsAreAnswers ==
  \A i \in DOMAIN log :
    log[i].of = "answer" /\ (log[i].key = "opd.timeout.stack" => struck = "none")
      => log[i].line.id = log[i].asked

(* opd has a procedure for every event it is given, before and after the   *)
(* handler; what can crash it is only the use of the closed database.      *)
CrashesOnlyClosed == phase = "crashed" => closed

(* abort() ends the MPI job only after a crash or a timeout.               *)
AbortsOnTimeout ==
  aborted => struck # "no" \/ \E i \in DOMAIN trace : trace[i].kind = "SIGSEGV"
=============================================================================
