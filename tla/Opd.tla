-------------------------------- MODULE Opd --------------------------------
(***************************************************************************)
(* src/opd.c: one opd process.  It starts gdb, sets up the session, starts *)
(* the application, and then reads one event at a time and evaluates the   *)
(* Tcl procedure bound to it, until a procedure or the end of the          *)
(* application tells it to exit.  Every call a procedure makes into        *)
(* gdbmi.c is a step of GdbMI; db_logMessage appends a row to the gdblog   *)
(* file of this rank.                                                      *)
(*                                                                         *)
(* No timeout is set here (opd -t), so no alarm interrupts the session.    *)
(***************************************************************************)
EXTENDS GdbMI, OpdTcl

CONSTANTS
  Proc,          \* the script: the commands of every function in Functions
  Setup,         \* what user_setup and opd_processscript do before the start
  HasArguments,  \* opd was given -a
  UsingMpi,      \* opd was given -r and -n, or found the MPI variables
  Entry,         \* the function bound to the breakpoint at main
  Unknown        \* the functions whose location gdb does not find

(* A procedure is a sequence of the commands opd.c registers with Tcl, and *)
(* what it binds to a breakpoint, a watchpoint or a step is a function of  *)
(* the script.                                                             *)
Procedures  == {Setup} \cup {Proc[f] : f \in Functions}
TclNames    == {"log", "opd_setExit", "query", "gdb_setBreakpoint", "gdb_setWatchpoint",
                "gdb_continue", "gdb_stepNext", "gdb_step", "gdb_stepFinish",
                "gdb_call", "gdb_setPID"}
BindOps     == {"gdb_setBreakpoint", "gdb_setWatchpoint", "gdb_step"}
TclCommands == {c \in UNION {{p[i] : i \in DOMAIN p} : p \in Procedures} :
                  c.do \in TclNames /\ (c.do \in BindOps => c.arg \in Functions)}

ASSUME ScriptAssumption == \A p \in Procedures : p \in Seq(TclCommands)

VARIABLES
  code,          \* what is left of the evaluation under way
  phase,         \* "setup", "loop", "ended" or "crashed"
  exitflag,
  log,           \* the rows of the gdblog file
  aborted,       \* abort() was called, which ends the whole MPI job
  trace,         \* history: the stops of the application, as gdb reported them
  current,       \* history: the stop being handled, while no row is written for it
  journal        \* history: the stops for which a row was written

session == <<code, phase, exitflag, log, aborted>>
history == <<trace, current, journal>>
opdVars == <<vars, session, history>>

OpdInit ==
  /\ Init
  /\ code = (IF HasArguments THEN <<Do("gdb_set_arguments")>> ELSE <<>>)
              \o Setup \o <<Log("opd.message", "", "text"), Do("gdb_start_run")>>
  /\ phase = "setup" /\ exitflag = 0 /\ log = <<>> /\ aborted = FALSE
  /\ trace = <<>> /\ current = <<>> /\ journal = <<>>

----------------------------------------------------------------------------
(* One command of the procedure under evaluation.                          *)

CallsGdb(c) ==
  \/ c.do = "gdb_set_arguments" /\ gdb_set_arguments
  \/ c.do = "gdb_start_run"     /\ gdb_start_run
  \/ c.do = "gdb_continue"      /\ gdb_continue
  \/ c.do = "gdb_stepNext"      /\ gdb_stepNext
  \/ c.do = "gdb_step"          /\ gdb_step(c.arg)
  \/ c.do = "gdb_stepFinish"    /\ gdb_stepFinish
  \/ c.do = "gdb_setBreakpoint" /\ gdb_setBreakpoint(c.arg)
  \/ c.do = "gdb_setWatchpoint" /\ gdb_setWatchpoint(c.arg)
  \/ c.do = "query"             /\ gdb_query
  \/ c.do = "gdb_call"          /\ gdb_call
  \/ c.do = "gdb_setPID"        /\ gdb_setPID

Evaluating == wait = "none" /\ code # <<>> /\ phase \in {"setup", "loop"}

EvalGdb ==
  /\ Evaluating /\ CallsGdb(Head(code))
  /\ code' = Tail(code)
  /\ UNCHANGED <<phase, exitflag, log, aborted, history>>

db_logMessage ==
  /\ Evaluating /\ Head(code).do = "log"
  /\ log' = Append(log, [key   |-> Head(code).arg[1], x |-> Head(code).arg[2],
                         of    |-> Head(code).arg[3],
                         line  |-> line,
                         asked |-> asked.id])
  /\ journal' = journal \o current /\ current' = <<>>
  /\ code' = Tail(code)
  /\ UNCHANGED <<vars, phase, exitflag, aborted, trace>>

opd_setExit ==
  /\ Evaluating /\ Head(code).do = "opd_setExit"
  /\ exitflag' = 1
  /\ code' = Tail(code)
  /\ UNCHANGED <<vars, phase, log, aborted, history>>

(* The reading loops a command left opd in.                                *)
Await ==
  /\ wait # "none" /\ Read
  /\ UNCHANGED <<session, history>>

----------------------------------------------------------------------------
(* The event loop of main.                                                 *)

(* What main evaluates for the event gdb_next_event returned, with the     *)
(* line it read; a table entry that does not exist is a NULL dereference.  *)
NoHandler(e) ==
  \/ e \in {"GDB_BRKPNT", "GDB_WPT", "GDB_WPS"} /\ line.no \notin DOMAIN breakpoints
  \/ e = "GDB_STEP" /\ step_function = NoFunction

Handler(e) ==
  CASE e = "GDB_STDERR" -> opd_dispatchStdErr
    [] e = "GDB_GDBMSG" -> opd_dispatchGDB
    [] e \in {"GDB_BRKPNT", "GDB_WPT", "GDB_WPS"} -> Proc[breakpoints[line.no]]
    [] e = "GDB_STEP"   -> Proc[step_function]
    [] e = "GDB_SIGSEG" -> opd_dispatchSigSeg
    [] e = "GDB_STDOUT" -> opd_dispatchStdOut
    [] e = "GDB_PRGEXT" -> opd_dispatchPrgExt
    [] e \in {"GDB_RUNNING", "GDB_PROMPT"} -> <<>>
    [] OTHER            -> opd_dispatchOther

StartLoop ==
  /\ phase = "setup" /\ code = <<>> /\ wait = "none"
  /\ phase' = "loop" /\ exitflag' = 0
  /\ UNCHANGED <<vars, code, log, aborted, history>>

Dispatch ==
  /\ phase = "loop" /\ code = <<>> /\ exitflag = 0
  /\ ReadEvent
  /\ IF NoHandler(event)' THEN phase' = "crashed" /\ code' = <<>>
                          ELSE phase' = "loop" /\ code' = Handler(event)'
  /\ exitflag' = IF event' = "GDB_PRGEXT" THEN 2 ELSE 0
  /\ current' = IF line'.kind \in StopKinds THEN <<line'>> ELSE <<>>
  /\ UNCHANGED <<log, aborted, trace, journal>>

(* Mutant: the value of exitflag is not looked at.                         *)
opd_exitAborts ==
  /\ phase = "loop" /\ code = <<>> /\ exitflag # 0
  /\ gdb_exit
  /\ phase' = "ended" /\ aborted' = UsingMpi
  /\ UNCHANGED <<code, exitflag, log, history>>

(* Out of the loop: close the database, tell gdb to exit, and, when a      *)
(* procedure asked for the exit of an MPI process, abort.                  *)
opd_exit ==
  /\ phase = "loop" /\ code = <<>> /\ exitflag # 0
  /\ gdb_exit
  /\ phase' = "ended"
  /\ aborted' = (exitflag = 1 /\ UsingMpi)
  /\ UNCHANGED <<code, exitflag, log, history>>

OpdStep == EvalGdb \/ db_logMessage \/ opd_setExit \/ Await \/ StartLoop \/ Dispatch \/ opd_exit

----------------------------------------------------------------------------
(* gdb and the application.  gdb finds every location but those of         *)
(* Unknown, and main is the first breakpoint the application meets.        *)

IsStop(l) == l.kind \in StopKinds

(* A step of either reports at most one stop, in the last line it adds.    *)
Reports == Len(gdb_stdout') > Len(gdb_stdout)
Newest  == gdb_stdout'[Len(gdb_stdout')]

Observe ==
  trace' = IF Reports /\ IsStop(Newest) THEN Append(trace, Newest) ELSE trace

GdbStep ==
  /\ GdbExecute
  /\ Head(gdb_stdin).op = "break" => (bps' = bps <=> Head(gdb_stdin).fn \in Unknown)
  /\ Observe /\ UNCHANGED <<session, current, journal>>

AppStep ==
  /\ AppRuns /\ Observe
  /\ Reports /\ Newest.no # 0 => (bps[Newest.no].fn = Entry <=> trace = <<>>)
  /\ UNCHANGED <<session, current, journal>>

OpdNext == OpdStep \/ GdbStep \/ AppStep

OpdSpec == OpdInit /\ [][OpdNext]_opdVars

(* opd and gdb are scheduled, and the application does not run for ever.   *)
OpdFairSpec ==
  /\ OpdSpec
  /\ WF_opdVars(OpdStep) /\ WF_opdVars(GdbStep) /\ WF_opdVars(AppStep /\ AppExits)

----------------------------------------------------------------------------
(* The variables of opd.c range over what the comments above say.          *)
OpdTypeOK ==
  /\ TypeOK
  /\ phase \in {"setup", "loop", "ended", "crashed"}
  /\ exitflag \in {0, 1, 2}
  /\ \A i \in DOMAIN log : log[i].line \in Line /\ log[i].asked \in 0 .. sent
  /\ aborted \in BOOLEAN
  /\ \A i \in DOMAIN trace : IsStop(trace[i])
  /\ \A i \in DOMAIN journal : IsStop(journal[i])

(* The number in every stop leads, in opd's table, to the function that    *)
(* was bound to the breakpoint of that number.                             *)
CalledAsBound ==
  \A i \in DOMAIN gdb_stdout :
    LET n == gdb_stdout[i].no
    IN  n # 0 => n \in DOMAIN breakpoints /\ breakpoints[n] = bps[n].fn

(* A row that a procedure writes as the answer to a command holds the line *)
(* with which gdb answered that very command.                              *)
RowsAreAnswers ==
  \A i \in DOMAIN log : log[i].of = "answer" => log[i].line.id = log[i].asked

(* main always has a procedure to evaluate for the event it read: the      *)
(* number in a stop is in the table, and a step that is reported to the    *)
(* main loop was asked for with a function.                                *)
NeverCrashes == phase # "crashed"

(* opd_exit aborts, and with it the whole MPI job, only when the           *)
(* application crashed.                                                    *)
AbortsOnCrash ==
  aborted => \E i \in DOMAIN trace : trace[i].kind = "SIGSEGV"

(* What segreport prints is taken at the fault: every row of opd.SEGFAULT  *)
(* is written while gdb still holds the application at its fault, and not  *)
(* after a step or a continue of some procedure let it die.                *)
RowsOfFault ==
  [][log' # log /\ log'[Len(log')].key = "opd.SEGFAULT" => app = "faulted"]_opdVars

(* A fault ends the session with the three rows segreport reads, in its    *)
(* order: the stop, the stack, the locals.                                 *)
FaultReport ==
  /\ phase = "ended" /\ Len(log) >= 3
  /\ \A i \in 1 .. 3 : LET row == log[Len(log) - 3 + i]
                       IN  row.key = "opd.SEGFAULT" /\ row.x = <<"", "stack", "locals">>[i]

FaultIsReported == app = "faulted" ~> FaultReport

(* Whatever the application does, opd comes to its end: it never leaves    *)
(* the application standing or itself waiting for a line that never comes. *)
SessionEnds == <>(phase = "ended")

(* The promise of Session: what gdb reported is trace, what the first row  *)
(* of a handler records is journal.                                        *)
StopLines == [kind : StopKinds, id : {0}, no : 0 .. MaxCommands]

Promise == INSTANCE Session WITH
  Stops <- StopLines,
  Fatal <- {l \in StopLines : l.kind \in {"SIGSEGV", "signal", "exited"}},
  state <- IF phase = "ended" THEN "over"
           ELSE IF app = "none" THEN "ready"
           ELSE IF Running THEN "running" ELSE "stopped",
  trace <- trace,
  journal <- journal

KeepsPromise == Promise!Spec
============================================================================
