------------------------------- MODULE GdbMI -------------------------------
(***************************************************************************)
(* src/gdbmi.c: opd's conversation with gdb over the machine interface.    *)
(*                                                                         *)
(* Three processes share three pipes.  opd writes commands to gdb_stdin    *)
(* and reads records from gdb_stdout and gdb_stderr; gdb (external, 6.8,   *)
(* synchronous) executes one command at a time and reads none while the    *)
(* application runs; the application (external) runs, writes output and    *)
(* stops.  opd is here the most general client of gdbmi.c: whenever no     *)
(* loop of gdbmi.c is waiting it may call any of its functions.  Which     *)
(* ones the handlers of opd.c and opd.tcl call is the subject of Opd.tla.  *)
(*                                                                         *)
(* A record of gdb is reduced to what the code looks for in it: its kind,  *)
(* the command it answers and the breakpoint number it carries.  The       *)
(* "(gdb)" prompt that ends a group of records is read together with the   *)
(* record before it: no code but gdb_call's last loop acts on a prompt.    *)
(***************************************************************************)
EXTENDS Integers, Sequences, FiniteSets

CONSTANTS
  Functions,     \* the Tcl commands a breakpoint or a step can be bound to
  NoFunction,    \* NULL
  MaxCommands,   \* bound: commands opd sends in one behaviour
  MaxEvents      \* bound: lines and stops the application and stderr add

ASSUME FunctionsAssumption == NoFunction \notin Functions
ASSUME BoundsAssumption == MaxCommands \in Nat /\ MaxEvents \in Nat

VARIABLES
  breakpoints,   \* opd's table: the Tcl function of every entry, in order
  step_function, \* the function given to the last gdb_step
  child_pid,     \* 0, or 1 once it is the application's pid
  asked,         \* the command the current reading loop was entered for
  line,          \* the last line read
  event,         \* what gdb_next_event last returned
  wait,          \* the reading loop opd is in; "none" in opd's main loop
  gdb_stdin, gdb_stdout, gdb_stderr,
  bps,           \* gdb's breakpoints, by number
  app,           \* the application: how it was resumed, or why it is not running
  sigint,        \* a SIGINT is pending for the application
  sent,          \* commands sent so far, which is the id of the last one
  events,        \* lines and stops added so far
  blame          \* history: what put opd and gdb out of step, if anything

opd   == <<breakpoints, step_function, child_pid, asked, line, event, wait>>
pipes == <<gdb_stdin, gdb_stdout, gdb_stderr>>
gdb   == <<bps, app, sigint>>
vars  == <<opd, pipes, gdb, sent, events, blame>>

----------------------------------------------------------------------------
(* Commands, lines and events.                                             *)

ExecOps == {"run", "continue", "next", "step", "finish"}
AskOps  == {"break", "watch", "query"}       \* followed by gdb_getresponse
CallOps == {"call", "getpid"}                \* followed by gdb_call's loops
Ops     == ExecOps \cup AskOps \cup CallOps \cup {"arguments", "exit"}
Command == [op : {"break", "watch"}, fn : Functions, id : Nat]
             \cup [op : Ops \ {"break", "watch"}, fn : {NoFunction}, id : Nat]

StopKinds  == {"breakpoint-hit", "watchpoint-trigger", "watchpoint-scope",
               "SIGSEGV", "SIGINT", "signal", "end-stepping-range",
               "function-finished", "exited"}
FinalKinds == {"done", "error", "notrunning"}
Kinds      == StopKinds \cup FinalKinds
                \cup {"running", "value", "output", "console", "stderr", "prompt", "null"}
Line       == [kind : Kinds, id : Nat, no : Nat]

Plain(k)    == [kind |-> k, id |-> 0, no |-> 0]
Reply(k, c) == [kind |-> k, id |-> c.id, no |-> 0]
Stop(k, n)  == [kind |-> k, id |-> 0, no |-> n]

(* Mutant: output that is none of the above is no event at all.            *)
EventOfOutputForgotten == [k \in Kinds |->
  CASE k = "output"              -> "GDB_NONE"
    [] k = "running"             -> "GDB_RUNNING"
    [] k = "breakpoint-hit"      -> "GDB_BRKPNT"
    [] k = "exited"              -> "GDB_PRGEXT"
    [] OTHER                     -> "GDB_STDOUT"]

(* Mutant: "The program is not being run." is an error like any other.     *)
EventOfRefusalForgotten == [k \in Kinds |->
  CASE k \in {"signal", "exited"}       -> "GDB_PRGEXT"
    [] k = "breakpoint-hit"             -> "GDB_BRKPNT"
    [] k = "SIGSEGV"                    -> "GDB_SIGSEG"
    [] k = "stderr"                     -> "GDB_STDERR"
    [] k \in {"console", "value"}       -> "GDB_GDBMSG"
    [] k = "running"                    -> "GDB_RUNNING"
    [] k = "end-stepping-range"         -> "GDB_STEP"
    [] OTHER                            -> "GDB_STDOUT"]

EventOfKind == [k \in Kinds |->
  CASE k = "stderr"                -> "GDB_STDERR"
    [] k \in {"console", "value"}  -> "GDB_GDBMSG"
    [] k = "breakpoint-hit"        -> "GDB_BRKPNT"
    [] k = "watchpoint-trigger"    -> "GDB_WPT"
    [] k = "watchpoint-scope"      -> "GDB_WPS"
    [] k = "SIGSEGV"               -> "GDB_SIGSEG"
    [] k = "end-stepping-range"    -> "GDB_STEP"
    [] k = "function-finished"     -> "GDB_FINISH"
    [] k = "SIGINT"                -> "GDB_SIGINT"
    [] k \in {"signal", "exited"}  -> "GDB_PRGEXT"
    [] k = "running"               -> "GDB_RUNNING"
    [] k = "prompt"                -> "GDB_PROMPT"
    [] k = "notrunning"            -> "GDB_PRGEXT"
    [] OTHER                       -> "GDB_STDOUT"]
Events == {"GDB_STDERR", "GDB_GDBMSG", "GDB_BRKPNT", "GDB_PRGEXT", "GDB_STDOUT",
           "GDB_SIGSEG", "GDB_WPT", "GDB_WPS", "GDB_PROMPT", "GDB_RUNNING",
           "GDB_STEP", "GDB_FINISH", "GDB_SIGINT"}

(* Mutants: the branch on "*stopped" that gdb_getresponse has commented    *)
(* out, and one that forgets "^error".                                     *)
EndsResponseOrStop(l) == l.kind \in FinalKinds \cup StopKinds
EndsResponseOnDone(l) == l.kind = "done"

(* What ends a reading loop: a result record for gdb_getresponse, a " = "  *)
(* for gdb_call, and gdb_waitforEvent gives up on an exit or a SIGSEGV.    *)
(* The code finds these texts anywhere in a line; here a line has its kind *)
(* alone, so the application writes no " = " (nor any other record).       *)
EndsResponse(l) == l.kind \in FinalKinds
HasValue(l)     == l.kind = "value"
EndsWait(e, t)  == e = t \/ e \in {"GDB_PRGEXT", "GDB_SIGSEG"}
PromptFollows(l) == l.kind \in StopKinds \cup FinalKinds \cup {"running"}

----------------------------------------------------------------------------
Init ==
  /\ breakpoints = <<>> /\ step_function = NoFunction /\ child_pid = 0
  /\ asked = [op |-> "query", fn |-> NoFunction, id |-> 0]
  /\ line = Plain("null") /\ event = "GDB_STDOUT" /\ wait = "none"
  /\ gdb_stdin = <<>> /\ gdb_stdout = <<>> /\ gdb_stderr = 0
  /\ bps = <<>> /\ app = "none" /\ sigint = FALSE
  /\ sent = 0 /\ events = 0 /\ blame = {}

----------------------------------------------------------------------------
(* opd sends.  Resuming commands are sent without reading their answer;    *)
(* the others leave opd in the loop that reads it.                         *)

Launched == app # "none" \/ \E i \in DOMAIN gdb_stdin : gdb_stdin[i].op = "run"

Write(op, fn) ==
  /\ wait = "none" /\ app # "gone" /\ sent < MaxCommands
  /\ sent' = sent + 1
  /\ gdb_stdin' = Append(gdb_stdin, [op |-> op, fn |-> fn, id |-> sent + 1])
  /\ UNCHANGED <<child_pid, line, event, gdb_stdout, gdb_stderr, gdb, events>>

Fire(op) ==
  /\ Write(op, NoFunction)
  /\ UNCHANGED <<breakpoints, asked, wait>>

Ask(op, fn, loop) ==
  /\ Write(op, fn)
  /\ asked' = [op |-> op, fn |-> fn, id |-> sent + 1]
  /\ wait' = loop
  /\ UNCHANGED <<step_function, blame>>

gdb_set_arguments ==
  /\ ~Launched
  /\ Fire("arguments")
  /\ blame' = blame \cup {"arguments"}
  /\ UNCHANGED step_function

gdb_start_run ==
  /\ ~Launched
  /\ Fire("run") /\ UNCHANGED <<step_function, blame>>

gdb_continue == Fire("continue") /\ UNCHANGED <<step_function, blame>>

gdb_stepNext == Fire("next") /\ UNCHANGED <<step_function, blame>>

(* Mutant: the function to call back is not kept.                          *)
gdb_stepForgets(f) == Fire("step") /\ UNCHANGED <<step_function, blame>>

gdb_step(f) == Fire("step") /\ step_function' = f /\ UNCHANGED blame

gdb_stepFinish == Fire("finish") /\ UNCHANGED <<step_function, blame>>

gdb_exit ==
  /\ Fire("exit")
  /\ blame' = blame \cup {"exit"}
  /\ UNCHANGED step_function

(* Mutants: the table is not filled in; the answer is not read.            *)
gdb_setBreakpointForgets(f) == Ask("break", f, "response") /\ UNCHANGED breakpoints
gdb_setBreakpointUnread(f) ==
  /\ Write("break", f)
  /\ breakpoints' = Append(breakpoints, f)
  /\ UNCHANGED <<step_function, asked, wait, blame>>

gdb_setBreakpoint(f) ==
  /\ Ask("break", f, "response")
  /\ breakpoints' = Append(breakpoints, f)

gdb_setWatchpoint(f) == Ask("watch", f, "response") /\ UNCHANGED breakpoints

(* Mutant: the answer is not read.                                         *)
gdb_queryUnread == Fire("query") /\ UNCHANGED <<step_function, blame>>

(* gdb_evalExpr, gdb_listLocals, gdb_getStackFrames, gdb_getStackArgs, gdb_set *)
gdb_query == Ask("query", NoFunction, "response") /\ UNCHANGED breakpoints

gdb_call == Ask("call", NoFunction, "value") /\ UNCHANGED breakpoints

gdb_setPID == Ask("getpid", NoFunction, "value") /\ UNCHANGED breakpoints

(* kill(child_pid, SIGINT): pid 0 is opd's own process group.              *)
gdb_interrupt ==
  /\ wait = "none"
  /\ wait' = IF child_pid = 0 THEN "killed" ELSE "sigint"
  /\ sigint' = (app \notin {"dead", "gone"})
  /\ UNCHANGED <<breakpoints, step_function, child_pid, asked, line, event, pipes,
                 bps, app, sent, events, blame>>

(* SIGPIPE: gdb_stdin has no reader any more.                              *)
WriteBroken ==
  /\ wait = "none" /\ app = "gone"
  /\ wait' = "killed"
  /\ UNCHANGED <<breakpoints, step_function, child_pid, asked, line, event, pipes,
                 gdb, sent, events, blame>>

----------------------------------------------------------------------------
(* opd reads, one line per gdb_next_event; stderr is served first, and at  *)
(* its end, once gdb is gone, for ever, with line left as it was.          *)

gdb_next_event(l) ==
  /\ \/ /\ gdb_stderr > 0
        /\ l = Plain("stderr") /\ gdb_stderr' = gdb_stderr - 1 /\ UNCHANGED gdb_stdout
     \/ /\ gdb_stderr = 0 /\ app # "gone" /\ gdb_stdout # <<>>
        /\ l = Head(gdb_stdout) /\ gdb_stdout' = Tail(gdb_stdout) /\ UNCHANGED gdb_stderr
     \/ /\ gdb_stderr = 0 /\ app = "gone"
        /\ l = line /\ UNCHANGED <<gdb_stdout, gdb_stderr>>
  /\ event' = IF gdb_stderr = 0 /\ app # "gone" THEN EventOfKind[l.kind] ELSE "GDB_STDERR"
  /\ UNCHANGED <<step_function, asked, gdb_stdin, gdb, sent, events, blame>>

Incoming == {line, Plain("stderr")} \cup {gdb_stdout[i] : i \in DOMAIN gdb_stdout}

ReadEvent ==
  /\ wait = "none"
  /\ \E l \in Incoming : gdb_next_event(l) /\ line' = l
  /\ UNCHANGED <<breakpoints, child_pid, wait>>

(* Mutant: a watchpoint enters the table even if gdb refused it.           *)
AddOnAnswer(l) == IF asked.op = "watch" /\ EndsResponse(l)
                    THEN Append(breakpoints, asked.fn) ELSE breakpoints

AddOnDone(l) == IF asked.op = "watch" /\ l.kind = "done"
                  THEN Append(breakpoints, asked.fn) ELSE breakpoints

gdb_getresponse ==
  /\ wait = "response"
  /\ \E l \in Incoming :
       /\ gdb_next_event(l) /\ line' = l
       /\ wait' = IF EndsResponse(l) THEN "none" ELSE "response"
       /\ breakpoints' = AddOnDone(l)
  /\ UNCHANGED child_pid

ReadValue ==
  /\ wait = "value"
  /\ \E l \in Incoming :
       /\ gdb_next_event(l) /\ line' = l
       /\ wait' = IF HasValue(l) THEN "prompt" ELSE "value"
  /\ UNCHANGED <<breakpoints, child_pid>>

gdb_waitforprompt ==
  /\ wait = "prompt"
  /\ \E l \in Incoming :
       /\ gdb_next_event(l)
       /\ IF EndsWait(event', "GDB_PROMPT")
            THEN line' = l /\ wait' = "none"
            ELSE IF event' # "GDB_STDERR" /\ PromptFollows(l)
              THEN line' = Plain("prompt") /\ wait' = "none"
              ELSE line' = l /\ wait' = "prompt"
  /\ child_pid' = IF wait' = "none" /\ asked.op = "getpid" THEN 1 ELSE child_pid
  /\ UNCHANGED breakpoints

ReadSigint ==
  /\ wait = "sigint"
  /\ \E l \in Incoming :
       /\ gdb_next_event(l) /\ line' = l
       /\ wait' = IF EndsWait(event', "GDB_SIGINT") THEN "none" ELSE "sigint"
  /\ UNCHANGED <<breakpoints, child_pid>>

Read == ReadEvent \/ gdb_getresponse \/ ReadValue \/ gdb_waitforprompt \/ ReadSigint

----------------------------------------------------------------------------
(* gdb executes the first command of gdb_stdin.                            *)

Running == app \in {"continue", "next", "step", "finish"}

Execute(ops) ==
  /\ gdb_stdin # <<>> /\ Head(gdb_stdin).op \in ops
  /\ ~Running /\ app # "gone"
  /\ gdb_stdin' = Tail(gdb_stdin)
  /\ UNCHANGED <<opd, gdb_stderr, sigint, sent, events>>

Put(l) == gdb_stdout' = Append(gdb_stdout, l)

Put2(l, m) == gdb_stdout' = Append(Append(gdb_stdout, l), m)

Answer(k) == Put(Reply(k, Head(gdb_stdin)))

GdbQuery ==
  /\ Execute({"query", "arguments"})
  /\ \/ Answer("done")
     \/ Head(gdb_stdin).op = "query" /\ Answer("error")
  /\ UNCHANGED <<bps, app, blame>>

Added(kind) ==
  bps' = Append(bps, [kind |-> kind, fn |-> Head(gdb_stdin).fn, live |-> TRUE])

(* A location or an expression gdb does not know takes no number.          *)
GdbInsert ==
  /\ Execute({"break"})
  /\ \/ Answer("done") /\ Added("break") /\ UNCHANGED blame
     \/ Answer("error") /\ blame' = blame \cup {"insert"} /\ UNCHANGED bps
  /\ UNCHANGED app

GdbWatch ==
  /\ Execute({"watch"})
  /\ \/ Answer("done") /\ Added("watch")
     \/ Answer("error") /\ UNCHANGED bps
  /\ UNCHANGED <<app, blame>>

(* No process, no such symbol: an error; a void function: no value.        *)
GdbCall ==
  /\ Execute(CallOps)
  /\ \/ /\ app \in {"stopped", "faulted"}
        /\ Put2(Reply("value", Head(gdb_stdin)), Reply("done", Head(gdb_stdin)))
     \/ Answer("error")
     \/ app \in {"stopped", "faulted"} /\ Head(gdb_stdin).op = "call" /\ Answer("done")
  /\ UNCHANGED <<bps, app, blame>>

Resume ==
  /\ Execute(ExecOps)
  /\ IF Head(gdb_stdin).op = "run" THEN app = "none" ELSE app = "stopped"
  /\ app' = IF Head(gdb_stdin).op = "run" THEN "continue" ELSE Head(gdb_stdin).op
  /\ Answer("running")
  /\ UNCHANGED <<bps, blame>>

(* Resumed after its SIGSEGV the application dies of it.                   *)
ResumeFaulted ==
  /\ Execute(ExecOps \ {"run"})
  /\ app = "faulted" /\ app' = "dead"
  /\ Put2(Reply("running", Head(gdb_stdin)), Stop("SIGSEGV", 0))
  /\ UNCHANGED <<bps, blame>>

(* Nothing to resume, or no frame to finish.                               *)
RefuseResume ==
  /\ Execute(ExecOps \ {"run"})
  /\ \/ app \in {"none", "dead"} /\ Answer("notrunning")
     \/ app \in {"stopped", "faulted"} /\ Head(gdb_stdin).op = "finish" /\ Answer("error")
  /\ blame' = blame \cup {"exec"}
  /\ UNCHANGED <<bps, app>>

GdbExit ==
  /\ Execute({"exit"})
  /\ app' = "gone"
  /\ UNCHANGED <<gdb_stdout, bps, blame>>

GdbExecute == \/ GdbQuery \/ GdbInsert \/ GdbWatch \/ GdbCall
              \/ Resume \/ ResumeFaulted \/ RefuseResume \/ GdbExit

----------------------------------------------------------------------------
(* The application runs until it stops or exits.                           *)

AppStops(kind, n, then) ==
  /\ Running /\ events < MaxEvents /\ events' = events + 1
  /\ Put(Stop(kind, n))
  /\ app' = then
  /\ UNCHANGED <<opd, gdb_stdin, gdb_stderr, sent, blame>>

Armed(kind) == {n \in DOMAIN bps : bps[n].kind = kind /\ bps[n].live}

AppHits ==
  \/ \E n \in Armed("break") : AppStops("breakpoint-hit", n, "stopped") /\ UNCHANGED <<bps, sigint>>
  \/ \E n \in Armed("watch") : AppStops("watchpoint-trigger", n, "stopped") /\ UNCHANGED <<bps, sigint>>

(* The frame of a watched variable returns: gdb reports it and deletes it. *)
AppLeavesScope ==
  \E n \in Armed("watch") :
    /\ AppStops("watchpoint-scope", n, "stopped")
    /\ bps' = [bps EXCEPT ![n].live = FALSE]
    /\ UNCHANGED sigint

AppSteps ==
  /\ \/ app \in {"next", "step"} /\ AppStops("end-stepping-range", 0, "stopped")
     \/ app = "finish" /\ AppStops("function-finished", 0, "stopped")
  /\ UNCHANGED <<bps, sigint>>

AppSignalled ==
  /\ \/ AppStops("SIGSEGV", 0, "faulted") /\ UNCHANGED sigint
     \/ AppStops("signal", 0, "stopped") /\ UNCHANGED sigint
     \/ sigint /\ AppStops("SIGINT", 0, "stopped") /\ sigint' = FALSE
  /\ UNCHANGED bps

AppExits ==
  /\ Running /\ app' = "dead"
  /\ Put(Plain("exited"))
  /\ UNCHANGED <<opd, gdb_stdin, gdb_stderr, bps, sigint, sent, events, blame>>

AppWrites ==
  /\ events < MaxEvents /\ events' = events + 1
  /\ \/ Running /\ (Put(Plain("output")) \/ Put(Plain("console"))) /\ UNCHANGED gdb_stderr
     \/ app # "gone" /\ gdb_stderr' = gdb_stderr + 1 /\ UNCHANGED gdb_stdout
  /\ UNCHANGED <<opd, gdb_stdin, gdb, sent, blame>>

AppRuns == AppHits \/ AppLeavesScope \/ AppSteps \/ AppSignalled \/ AppExits \/ AppWrites

----------------------------------------------------------------------------
Send ==
  \/ gdb_set_arguments \/ gdb_start_run \/ gdb_continue \/ gdb_stepNext \/ gdb_stepFinish
  \/ gdb_query \/ gdb_call \/ gdb_setPID \/ gdb_interrupt \/ gdb_exit
  \/ WriteBroken
  \/ \E f \in Functions : gdb_setBreakpoint(f) \/ gdb_setWatchpoint(f) \/ gdb_step(f)

Next == Send \/ Read \/ GdbExecute \/ AppRuns

Spec == Init /\ [][Next]_vars

(* gdb and opd are scheduled, and every stretch of the application's run   *)
(* comes to an end.                                                        *)
FairSpec == Spec /\ WF_vars(Read) /\ WF_vars(GdbExecute) /\ WF_vars(AppExits)

----------------------------------------------------------------------------
(* The variables range over what the comments above say.                   *)
Waits == {"none", "response", "value", "prompt", "sigint", "killed"}

TypeOK ==
  /\ breakpoints \in Seq(Functions)
  /\ step_function \in Functions \cup {NoFunction}
  /\ child_pid \in {0, 1}
  /\ asked \in Command
  /\ line \in Line /\ event \in Events
  /\ wait \in Waits
  /\ gdb_stdin \in Seq(Command) /\ gdb_stdout \in Seq(Line) /\ gdb_stderr \in Nat
  /\ bps \in Seq([kind : {"break", "watch"}, fn : Functions, live : BOOLEAN])
  /\ app \in {"none", "continue", "next", "step", "finish", "stopped", "faulted", "dead", "gone"}
  /\ sigint \in BOOLEAN
  /\ sent \in Nat /\ events \in Nat
  /\ blame \subseteq {"arguments", "insert", "exec", "exit"}

(* Every stop that carries a breakpoint number, when opd looks the number  *)
(* up in its own table, leads to the function that was asked for when that *)
(* breakpoint was set - unless an insertion was refused, a reply is left   *)
(* over from gdb_set_arguments or a refused resume, or gdb was told to exit. *)
DispatchSound ==
  blame = {} =>
    \A i \in DOMAIN gdb_stdout :
      LET n == gdb_stdout[i].no
      IN  n # 0 => n \in DOMAIN breakpoints /\ breakpoints[n] = bps[n].fn

(* A reading loop that ends was ended by the answer to the command it was  *)
(* entered for, and not by an answer to some other command.                *)
OwnAnswer ==
  [][(wait \in {"response", "value"} /\ wait' # wait)
       => (blame # {} \/ line'.id = asked.id)]_vars

(* Whenever opd is back in its main loop no answer is left unread for the  *)
(* next command to mistake for its own.                                    *)
NoStaleAnswer ==
  blame = {} /\ wait = "none" =>
    \A i \in DOMAIN gdb_stdout : ~EndsResponse(gdb_stdout[i]) /\ ~HasValue(gdb_stdout[i])

(* gdb_getresponse returns, whatever was sent and swallowed before it.     *)
ResponseArrives == wait = "response" /\ "exit" \notin blame ~> wait # "response"
============================================================================
