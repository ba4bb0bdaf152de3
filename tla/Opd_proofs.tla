----------------------------- MODULE Opd_proofs -----------------------------
(***************************************************************************)
(* opd.c for every script: what its procedures and its event loop do to    *)
(* gdbmi.c is a behaviour of GdbMI, so what is proved there of any caller  *)
(* holds in every session of opd.                                          *)
(*                                                                         *)
(* The invariant is that what is left to evaluate is a sequence of         *)
(* commands of the script, of opd.tcl or of opd.c itself.                  *)
(***************************************************************************)
EXTENDS Opd, GdbMI_proofs

OpdCommands ==
  {Do("gdb_set_arguments"), Do("gdb_start_run"), Do("opd_setExit"),
   Log("opd.message", "", "text"), Log("opd.stdErr", "", "event"), Log("opd.gdb", "", "event"),
   Log("opd.stdOut", "", "event"), Log("opd.Unknwn", "", "event"), Log("opd.PrgExt", "", "event"),
   Log("opd.SEGFAULT", "", "event"), Log("opd.SEGFAULT", "stack", "answer"),
   Log("opd.SEGFAULT", "locals", "answer"), Query("stack", ""), Query("locals", "")}

Commands == TclCommands \cup OpdCommands

CodeInv == code \in Seq(Commands)

----------------------------------------------------------------------------
(* A command that binds a function binds one of the script.                *)
LEMMA BindsFunctions ==
  \A c \in Commands : c.do \in BindOps => c.arg \in Functions
<1>1. /\ \A key, x, of : Log(key, x, of).do = "log"
      /\ \A what, x : Query(what, x).do = "query"
      /\ \A command : Do(command).do = command
  BY DEF Log, Query, Do, Cmd
<1>2. ASSUME NEW c \in OpdCommands
      PROVE  \/ \E key, x, of : c = Log(key, x, of)
             \/ \E what, x : c = Query(what, x)
             \/ c = Do("gdb_set_arguments") \/ c = Do("gdb_start_run") \/ c = Do("opd_setExit")
  BY <1>2, Zenon DEF OpdCommands
<1>3. \A c \in OpdCommands : c.do \notin BindOps
  <2> TAKE c \in OpdCommands
  <2>1. c.do \in {"log", "query", "gdb_set_arguments", "gdb_start_run", "opd_setExit"}
    BY <1>1, <1>2
  <2> QED
    BY <2>1 DEF BindOps
<1> QED
  BY <1>3 DEF Commands, TclCommands

(* The procedures of opd.tcl for the events of the main loop.              *)
LEMMA OpdTclTyped ==
  /\ opd_dispatchStdErr \in Seq(Commands) /\ opd_dispatchGDB \in Seq(Commands)
  /\ opd_dispatchStdOut \in Seq(Commands) /\ opd_dispatchPrgExt \in Seq(Commands)
  /\ opd_dispatchOther \in Seq(Commands) /\ opd_dispatchSigSeg \in Seq(Commands)
<1>1. /\ Do("opd_setExit") \in Commands
      /\ Query("stack", "") \in Commands /\ Query("locals", "") \in Commands
      /\ Log("opd.stdErr", "", "event") \in Commands /\ Log("opd.gdb", "", "event") \in Commands
      /\ Log("opd.stdOut", "", "event") \in Commands
      /\ Log("opd.Unknwn", "", "event") \in Commands
      /\ Log("opd.PrgExt", "", "event") \in Commands
      /\ Log("opd.SEGFAULT", "", "event") \in Commands
      /\ Log("opd.SEGFAULT", "stack", "answer") \in Commands
      /\ Log("opd.SEGFAULT", "locals", "answer") \in Commands
  BY DEF Commands, OpdCommands
<1>2. \A a, b \in Commands : <<a>> \in Seq(Commands) /\ <<a, b>> \in Seq(Commands)
  OBVIOUS
<1>3. \A a, b, c, d, e, f \in Commands : <<a, b, c, d, e, f>> \in Seq(Commands)
  OBVIOUS
<1>4. /\ opd_dispatchStdErr \in Seq(Commands) /\ opd_dispatchGDB \in Seq(Commands)
      /\ opd_dispatchStdOut \in Seq(Commands) /\ opd_dispatchPrgExt \in Seq(Commands)
  BY <1>1, <1>2, Zenon
     DEF opd_dispatchStdErr, opd_dispatchGDB, opd_dispatchStdOut, opd_dispatchPrgExt
<1>5. opd_dispatchOther \in Seq(Commands)
  BY <1>1, <1>2, Zenon DEF opd_dispatchOther
<1>6. opd_dispatchSigSeg \in Seq(Commands)
  BY <1>1, <1>3, Zenon DEF opd_dispatchSigSeg
<1> QED
  BY <1>4, <1>5, <1>6

(* What main evaluates, unless it dereferences NULL, are such commands.    *)
LEMMA HandlerTyped == TypeOK /\ ~NoHandler(event) => Handler(event) \in Seq(Commands)
<1> SUFFICES ASSUME TypeOK, ~NoHandler(event) PROVE Handler(event) \in Seq(Commands)
  OBVIOUS
<1>1. \A f \in Functions : Proc[f] \in Seq(Commands)
  <2>1. \A f \in Functions : Proc[f] \in Seq(TclCommands)
    BY ScriptAssumption DEF Procedures
  <2>2. Seq(TclCommands) \subseteq Seq(Commands)
    BY DEF Commands
  <2> QED
    BY <2>1, <2>2
<1>2. CASE event \in {"GDB_BRKPNT", "GDB_WPT", "GDB_WPS"}
  <2>1. breakpoints[line.no] \in Functions
    BY <1>2 DEF TypeOK, NoHandler
  <2> QED
    BY <1>1, <1>2, <2>1 DEF Handler
<1>3. CASE event = "GDB_STEP"
  <2>1. step_function \in Functions
    BY <1>3 DEF TypeOK, NoHandler
  <2> QED
    BY <1>1, <1>3, <2>1 DEF Handler
<1>4. CASE event \notin {"GDB_BRKPNT", "GDB_WPT", "GDB_WPS", "GDB_STEP"}
  <2>1. <<>> \in Seq(Commands)
    OBVIOUS
  <2> QED
    BY <1>4, <2>1, OpdTclTyped DEF Handler
<1> QED
  BY <1>2, <1>3, <1>4

(* The same of the event and the line that have just been read.            *)
LEMMA HandlerOfReadTyped ==
  (TypeOK /\ ~NoHandler(event) => Handler(event) \in Seq(Commands))'
BY HandlerTyped, PTL

(* Every command of a procedure that reaches gdbmi.c is one of its         *)
(* functions.                                                              *)
LEMMA CallsSend ==
  ASSUME NEW c \in Commands, CallsGdb(c)
  PROVE  Send
BY BindsFunctions DEF CallsGdb, Send, BindOps

(* opd starts where gdbmi.c starts, with the setup to evaluate.            *)
LEMMA OpdStarts == OpdInit => Init /\ CodeInv
<1> SUFFICES ASSUME OpdInit PROVE Init /\ CodeInv
  OBVIOUS
<1>1. Setup \in Seq(Commands)
  BY ScriptAssumption DEF Procedures, Commands
<1>2. /\ <<Do("gdb_set_arguments")>> \in Seq(Commands) /\ <<>> \in Seq(Commands)
      /\ <<Log("opd.message", "", "text"), Do("gdb_start_run")>> \in Seq(Commands)
  BY DEF Commands, OpdCommands
<1>3. \A s, t \in Seq(Commands) : s \o t \in Seq(Commands)
  OBVIOUS
<1>4. (IF HasArguments THEN <<Do("gdb_set_arguments")>> ELSE <<>>) \in Seq(Commands)
  BY <1>2
<1> QED
  BY <1>1, <1>2, <1>3, <1>4 DEF OpdInit, CodeInv

(* Every step of opd.c is a step of gdbmi.c, gdb or the application, or    *)
(* leaves all three alone.                                                 *)
LEMMA OpdStepImplements ==
  ASSUME TypeOK, CodeInv, [OpdNext]_opdVars
  PROVE  [Next]_vars /\ CodeInv'
<1>1. ASSUME code # <<>>
      PROVE  Head(code) \in Commands /\ Tail(code) \in Seq(Commands)
  BY <1>1 DEF CodeInv
<1>2. CASE EvalGdb
  <2>1. Send
    BY <1>1, <1>2, CallsSend DEF EvalGdb, Evaluating
  <2> QED
    BY <1>1, <1>2, <2>1 DEF EvalGdb, Evaluating, Next, CodeInv
<1>3. CASE db_logMessage
  BY <1>1, <1>3 DEF db_logMessage, Evaluating, CodeInv
<1>4. CASE opd_setExit
  BY <1>1, <1>4 DEF opd_setExit, Evaluating, CodeInv
<1>5. CASE Await
  BY <1>5 DEF Await, session, Next, CodeInv
<1>6. CASE StartLoop
  BY <1>6 DEF StartLoop, CodeInv
<1>7. CASE Dispatch
  <2>1. ReadEvent /\ Next
    BY <1>7 DEF Dispatch, Next, Read
  <2>2. TypeOK'
    BY <2>1, TypesKept
  <2>3. ~NoHandler(event)' => Handler(event)' \in Seq(Commands)
    BY <2>2, HandlerOfReadTyped
  <2>4. <<>> \in Seq(Commands)
    OBVIOUS
  <2> QED
    BY <1>7, <2>1, <2>3, <2>4 DEF Dispatch, CodeInv
<1>8. CASE opd_exit
  <2>1. Next
    BY <1>8 DEF opd_exit, Next, Send
  <2> QED
    BY <1>8, <2>1 DEF opd_exit, CodeInv
<1>9. CASE GdbStep
  BY <1>9 DEF GdbStep, session, Next, CodeInv
<1>10. CASE AppStep
  BY <1>10 DEF AppStep, session, Next, CodeInv
<1>11. CASE UNCHANGED opdVars
  BY <1>11 DEF opdVars, session, CodeInv
<1> QED
  BY <1>2, <1>3, <1>4, <1>5, <1>6, <1>7, <1>8, <1>9, <1>10, <1>11 DEF OpdNext, OpdStep

(* Every session of opd, whatever its script, is a behaviour of GdbMI:     *)
(* opd.c and opd.tcl use gdbmi.c as its callers may.                       *)
THEOREM OpdImplementsGdbMI == OpdSpec => Spec
<1>1. OpdInit => Init /\ TypeOK /\ CodeInv
  BY OpdStarts, TypesInitially
<1>2. TypeOK /\ CodeInv /\ [OpdNext]_opdVars => [Next]_vars /\ TypeOK' /\ CodeInv'
  BY OpdStepImplements, TypesKept
<1> QED
  BY <1>1, <1>2, PTL DEF OpdSpec, Spec

(* In a session in which gdb refuses nothing, the procedure main evaluates *)
(* for a stop is the one that was bound to it, for every script.           *)
THEOREM SessionsDispatchSoundly == OpdSpec => [](blame = {} => CalledAsBound)
<1>1. DispatchSound => (blame = {} => CalledAsBound)
  BY DEF DispatchSound, CalledAsBound
<1> QED
  BY <1>1, OpdImplementsGdbMI, DispatchIsSound, PTL
----------------------------------------------------------------------------
(* What one step may change.  Every invariant below is kept step by step,  *)
(* and these lemmas say once what a step adds to the pipes.                *)

(* gdb executes a command: it answers, and adds no stop but the SIGSEGV of *)
(* an application it resumes after its fault.                              *)
IsResumed(c) == c.op \in ExecOps /\ app = IF c.op = "run" THEN "none" ELSE "stopped"

(* gdb answers the oldest command, and what it had said before stays as it *)
(* was.                                                                    *)
LEMMA GdbLines ==
  ASSUME TypeOK, GdbExecute
  PROVE  /\ gdb_stdin # <<>> /\ Head(gdb_stdin) \in Command /\ gdb_stdin' = Tail(gdb_stdin)
         /\ ~Running /\ app # "gone" /\ UNCHANGED <<opd, gdb_stderr, sigint, sent, events>>
         /\ gdb_stdout' \in Seq(Line) /\ Len(gdb_stdout) <= Len(gdb_stdout')
         /\ \A i \in 1 .. Len(gdb_stdout) : gdb_stdout'[i] = gdb_stdout[i]
         /\ \A i \in Len(gdb_stdout) + 1 .. Len(gdb_stdout') :
              /\ gdb_stdout'[i].no = 0
              /\ IsStop(gdb_stdout'[i]) =>
                   /\ i = Len(gdb_stdout') /\ gdb_stdout'[i].kind = "SIGSEGV"
                   /\ app = "faulted" /\ app' = "dead" /\ Head(gdb_stdin).op \in ExecOps
              /\ gdb_stdout'[i].kind = "notrunning" =>
                   Head(gdb_stdin).op \in ExecOps \ {"run"} /\ app \in {"none", "dead"}
         /\ \/ app' = app
            \/ /\ IsResumed(Head(gdb_stdin))
               /\ app' = IF Head(gdb_stdin).op = "run" THEN "continue" ELSE Head(gdb_stdin).op
            \/ app = "faulted" /\ app' = "dead" /\ Head(gdb_stdin).op \in ExecOps
            \/ Head(gdb_stdin).op = "exit" /\ app' = "gone"
<1> DEFINE c == Head(gdb_stdin)
           Grown == /\ gdb_stdout' \in Seq(Line) /\ Len(gdb_stdout) <= Len(gdb_stdout')
                    /\ \A i \in 1 .. Len(gdb_stdout) : gdb_stdout'[i] = gdb_stdout[i]
<1>1. \E ops : Execute(ops)
  BY DEF GdbExecute, GdbQuery, GdbInsert, GdbWatch, GdbCall, Resume, ResumeFaulted,
         RefuseResume, GdbExit
<1>2. /\ gdb_stdin # <<>> /\ gdb_stdin' = Tail(gdb_stdin) /\ ~Running /\ app # "gone"
      /\ UNCHANGED <<opd, gdb_stderr, sigint, sent, events>>
  BY <1>1 DEF Execute
<1>3. c \in Command
  BY <1>2, ReplyTypes DEF Kinds
<1>4. \A k \in {"done", "error", "notrunning", "running", "value"} : Reply(k, c) \in Line
  BY <1>2, ReplyTypes DEF Kinds, FinalKinds
<1>5. ASSUME NEW k \in {"done", "error", "notrunning", "running"}, Answer(k)
      PROVE  /\ Grown /\ Len(gdb_stdout') = Len(gdb_stdout) + 1
             /\ \A i \in Len(gdb_stdout) + 1 .. Len(gdb_stdout') : gdb_stdout'[i] = Reply(k, c)
  BY <1>4, <1>5, TypesOfPipes, AppendFacts DEF Answer, Put
<1>6. ASSUME NEW l \in Line, NEW m \in Line, Put2(l, m)
      PROVE  /\ Grown /\ Len(gdb_stdout') = Len(gdb_stdout) + 2
             /\ gdb_stdout'[Len(gdb_stdout) + 1] = l /\ gdb_stdout'[Len(gdb_stdout) + 2] = m
  <2>1. Append(gdb_stdout, l) \in Seq(Line) /\ gdb_stdout' = Append(Append(gdb_stdout, l), m)
    BY <1>6, TypesOfPipes, AppendFacts DEF Put2
  <2>2. /\ Len(Append(gdb_stdout, l)) = Len(gdb_stdout) + 1
        /\ Append(gdb_stdout, l)[Len(gdb_stdout) + 1] = l
        /\ \A i \in 1 .. Len(gdb_stdout) : Append(gdb_stdout, l)[i] = gdb_stdout[i]
    BY TypesOfPipes, AppendFacts
  <2>3. /\ gdb_stdout' \in Seq(Line)
        /\ Len(gdb_stdout') = Len(Append(gdb_stdout, l)) + 1
        /\ \A i \in 1 .. Len(Append(gdb_stdout, l)) : gdb_stdout'[i] = Append(gdb_stdout, l)[i]
        /\ gdb_stdout'[Len(Append(gdb_stdout, l)) + 1] = m
    <3> DEFINE s == Append(gdb_stdout, l)
    <3>1. s \in Seq(Line) /\ gdb_stdout' = Append(s, m)
      BY <2>1
    <3> HIDE DEF s
    <3>2. /\ gdb_stdout' \in Seq(Line) /\ Len(gdb_stdout') = Len(s) + 1
          /\ \A i \in 1 .. Len(s) : gdb_stdout'[i] = s[i]
          /\ gdb_stdout'[Len(s) + 1] = m
      BY <3>1, AppendFacts
    <3> QED
      BY <3>2 DEF s
  <2>4. Len(gdb_stdout) \in Nat
    BY TypesOfPipes
  <2> QED
    BY <2>2, <2>3, <2>4
<1>7. ASSUME gdb_stdout' = gdb_stdout PROVE Grown /\ Len(gdb_stdout') = Len(gdb_stdout)
  BY <1>7, TypesOfPipes
<1>8. Len(gdb_stdout) \in Nat
  BY TypesOfPipes
<1>9. /\ \A k \in {"done", "error", "running", "value"} :
            ~IsStop(Reply(k, c)) /\ Reply(k, c).kind # "notrunning" /\ Reply(k, c).no = 0
      /\ ~IsStop(Reply("notrunning", c)) /\ Reply("notrunning", c).no = 0
  BY DEF Reply, IsStop, StopKinds
<1> HIDE DEF Grown
<1>10. CASE GdbQuery \/ GdbInsert \/ GdbWatch
  <2>1. PICK k \in {"done", "error"} : Answer(k)
    BY <1>10 DEF GdbQuery, GdbInsert, GdbWatch
  <2>2. app' = app
    BY <1>10 DEF GdbQuery, GdbInsert, GdbWatch
  <2> QED
    BY <1>2, <1>3, <1>5, <1>9, <2>1, <2>2 DEF Grown
<1>11. CASE GdbCall
  <2>1. app' = app
    BY <1>11 DEF GdbCall
  <2>2. CASE \E k \in {"done", "error"} : Answer(k)
    BY <1>2, <1>3, <1>5, <1>9, <2>1, <2>2 DEF Grown
  <2>3. CASE Put2(Reply("value", c), Reply("done", c))
    <3>1. /\ Grown /\ Len(gdb_stdout') = Len(gdb_stdout) + 2
          /\ gdb_stdout'[Len(gdb_stdout) + 1] = Reply("value", c)
          /\ gdb_stdout'[Len(gdb_stdout) + 2] = Reply("done", c)
      BY <1>4, <1>6, <2>3
    <3>2. \A i \in Len(gdb_stdout) + 1 .. Len(gdb_stdout') :
            ~IsStop(gdb_stdout'[i]) /\ gdb_stdout'[i].kind # "notrunning"
              /\ gdb_stdout'[i].no = 0
      BY <1>8, <1>9, <3>1
    <3> QED
      BY <1>2, <1>3, <2>1, <3>1, <3>2 DEF Grown
  <2> QED
    BY <1>11, <2>2, <2>3 DEF GdbCall
<1>12. CASE Resume
  <2>1. Answer("running") /\ c.op \in ExecOps
    BY <1>12 DEF Resume, Execute
  <2> QED
    BY <1>2, <1>3, <1>5, <1>9, <1>12, <2>1 DEF Grown, Resume, IsResumed
<1>13. CASE ResumeFaulted
  <2>1. /\ app = "faulted" /\ app' = "dead" /\ c.op \in ExecOps
        /\ Put2(Reply("running", c), Stop("SIGSEGV", 0))
    BY <1>13 DEF ResumeFaulted, Execute
  <2>2. Stop("SIGSEGV", 0) \in Line
    BY StopTypes DEF Kinds, StopKinds
  <2>3. /\ Grown /\ Len(gdb_stdout') = Len(gdb_stdout) + 2
        /\ gdb_stdout'[Len(gdb_stdout) + 1] = Reply("running", c)
        /\ gdb_stdout'[Len(gdb_stdout) + 2] = Stop("SIGSEGV", 0)
    BY <1>4, <1>6, <2>1, <2>2
  <2>4. Stop("SIGSEGV", 0).kind = "SIGSEGV" /\ Stop("SIGSEGV", 0).no = 0
    BY DEF Stop
  <2>5. \A i \in Len(gdb_stdout) + 1 .. Len(gdb_stdout') :
          /\ gdb_stdout'[i].no = 0 /\ gdb_stdout'[i].kind # "notrunning"
          /\ IsStop(gdb_stdout'[i]) => i = Len(gdb_stdout') /\ gdb_stdout'[i].kind = "SIGSEGV"
    BY <1>8, <1>9, <2>3, <2>4
  <2> QED
    BY <1>2, <1>3, <2>1, <2>3, <2>5 DEF Grown
<1>14. CASE RefuseResume
  <2>1. PICK k \in {"notrunning", "error"} :
          /\ Answer(k)
          /\ k = "notrunning" => app \in {"none", "dead"}
    BY <1>14 DEF RefuseResume
  <2>2. c.op \in ExecOps \ {"run"} /\ app' = app
    BY <1>14 DEF RefuseResume, Execute
  <2> QED
    BY <1>2, <1>3, <1>5, <1>9, <2>1, <2>2 DEF Grown
<1>15. CASE GdbExit
  <2>1. gdb_stdout' = gdb_stdout /\ app' = "gone" /\ c.op = "exit"
    BY <1>15 DEF GdbExit, Execute
  <2> QED
    BY <1>2, <1>3, <1>7, <1>8, <2>1 DEF Grown
<1> QED
  BY <1>10, <1>11, <1>12, <1>13, <1>14, <1>15 DEF GdbExecute

(* The application runs: it adds a line, a stop if it no longer runs, with *)
(* the number of a breakpoint when that is what stopped it.                *)
Numbered == {"breakpoint-hit", "watchpoint-trigger", "watchpoint-scope"}

(* What opd knows is untouched; the application says one line, and a stop  *)
(* is the last.                                                            *)
LEMMA AppLines ==
  ASSUME TypeOK, AppRuns
  PROVE  /\ UNCHANGED <<opd, gdb_stdin, sent, blame>>
         /\ Len(bps') = Len(bps)
         /\ sigint = FALSE => sigint' = FALSE
         /\ \/ app' = app /\ gdb_stdout' = gdb_stdout
            \/ \E l \in Line :
                 /\ gdb_stdout' = Append(gdb_stdout, l) /\ Running
                 /\ IF IsStop(l)
                      THEN /\ app' = CASE l.kind = "SIGSEGV" -> "faulted"
                                       [] l.kind = "exited"  -> "dead"
                                       [] OTHER              -> "stopped"
                           /\ l.id = 0
                      ELSE app' = app /\ l.kind \in {"output", "console"}
                 /\ IF l.kind \in Numbered THEN l.no \in 1 .. Len(bps) ELSE l.no = 0
                 /\ l.kind = "end-stepping-range" => app \in {"next", "step"}
                 /\ l.kind = "function-finished" => app = "finish"
                 /\ l.kind = "SIGINT" => sigint
<1>0. /\ bps \in Seq([kind : {"break", "watch"}, fn : Functions, live : BOOLEAN])
      /\ Len(bps) \in Nat /\ DOMAIN bps = 1 .. Len(bps)
  BY TypesOfTables
<1>1. ASSUME NEW k \in StopKinds, NEW n \in Nat, NEW then, AppStops(k, n, then)
      PROVE  /\ UNCHANGED <<opd, gdb_stdin, sent, blame>>
             /\ Stop(k, n) \in Line /\ gdb_stdout' = Append(gdb_stdout, Stop(k, n)) /\ Running
             /\ IsStop(Stop(k, n)) /\ Stop(k, n).kind = k /\ Stop(k, n).no = n
             /\ Stop(k, n).id = 0 /\ app' = then
  BY <1>1, StopTypes DEF AppStops, Put, Kinds, IsStop, Stop
<1>2. CASE AppHits
  <2>1. PICK k \in {"breakpoint-hit", "watchpoint-trigger"}, n \in DOMAIN bps :
          AppStops(k, n, "stopped") /\ bps' = bps /\ sigint' = sigint
    BY <1>2 DEF AppHits, Armed
  <2>2. k \in StopKinds /\ n \in Nat /\ n \in 1 .. Len(bps)
    BY <1>0 DEF StopKinds
  <2> QED
    BY <1>1, <2>1, <2>2 DEF Numbered
<1>3. CASE AppLeavesScope
  <2>1. PICK n \in DOMAIN bps : /\ AppStops("watchpoint-scope", n, "stopped")
                                /\ bps' = [bps EXCEPT ![n].live = FALSE] /\ sigint' = sigint
    BY <1>3 DEF AppLeavesScope, Armed
  <2>2. Len(bps') = Len(bps)
    BY <1>0, <2>1
  <2>3. "watchpoint-scope" \in StopKinds /\ n \in Nat /\ n \in 1 .. Len(bps)
    BY <1>0 DEF StopKinds
  <2> QED
    BY <1>1, <2>1, <2>2, <2>3 DEF Numbered
<1>4. CASE AppSteps
  <2>1. \/ app \in {"next", "step"} /\ AppStops("end-stepping-range", 0, "stopped")
        \/ app = "finish" /\ AppStops("function-finished", 0, "stopped")
    BY <1>4 DEF AppSteps
  <2>2. bps' = bps /\ sigint' = sigint
    BY <1>4 DEF AppSteps
  <2>3. "end-stepping-range" \in StopKinds /\ "function-finished" \in StopKinds
    BY DEF StopKinds
  <2>4. PICK k \in {"end-stepping-range", "function-finished"} :
          /\ AppStops(k, 0, "stopped")
          /\ k = "end-stepping-range" => app \in {"next", "step"}
          /\ k = "function-finished" => app = "finish"
    BY <2>1
  <2>5. /\ UNCHANGED <<opd, gdb_stdin, sent, blame>>
        /\ Stop(k, 0) \in Line /\ gdb_stdout' = Append(gdb_stdout, Stop(k, 0)) /\ Running
        /\ IsStop(Stop(k, 0)) /\ Stop(k, 0).kind = k /\ Stop(k, 0).no = 0
        /\ Stop(k, 0).id = 0 /\ app' = "stopped"
    BY <1>1, <2>3, <2>4
  <2> QED
    BY <2>2, <2>4, <2>5 DEF Numbered
<1>5. CASE AppSignalled
  <2>1. \/ AppStops("SIGSEGV", 0, "faulted") /\ sigint' = sigint
        \/ AppStops("signal", 0, "stopped") /\ sigint' = sigint
        \/ AppStops("SIGINT", 0, "stopped") /\ sigint /\ sigint' = FALSE
    BY <1>5 DEF AppSignalled
  <2>2. bps' = bps
    BY <1>5 DEF AppSignalled
  <2>3. "SIGSEGV" \in StopKinds /\ "signal" \in StopKinds /\ "SIGINT" \in StopKinds
    BY DEF StopKinds
  <2>4. sigint = FALSE => sigint' = FALSE
    BY <2>1
  <2>5. PICK k \in {"SIGSEGV", "signal", "SIGINT"}, then \in {"stopped", "faulted"} :
          /\ AppStops(k, 0, then)
          /\ then = IF k = "SIGSEGV" THEN "faulted" ELSE "stopped"
          /\ k = "SIGINT" => sigint
    BY <2>1
  <2>6. /\ UNCHANGED <<opd, gdb_stdin, sent, blame>>
        /\ Stop(k, 0) \in Line /\ gdb_stdout' = Append(gdb_stdout, Stop(k, 0)) /\ Running
        /\ IsStop(Stop(k, 0)) /\ Stop(k, 0).kind = k /\ Stop(k, 0).no = 0
        /\ Stop(k, 0).id = 0 /\ app' = then
    BY <1>1, <2>3, <2>5
  <2> QED
    BY <2>2, <2>4, <2>5, <2>6 DEF Numbered
<1>6. CASE AppExits
  <2>1. /\ Plain("exited") \in Line /\ IsStop(Plain("exited"))
        /\ Plain("exited").kind = "exited" /\ Plain("exited").no = 0 /\ Plain("exited").id = 0
    BY StopTypes DEF Plain, Kinds, StopKinds, IsStop
  <2> QED
    BY <1>6, <2>1 DEF AppExits, Put, Numbered
<1>7. CASE AppWrites
  <2>1. UNCHANGED <<opd, gdb_stdin, gdb, sent, blame>>
    BY <1>7 DEF AppWrites
  <2>2. CASE gdb_stdout' = gdb_stdout
    BY <2>1, <2>2 DEF gdb
  <2>3. CASE \E k \in {"output", "console"} : Running /\ Put(Plain(k))
    <3>1. PICK k \in {"output", "console"} : Running /\ Put(Plain(k))
      BY <2>3
    <3>2. Plain(k) \in Line /\ ~IsStop(Plain(k)) /\ Plain(k).kind = k /\ Plain(k).no = 0
      BY StopTypes DEF Plain, Kinds, StopKinds, IsStop
    <3> QED
      BY <2>1, <3>1, <3>2 DEF gdb, Put, Numbered
  <2> QED
    BY <1>7, <2>2, <2>3 DEF AppWrites
<1> QED
  BY <1>2, <1>3, <1>4, <1>5, <1>6, <1>7 DEF AppRuns

(* main reads an event: a line of stderr, or the next record of gdb.       *)
LEMMA ReadIs ==
  ASSUME TypeOK, ReadEvent
  PROVE  /\ wait = "none" /\ UNCHANGED <<breakpoints, step_function, child_pid, asked, wait,
                                         gdb_stdin, gdb, sent, events, blame>>
         /\ \/ line' = Plain("stderr") /\ event' = "GDB_STDERR" /\ gdb_stdout' = gdb_stdout
            \/ /\ app # "gone" /\ gdb_stdout # <<>>
               /\ line' = Head(gdb_stdout) /\ gdb_stdout' = Tail(gdb_stdout)
               /\ event' = EventOfKind[line'.kind]
            \/ app = "gone" /\ line' = line /\ event' = "GDB_STDERR" /\ gdb_stdout' = gdb_stdout
<1>1. PICK l \in Incoming : gdb_next_event(l) /\ line' = l
  BY DEF ReadEvent
<1>2. gdb_stderr \in Nat
  BY DEF TypeOK
<1> QED
  BY <1>1, <1>2 DEF ReadEvent, gdb_next_event

(* The event of a record.                                                  *)
LEMMA EventFacts ==
  ASSUME NEW k \in Kinds
  PROVE  /\ EventOfKind[k] \in {"GDB_BRKPNT", "GDB_WPT", "GDB_WPS"} <=> k \in Numbered
         /\ EventOfKind[k] = "GDB_STEP" <=> k = "end-stepping-range"
         /\ EventOfKind[k] = "GDB_SIGSEG" <=> k = "SIGSEGV"
         /\ EventOfKind[k] = "GDB_PRGEXT" <=> k \in {"signal", "exited", "notrunning"}
         /\ EventOfKind[k] = "GDB_FINISH" <=> k = "function-finished"
         /\ EventOfKind[k] = "GDB_SIGINT" <=> k = "SIGINT"
         /\ EventOfKind[k] \in Events
BY DEF EventOfKind, Kinds, StopKinds, FinalKinds, Numbered, Events

(* A command of a procedure that calls gdbmi.c: what it sends, and the     *)
(* loop it leaves opd in.                                                  *)
Calls == {"gdb_call", "gdb_setPID"}

Sends(c) ==
  \E op \in Ops, fn \in Functions \cup {NoFunction} :
    LET new == [op |-> op, fn |-> fn, id |-> sent + 1]
    IN  /\ new \in Command /\ gdb_stdin' = Append(gdb_stdin, new)
        /\ c.do \in Asks => op \in AskOps /\ wait' = "response" /\ asked' = new
        /\ c.do \in Calls => op \in CallOps /\ wait' = "value" /\ asked' = new
        /\ c.do \notin Asks \cup Calls => wait' = "none" /\ asked' = asked
        /\ c.do \notin Asks \cup Calls \cup {"gdb_set_arguments"} => op \in ExecOps
        /\ op \in ExecOps => c.do \in Resumes \cup {"gdb_start_run"}
        /\ op = "run" <=> c.do = "gdb_start_run"
        /\ op = "next" <=> c.do = "gdb_stepNext"
        /\ op = "step" <=> c.do = "gdb_step"
        /\ op = "finish" <=> c.do = "gdb_stepFinish"
        /\ op # "exit"

(* A command of a procedure leaves opd where Command says, and is one      *)
(* command more on the pipe.                                               *)
LEMMA EvalFacts ==
  ASSUME TypeOK, CodeInv, EvalGdb
  PROVE  /\ code # <<>> /\ Head(code) \in Commands /\ code' = Tail(code)
         /\ Head(code).do \in Asks \cup Calls \cup Resumes \cup {"gdb_set_arguments", "gdb_start_run"}
         /\ wait = "none" /\ app # "gone" /\ sent < MaxCommands /\ sent' = sent + 1
         /\ Head(code).do \in {"gdb_set_arguments", "gdb_start_run"} => ~Launched
         /\ UNCHANGED <<child_pid, line, event, gdb_stdout, gdb_stderr, gdb, events>>
         /\ UNCHANGED <<phase, exitflag, log, aborted, history>>
         /\ IF Head(code).do = "gdb_step"
              THEN step_function' \in Functions ELSE step_function' = step_function
         /\ blame' = (IF Head(code).do = "gdb_set_arguments"
                       THEN blame \cup {"arguments"} ELSE blame)
         /\ Sends(Head(code))
<1> DEFINE c == Head(code)
<1>1. /\ code # <<>> /\ code' = Tail(code) /\ CallsGdb(c) /\ wait = "none"
      /\ UNCHANGED <<phase, exitflag, log, aborted, history>>
  BY DEF EvalGdb, Evaluating
<1>2. c \in Commands
  BY <1>1 DEF CodeInv
<1>3. c.do \in BindOps => c.arg \in Functions
  BY <1>2, BindsFunctions
<1>4. ASSUME NEW op \in Ops, NEW f \in Functions \cup {NoFunction}, Write(op, f),
             IF op \in {"break", "watch"} THEN f \in Functions ELSE f = NoFunction
      PROVE  /\ [op |-> op, fn |-> f, id |-> sent + 1] \in Command
             /\ gdb_stdin' = Append(gdb_stdin, [op |-> op, fn |-> f, id |-> sent + 1])
             /\ app # "gone" /\ sent < MaxCommands /\ sent' = sent + 1 /\ wait = "none"
             /\ UNCHANGED <<child_pid, line, event, gdb_stdout, gdb_stderr, gdb, events>>
  BY <1>4, WriteTypes DEF Write
<1> HIDE DEF c
<1> USE DEF Ops, ExecOps, AskOps, CallOps, Asks, Calls, Resumes
<1>5. CASE c.do \in {"gdb_set_arguments", "gdb_start_run", "gdb_continue", "gdb_stepNext",
                     "gdb_step", "gdb_stepFinish"}
  <2>1. PICK op \in ExecOps \cup {"arguments"} :
          /\ Write(op, NoFunction) /\ wait' = wait /\ asked' = asked
          /\ op = CASE c.do = "gdb_set_arguments" -> "arguments"
                    [] c.do = "gdb_start_run"     -> "run"
                    [] c.do = "gdb_continue"      -> "continue"
                    [] c.do = "gdb_stepNext"      -> "next"
                    [] c.do = "gdb_step"          -> "step"
                    [] c.do = "gdb_stepFinish"    -> "finish"
    BY <1>1, <1>5 DEF CallsGdb, gdb_set_arguments, gdb_start_run, gdb_continue, gdb_stepNext,
                      gdb_step, gdb_stepFinish, Fire
  <2>2. op = "arguments" <=> c.do = "gdb_set_arguments"
    BY <1>5, <2>1
  <2>3. c.do \in {"gdb_set_arguments", "gdb_start_run"} => ~Launched
    BY <1>1 DEF CallsGdb, gdb_set_arguments, gdb_start_run
  <2>4. IF c.do = "gdb_step" THEN step_function' \in Functions ELSE step_function' = step_function
    BY <1>1, <1>3, <1>5 DEF CallsGdb, gdb_set_arguments, gdb_start_run, gdb_continue,
                      gdb_stepNext, gdb_step, gdb_stepFinish, BindOps
  <2>5. blame' = (IF c.do = "gdb_set_arguments" THEN blame \cup {"arguments"} ELSE blame)
    BY <1>1, <1>5 DEF CallsGdb, gdb_set_arguments, gdb_start_run, gdb_continue,
                      gdb_stepNext, gdb_step, gdb_stepFinish
  <2>6. /\ [op |-> op, fn |-> NoFunction, id |-> sent + 1] \in Command
        /\ gdb_stdin' = Append(gdb_stdin, [op |-> op, fn |-> NoFunction, id |-> sent + 1])
        /\ app # "gone" /\ sent < MaxCommands /\ sent' = sent + 1 /\ wait = "none"
        /\ UNCHANGED <<child_pid, line, event, gdb_stdout, gdb_stderr, gdb, events>>
    BY <1>4, <2>1
  <2>7. Sends(c)
    BY <1>1, <1>5, <2>1, <2>2, <2>6 DEF Sends
  <2> QED
    BY <1>1, <1>2, <1>5, <2>3, <2>4, <2>5, <2>6, <2>7 DEF c
<1>6. CASE c.do \in {"gdb_setBreakpoint", "gdb_setWatchpoint", "query", "gdb_call", "gdb_setPID"}
  <2>1. PICK op \in AskOps \cup CallOps, f \in Functions \cup {NoFunction} :
          /\ Write(op, f) /\ asked' = [op |-> op, fn |-> f, id |-> sent + 1]
          /\ IF op \in {"break", "watch"} THEN f \in Functions ELSE f = NoFunction
          /\ wait' = (IF c.do \in Calls THEN "value" ELSE "response")
          /\ op \in CallOps <=> c.do \in Calls
          /\ step_function' = step_function /\ blame' = blame
    BY <1>1, <1>3, <1>6 DEF CallsGdb, gdb_setBreakpoint, gdb_setWatchpoint, gdb_query, gdb_call,
                      gdb_setPID, Ask, BindOps
  <2>2. /\ [op |-> op, fn |-> f, id |-> sent + 1] \in Command
        /\ gdb_stdin' = Append(gdb_stdin, [op |-> op, fn |-> f, id |-> sent + 1])
        /\ app # "gone" /\ sent < MaxCommands /\ sent' = sent + 1 /\ wait = "none"
        /\ UNCHANGED <<child_pid, line, event, gdb_stdout, gdb_stderr, gdb, events>>
    BY <1>4, <2>1
  <2>3. Sends(c)
    BY <1>1, <1>6, <2>1, <2>2 DEF Sends
  <2> QED
    BY <1>1, <1>2, <1>6, <2>1, <2>2, <2>3 DEF c
<1> QED
  BY <1>1, <1>5, <1>6 DEF CallsGdb

----------------------------------------------------------------------------
(* The variables of opd.c keep their ranges.                               *)
StopRecords == {l \in Line : IsStop(l)}
Rows == {[key |-> c.arg[1], x |-> c.arg[2], of |-> c.arg[3], line |-> l, asked |-> n] :
           c \in Commands, l \in Line, n \in Nat}

OpdTypes ==
  /\ TypeOK /\ CodeInv
  /\ phase \in {"setup", "loop", "ended", "crashed"}
  /\ exitflag \in {0, 1, 2} /\ aborted \in BOOLEAN
  /\ log \in Seq(Rows) /\ trace \in Seq(StopRecords)
  /\ current \in Seq(StopRecords) /\ journal \in Seq(StopRecords)
  /\ asked.id <= sent /\ \A i \in DOMAIN log : log[i].asked <= sent

(* A row that a step of opd appends to the log.                            *)
LEMMA LogsRow ==
  ASSUME TypeOK, CodeInv, log \in Seq(Rows), db_logMessage
  PROVE  \E row \in Rows :
           /\ log' = Append(log, row)
           /\ row.key = Head(code).arg[1] /\ row.x = Head(code).arg[2]
           /\ row.of = Head(code).arg[3] /\ row.line = line /\ row.asked = asked.id
<1> DEFINE row == [key |-> Head(code).arg[1], x |-> Head(code).arg[2],
                   of |-> Head(code).arg[3], line |-> line, asked |-> asked.id]
<1>1. Head(code) \in Commands /\ line \in Line /\ asked.id \in Nat
  BY DEF db_logMessage, Evaluating, CodeInv, TypeOK, Command
<1>2. row \in Rows
  BY <1>1 DEF Rows
<1>3. log' = Append(log, row)
  BY DEF db_logMessage
<1> QED
  BY <1>2, <1>3

(* What gdb or the application reports enters the history of stops.        *)
LEMMA ObserveTypes ==
  ASSUME gdb_stdout \in Seq(Line), gdb_stdout' \in Seq(Line), trace \in Seq(StopRecords), Observe
  PROVE  trace' \in Seq(StopRecords)
<1>1. CASE Reports
  <2>1. Len(gdb_stdout') \in 1 .. Len(gdb_stdout')
    BY <1>1, SeqFacts DEF Reports
  <2>2. Newest \in Line
    BY <2>1, SeqFacts DEF Newest
  <2> QED
    BY <2>2, AppendFacts DEF Observe, StopRecords
<1>2. CASE ~Reports
  BY <1>2 DEF Observe
<1> QED
  BY <1>1, <1>2

(* Every step of opd, of gdb and of the application keeps the ranges.      *)
LEMMA OpdTypesKept == OpdTypes /\ [OpdNext]_opdVars => OpdTypes'
<1> SUFFICES ASSUME OpdTypes, [OpdNext]_opdVars PROVE OpdTypes'
  OBVIOUS
<1>0. TypeOK /\ CodeInv
  BY DEF OpdTypes
<1>1. TypeOK' /\ CodeInv'
  BY <1>0, OpdStepImplements, TypesKept
<1>2. sent \in Nat /\ asked.id \in Nat /\ \A i \in DOMAIN log : log[i].asked \in Nat
  <2>1. sent \in Nat /\ asked.id \in Nat
    BY <1>0 DEF TypeOK, Command
  <2>2. \A i \in DOMAIN log : log[i] \in Rows
    BY DEF OpdTypes
  <2> QED
    BY <2>1, <2>2 DEF Rows
<1>3. CASE EvalGdb
  <2>1. /\ sent' = sent + 1 /\ UNCHANGED <<phase, exitflag, log, aborted, history>>
        /\ Sends(Head(code))
    BY <1>0, <1>3, EvalFacts
  <2>2. asked' = asked \/ asked'.id = sent + 1
    BY <2>1 DEF Sends
  <2> QED
    BY <1>1, <1>2, <2>1, <2>2 DEF OpdTypes, history
<1>4. CASE db_logMessage
  <2>1. PICK row \in Rows : log' = Append(log, row) /\ row.asked = asked.id
    BY <1>0, <1>4, LogsRow DEF OpdTypes
  <2>2. log \in Seq(Rows) /\ journal \in Seq(StopRecords) /\ current \in Seq(StopRecords)
    BY DEF OpdTypes
  <2>3. log' \in Seq(Rows) /\ \A i \in DOMAIN log' : \/ i \in DOMAIN log /\ log'[i] = log[i]
                                                     \/ log'[i] = row
    BY <2>1, <2>2, AppendFacts
  <2>4. journal' \in Seq(StopRecords) /\ current' \in Seq(StopRecords)
    BY <1>4, <2>2 DEF db_logMessage
  <2>5. UNCHANGED <<vars, phase, exitflag, aborted, trace>>
    BY <1>4 DEF db_logMessage
  <2> QED
    BY <1>1, <2>1, <2>3, <2>4, <2>5 DEF OpdTypes, vars, opd
<1>5. CASE opd_setExit
  BY <1>1, <1>5 DEF opd_setExit, OpdTypes, vars, opd, history
<1>6. CASE Await
  <2>1. asked' = asked /\ sent' = sent
    BY <1>6 DEF Await, Read, ReadEvent, gdb_getresponse, ReadValue, gdb_waitforprompt,
                ReadSigint, gdb_next_event
  <2> QED
    BY <1>1, <1>6, <2>1 DEF Await, OpdTypes, session, history
<1>7. CASE StartLoop
  BY <1>1, <1>7 DEF StartLoop, OpdTypes, vars, opd, history
<1>8. CASE Dispatch
  <2>1. asked' = asked /\ sent' = sent
    BY <1>0, <1>8, ReadIs DEF Dispatch
  <2>2. line' \in Line
    BY <1>1 DEF TypeOK
  <2>3. current' \in Seq(StopRecords)
    <3>1. current' = (IF IsStop(line') THEN <<line'>> ELSE <<>>)
      BY <1>8 DEF Dispatch, IsStop
    <3>2. CASE IsStop(line')
      <4>1. line' \in StopRecords
        BY <2>2, <3>2 DEF StopRecords
      <4> QED
        BY <3>1, <3>2, <4>1
    <3>3. CASE ~IsStop(line')
      BY <3>1, <3>3
    <3> QED
      BY <3>2, <3>3
  <2>4. phase' \in {"loop", "crashed"} /\ exitflag' \in {0, 2}
    BY <1>8 DEF Dispatch
  <2>5. UNCHANGED <<log, aborted, trace, journal>>
    BY <1>8 DEF Dispatch
  <2> QED
    BY <1>1, <2>1, <2>3, <2>4, <2>5 DEF OpdTypes
<1>9. CASE opd_exit
  <2>1. asked' = asked /\ sent' = sent + 1
    BY <1>9 DEF opd_exit, gdb_exit, Fire, Write
  <2>2. aborted' \in BOOLEAN
    BY <1>9, Zenon DEF opd_exit
  <2>3. phase' = "ended" /\ UNCHANGED <<exitflag, log, history>>
    BY <1>9 DEF opd_exit
  <2> QED
    BY <1>1, <1>2, <2>1, <2>2, <2>3 DEF OpdTypes, history
<1>10. CASE GdbStep
  <2>1. asked' = asked /\ sent' = sent
    BY <1>0, <1>10, GdbLines DEF GdbStep, opd
  <2>2. trace' \in Seq(StopRecords)
    BY <1>0, <1>1, <1>10, ObserveTypes DEF GdbStep, OpdTypes, TypeOK
  <2> QED
    BY <1>1, <1>10, <2>1, <2>2 DEF GdbStep, OpdTypes, session
<1>11. CASE AppStep
  <2>1. asked' = asked /\ sent' = sent
    BY <1>0, <1>11, AppLines DEF AppStep, opd
  <2>2. trace' \in Seq(StopRecords)
    BY <1>0, <1>1, <1>11, ObserveTypes DEF AppStep, OpdTypes, TypeOK
  <2> QED
    BY <1>1, <1>11, <2>1, <2>2 DEF AppStep, OpdTypes, session
<1>12. CASE UNCHANGED opdVars
  BY <1>1, <1>12 DEF opdVars, session, history, vars, opd, OpdTypes
<1> QED
  BY <1>3, <1>4, <1>5, <1>6, <1>7, <1>8, <1>9, <1>10, <1>11, <1>12 DEF OpdNext, OpdStep

(* They hold before gdb has said anything.                                 *)
LEMMA OpdTypesInitially == OpdInit => OpdTypes
<1> SUFFICES ASSUME OpdInit PROVE OpdTypes
  OBVIOUS
<1>1. TypeOK /\ CodeInv
  BY OpdStarts, TypesInitially
<1>2. asked.id = 0 /\ sent = 0
  BY DEF OpdInit, Init
<1>3. <<>> \in Seq(Rows) /\ <<>> \in Seq(StopRecords)
  OBVIOUS
<1>4. /\ phase = "setup" /\ exitflag = 0 /\ log = <<>> /\ aborted = FALSE
      /\ trace = <<>> /\ current = <<>> /\ journal = <<>>
  BY DEF OpdInit
<1>5. \A i \in DOMAIN log : log[i].asked <= sent
  BY <1>4
<1>6. /\ exitflag \in {0, 1, 2} /\ asked.id <= sent
      /\ phase \in {"setup", "loop", "ended", "crashed"}
  BY <1>2, <1>4
<1>7. aborted \in BOOLEAN
  BY <1>4, Zenon
<1>8. /\ log \in Seq(Rows) /\ trace \in Seq(StopRecords)
      /\ current \in Seq(StopRecords) /\ journal \in Seq(StopRecords)
  BY <1>3, <1>4
<1> QED
  BY <1>1, <1>5, <1>6, <1>7, <1>8, Zenon DEF OpdTypes

(* opd.c's variables, the rows it writes and the history of stops stay in  *)
(* their ranges in every session of every script, crashed or ended ones    *)
(* included.                                                               *)
THEOREM OpdTypesInvariant == OpdSpec => []OpdTypes
BY OpdTypesInitially, OpdTypesKept, PTL DEF OpdSpec

(* The ranges the model-checking run states follow.                        *)
THEOREM OpdTypeCorrect == OpdSpec => []OpdTypeOK
<1>1. OpdTypes => OpdTypeOK
  <2> SUFFICES ASSUME OpdTypes PROVE OpdTypeOK
    OBVIOUS
  <2>1. \A i \in DOMAIN log : log[i].line \in Line /\ log[i].asked \in Nat
    <3>1. \A i \in DOMAIN log : log[i] \in Rows
      BY DEF OpdTypes
    <3> QED
      BY <3>1 DEF Rows
  <2>2. /\ \A i \in DOMAIN trace : IsStop(trace[i])
        /\ \A i \in DOMAIN journal : IsStop(journal[i])
    <3>1. /\ \A i \in DOMAIN trace : trace[i] \in StopRecords
          /\ \A i \in DOMAIN journal : journal[i] \in StopRecords
      BY DEF OpdTypes
    <3> QED
      BY <3>1 DEF StopRecords
  <2>3. sent \in Nat /\ \A i \in DOMAIN log : log[i].asked <= sent
    BY DEF OpdTypes, TypeOK
  <2> QED
    BY <2>1, <2>2, <2>3 DEF OpdTypes, OpdTypeOK
<1> QED
  BY <1>1, OpdTypesInvariant, PTL

----------------------------------------------------------------------------
(* What main evaluates for the line it reads.                              *)
Quiets == {opd_dispatchStdErr, opd_dispatchGDB, opd_dispatchStdOut, opd_dispatchPrgExt, <<>>}

(* The procedures of opd.tcl for lines that need nothing done only log.    *)
LEMMA QuietFacts ==
  \A p \in Quiets : \A i \in DOMAIN p :
    p[i].do = "log" /\ ~IsAnswer(p[i]) /\ p[i].arg[1] # "opd.SEGFAULT"
<1>1. \A key, x : /\ Log(key, x, "event").do = "log" /\ ~IsAnswer(Log(key, x, "event"))
                  /\ Log(key, x, "event").arg[1] = key
  BY DEF Log, Cmd, IsAnswer
<1>2. \A a : LET s == <<a>> IN \A i \in DOMAIN s : s[i] = a
  OBVIOUS
<1>3. \A i \in DOMAIN <<>> : FALSE
  OBVIOUS
<1>4. \A p \in Quiets :
        \/ p = <<>>
        \/ \E key : key # "opd.SEGFAULT" /\ p = <<Log(key, "", "event")>>
  <2>1. /\ "opd.stdErr" # "opd.SEGFAULT" /\ "opd.gdb" # "opd.SEGFAULT"
        /\ "opd.stdOut" # "opd.SEGFAULT" /\ "opd.PrgExt" # "opd.SEGFAULT"
    OBVIOUS
  <2> QED
    BY <2>1, Zenon DEF Quiets, opd_dispatchStdErr, opd_dispatchGDB, opd_dispatchStdOut, opd_dispatchPrgExt
<1> QED
  <2> SUFFICES ASSUME NEW p \in Quiets, NEW i \in DOMAIN p
               PROVE  p[i].do = "log" /\ ~IsAnswer(p[i]) /\ p[i].arg[1] # "opd.SEGFAULT"
    OBVIOUS
  <2>1. PICK key : key # "opd.SEGFAULT" /\ p = <<Log(key, "", "event")>>
    BY <1>3, <1>4
  <2>2. p[i] = Log(key, "", "event")
    BY <1>2, <2>1
  <2>3. /\ Log(key, "", "event").do = "log" /\ ~IsAnswer(Log(key, "", "event"))
        /\ Log(key, "", "event").arg[1] = key
    BY <1>1
  <2> QED
    BY <2>1, <2>2, <2>3, Zenon

(* opd_dispatchOther logs and ends the session.                            *)
LEMMA OtherFacts ==
  /\ DOMAIN opd_dispatchOther = 1 .. 2
  /\ opd_dispatchOther[1].do = "log" /\ ~IsAnswer(opd_dispatchOther[1])
  /\ opd_dispatchOther[1].arg[1] # "opd.SEGFAULT"
  /\ opd_dispatchOther[2].do = "opd_setExit"
<1>1. \A key, x : /\ Log(key, x, "event").do = "log" /\ ~IsAnswer(Log(key, x, "event"))
                  /\ Log(key, x, "event").arg[1] = key
  BY DEF Log, Cmd, IsAnswer
<1>2. Do("opd_setExit").do = "opd_setExit"
  BY DEF Do, Cmd
<1>3. \A a, b : LET s == <<a, b>> IN DOMAIN s = 1 .. 2 /\ s[1] = a /\ s[2] = b
  OBVIOUS
<1>4. /\ DOMAIN opd_dispatchOther = 1 .. 2
      /\ opd_dispatchOther[1] = Log("opd.Unknwn", "", "event")
      /\ opd_dispatchOther[2] = Do("opd_setExit")
  BY <1>3 DEF opd_dispatchOther
<1>5. "opd.Unknwn" # "opd.SEGFAULT"
  OBVIOUS
<1>6. opd_dispatchOther[1].do = "log" /\ ~IsAnswer(opd_dispatchOther[1])
  BY <1>1, <1>4, Zenon
<1>7. opd_dispatchOther[1].arg[1] # "opd.SEGFAULT"
  BY <1>1, <1>4, <1>5, Zenon
<1>8. opd_dispatchOther[2].do = "opd_setExit"
  BY <1>2, <1>4, Zenon
<1> QED
  BY <1>4, <1>6, <1>7, <1>8, Zenon

(* opd_dispatchSigSeg logs the stop, the stack and the locals, and ends it. *)
LEMMA SigSegFacts ==
  /\ DOMAIN opd_dispatchSigSeg = 1 .. 6
  /\ \A i \in {1, 3, 5} : opd_dispatchSigSeg[i].do = "log"
  /\ \A i \in {2, 4} : opd_dispatchSigSeg[i].do = "query"
  /\ opd_dispatchSigSeg[6].do = "opd_setExit"
  /\ ~IsAnswer(opd_dispatchSigSeg[1])
<1> DEFINE Row(x, of) == Log("opd.SEGFAULT", x, of)
<1>1. /\ \A x, of : Row(x, of).do = "log"
      /\ \A x : ~IsAnswer(Row(x, "event"))
      /\ \A x : Query(x, "").do = "query"
      /\ Do("opd_setExit").do = "opd_setExit"
  BY DEF Log, Query, Do, Cmd, IsAnswer
<1>2. opd_dispatchSigSeg = <<Row("", "event"), Query("stack", ""), Row("stack", "answer"),
                             Query("locals", ""), Row("locals", "answer"), Do("opd_setExit")>>
  BY DEF opd_dispatchSigSeg
<1> HIDE DEF Row
<1>3. \A a, b, c, d, e, f : LET s == <<a, b, c, d, e, f>>
                            IN  /\ DOMAIN s = 1 .. 6 /\ s[1] = a /\ s[2] = b /\ s[3] = c
                                /\ s[4] = d /\ s[5] = e /\ s[6] = f
  OBVIOUS
<1>4. /\ DOMAIN opd_dispatchSigSeg = 1 .. 6
      /\ opd_dispatchSigSeg[1] = Row("", "event") /\ opd_dispatchSigSeg[2] = Query("stack", "")
      /\ opd_dispatchSigSeg[3] = Row("stack", "answer")
      /\ opd_dispatchSigSeg[4] = Query("locals", "")
      /\ opd_dispatchSigSeg[5] = Row("locals", "answer")
      /\ opd_dispatchSigSeg[6] = Do("opd_setExit")
  BY <1>2, <1>3
<1> QED
  BY <1>1, <1>4

HandlerFacts ==
  /\ event \in {"GDB_BRKPNT", "GDB_WPT", "GDB_WPS"} => Handler(event) = Proc[breakpoints[line.no]]
  /\ event = "GDB_STEP"   => Handler(event) = Proc[step_function]
  /\ event = "GDB_SIGSEG" => Handler(event) = opd_dispatchSigSeg
  /\ event = "GDB_PRGEXT" => Handler(event) = opd_dispatchPrgExt
  /\ event = "GDB_STDERR" => Handler(event) = opd_dispatchStdErr
  /\ event \in {"GDB_FINISH", "GDB_SIGINT"} => Handler(event) = opd_dispatchOther
  /\ event \in {"GDB_GDBMSG", "GDB_STDOUT", "GDB_RUNNING", "GDB_PROMPT"} => Handler(event) \in Quiets
  /\ NoHandler(event) <=>
       \/ event \in {"GDB_BRKPNT", "GDB_WPT", "GDB_WPS"} /\ line.no \notin DOMAIN breakpoints
       \/ event = "GDB_STEP" /\ step_function = NoFunction

(* The cases of Handler, once for all.                                     *)
LEMMA HandlerIs == HandlerFacts
BY DEF HandlerFacts, Handler, NoHandler, Quiets

(* The same of the line just read, which is the one main dispatches.       *)
LEMMA HandlerIsOfRead == HandlerFacts'
BY HandlerIs, PTL

(* main reads one line or reports what stderr has, and evaluates what the  *)
(* kind of the line calls for.                                             *)
LEMMA DispatchIs ==
  ASSUME TypeOK, Dispatch
  PROVE  LET k == line'.kind
         IN  /\ phase = "loop" /\ code = <<>> /\ exitflag = 0 /\ wait = "none"
             /\ UNCHANGED <<breakpoints, step_function, child_pid, asked, wait, gdb_stdin, gdb,
                            sent, events, blame, log, aborted, trace, journal>>
             /\ line' \in Line
             /\ current' = (IF IsStop(line') THEN <<line'>> ELSE <<>>)
             /\ \/ /\ line' = Plain("stderr") \/ app = "gone"
                   /\ gdb_stdout' = gdb_stdout
                   /\ code' \in Quiets /\ phase' = "loop" /\ exitflag' = 0
                \/ /\ app # "gone" /\ gdb_stdout # <<>>
                   /\ line' = Head(gdb_stdout) /\ gdb_stdout' = Tail(gdb_stdout)
                   /\ exitflag' = (IF k \in {"signal", "exited", "notrunning"} THEN 2 ELSE 0)
                   /\ \/ /\ phase' = "crashed" /\ code' = <<>>
                         /\ \/ k \in Numbered /\ line'.no \notin DOMAIN breakpoints
                            \/ k = "end-stepping-range" /\ step_function = NoFunction
                      \/ /\ phase' = "loop"
                         /\ IF k \in Numbered \cup {"end-stepping-range"}
                              THEN \E f \in Functions : code' = Proc[f]
                              ELSE CASE k = "SIGSEGV" -> code' = opd_dispatchSigSeg
                                     [] k \in {"function-finished", "SIGINT"} ->
                                          code' = opd_dispatchOther
                                     [] k \in {"signal", "exited", "notrunning"} ->
                                          code' = opd_dispatchPrgExt
                                     [] OTHER -> code' \in Quiets
<1>1. /\ phase = "loop" /\ code = <<>> /\ exitflag = 0 /\ ReadEvent
      /\ UNCHANGED <<log, aborted, trace, journal>>
      /\ current' = (IF IsStop(line') THEN <<line'>> ELSE <<>>)
      /\ exitflag' = (IF event' = "GDB_PRGEXT" THEN 2 ELSE 0)
      /\ IF NoHandler(event)' THEN phase' = "crashed" /\ code' = <<>>
                              ELSE phase' = "loop" /\ code' = Handler(event)'
  BY DEF Dispatch, IsStop
<1>2. TypeOK'
  <2>1. Next
    BY <1>1 DEF Next, Read
  <2> QED
    BY <2>1, TypesKept
<1>3. line' \in Line /\ line'.kind \in Kinds /\ breakpoints' \in Seq(Functions)
      /\ step_function' \in Functions \cup {NoFunction}
  BY <1>2 DEF TypeOK, Line
<1>4. /\ wait = "none" /\ UNCHANGED <<breakpoints, step_function, child_pid, asked, wait,
                                      gdb_stdin, gdb, sent, events, blame>>
      /\ \/ line' = Plain("stderr") /\ event' = "GDB_STDERR" /\ gdb_stdout' = gdb_stdout
         \/ /\ app # "gone" /\ gdb_stdout # <<>>
            /\ line' = Head(gdb_stdout) /\ gdb_stdout' = Tail(gdb_stdout)
            /\ event' = EventOfKind[line'.kind]
         \/ app = "gone" /\ line' = line /\ event' = "GDB_STDERR" /\ gdb_stdout' = gdb_stdout
  BY <1>1, ReadIs
<1>5. CASE event' = "GDB_STDERR" /\ gdb_stdout' = gdb_stdout
           /\ (line' = Plain("stderr") \/ app = "gone")
  <2>1. ~NoHandler(event)' /\ Handler(event)' = opd_dispatchStdErr
    BY <1>5, HandlerIsOfRead DEF HandlerFacts
  <2>2. code' \in Quiets /\ phase' = "loop" /\ exitflag' = 0
    BY <1>1, <1>5, <2>1 DEF Quiets
  <2> QED
    BY <1>1, <1>3, <1>4, <1>5, <2>2
<1>6. CASE /\ app # "gone" /\ gdb_stdout # <<>>
           /\ line' = Head(gdb_stdout) /\ gdb_stdout' = Tail(gdb_stdout)
           /\ event' = EventOfKind[line'.kind]
  <2> DEFINE k == line'.kind
  <2>1. /\ event' \in {"GDB_BRKPNT", "GDB_WPT", "GDB_WPS"} <=> k \in Numbered
        /\ event' = "GDB_STEP" <=> k = "end-stepping-range"
        /\ event' = "GDB_SIGSEG" <=> k = "SIGSEGV"
        /\ event' = "GDB_PRGEXT" <=> k \in {"signal", "exited", "notrunning"}
        /\ event' = "GDB_FINISH" <=> k = "function-finished"
        /\ event' = "GDB_SIGINT" <=> k = "SIGINT"
        /\ event' \in Events
    BY <1>3, <1>6, EventFacts
  <2> HIDE DEF k
  <2>2. exitflag' = (IF k \in {"signal", "exited", "notrunning"} THEN 2 ELSE 0)
    BY <1>1, <2>1
  <2>3. NoHandler(event)' <=> \/ k \in Numbered /\ line'.no \notin DOMAIN breakpoints'
                              \/ k = "end-stepping-range" /\ step_function' = NoFunction
    BY <2>1, HandlerIsOfRead DEF HandlerFacts
  <2>4. CASE NoHandler(event)'
    BY <1>1, <1>3, <1>4, <1>6, <2>2, <2>3, <2>4 DEF k
  <2>5. CASE ~NoHandler(event)'
    <3>1. phase' = "loop" /\ code' = Handler(event)'
      BY <1>1, <2>5
    <3>2. CASE k \in Numbered
      <4>1. Handler(event)' = Proc[breakpoints'[line'.no]]
        BY <2>1, <3>2, HandlerIsOfRead DEF HandlerFacts
      <4>2. breakpoints'[line'.no] \in Functions
        BY <1>3, <2>3, <2>5, <3>2
      <4> QED
        BY <1>1, <1>3, <1>4, <1>6, <2>2, <3>1, <3>2, <4>1, <4>2 DEF k
    <3>3. CASE k = "end-stepping-range"
      <4>1. Handler(event)' = Proc[step_function'] /\ step_function' \in Functions
        BY <1>3, <2>1, <2>3, <2>5, <3>3, HandlerIsOfRead DEF HandlerFacts
      <4> QED
        BY <1>1, <1>3, <1>4, <1>6, <2>2, <3>1, <3>3, <4>1 DEF k
    <3>4. CASE k = "SIGSEGV"
      <4>1. code' = opd_dispatchSigSeg /\ k \notin Numbered \cup {"end-stepping-range"}
        BY <2>1, <3>1, <3>4, HandlerIsOfRead DEF HandlerFacts, Numbered
      <4> QED
        BY <1>1, <1>3, <1>4, <1>6, <2>2, <3>1, <3>4, <4>1 DEF k
    <3>5. CASE k \in {"function-finished", "SIGINT"}
      <4>1. code' = opd_dispatchOther /\ k \notin Numbered \cup {"end-stepping-range", "SIGSEGV"}
        BY <2>1, <3>1, <3>5, HandlerIsOfRead DEF HandlerFacts, Numbered
      <4> QED
        BY <1>1, <1>3, <1>4, <1>6, <2>2, <3>1, <3>5, <4>1 DEF k
    <3>6. CASE k \in {"signal", "exited", "notrunning"}
      <4>1. /\ code' = opd_dispatchPrgExt
            /\ k \notin Numbered \cup {"end-stepping-range", "SIGSEGV", "function-finished", "SIGINT"}
        BY <2>1, <3>1, <3>6, HandlerIsOfRead DEF HandlerFacts, Numbered
      <4> QED
        BY <1>1, <1>3, <1>4, <1>6, <2>2, <3>1, <3>6, <4>1 DEF k
    <3>7. CASE k \notin Numbered \cup {"end-stepping-range", "SIGSEGV", "function-finished", "SIGINT",
                                     "signal", "exited", "notrunning"}
      <4>1. event' \in {"GDB_STDERR", "GDB_GDBMSG", "GDB_STDOUT", "GDB_RUNNING", "GDB_PROMPT"}
        BY <2>1, <3>7 DEF Events
      <4>2. code' \in Quiets
        BY <3>1, <4>1, HandlerIsOfRead DEF HandlerFacts, Quiets
      <4> QED
        BY <1>1, <1>3, <1>4, <1>6, <2>2, <3>1, <3>7, <4>2 DEF k
    <3> QED
      BY <3>2, <3>3, <3>4, <3>5, <3>6, <3>7
  <2> QED
    BY <2>4, <2>5
<1> QED
  BY <1>4, <1>5, <1>6

----------------------------------------------------------------------------
(* Procedures: those of opd.tcl, and the setup, as sequences of commands.  *)
FollowIn(c) ==
  \A i \in DOMAIN c : i > 1 /\ IsAnswer(c[i]) => c[i - 1].do \in Asks \/ IsAnswer(c[i - 1])

TellsExit(c) == \E i \in DOMAIN c : c[i].do = "opd_setExit"

(* What opd.tcl logs as an answer follows the question, and it lets the    *)
(* application go nowhere.                                                 *)
LEMMA OpdTclScripts ==
  \A p \in Quiets \cup {opd_dispatchSigSeg, opd_dispatchOther} :
    /\ AnswersFollow(p) /\ StepsAwaited(p) /\ ResumesOnce(p)
    /\ \A i \in DOMAIN p : p[i].do \in {"log", "query", "opd_setExit"}
    /\ TellsExit(p) => p \notin Quiets
<1>1. \A c : IsAnswer(c) => c.do = "log"
  BY DEF IsAnswer
<1>2. ASSUME NEW p \in Quiets
      PROVE  /\ AnswersFollow(p) /\ ~TellsExit(p)
             /\ \A i \in DOMAIN p : p[i].do = "log"
  BY <1>2, QuietFacts DEF AnswersFollow, TellsExit
<1>3. /\ AnswersFollow(opd_dispatchOther)
      /\ \A i \in DOMAIN opd_dispatchOther : opd_dispatchOther[i].do \in {"log", "opd_setExit"}
  <2>1. \A i \in DOMAIN opd_dispatchOther : i = 1 \/ i = 2
    BY OtherFacts
  <2> QED
    BY <1>1, <2>1, OtherFacts DEF AnswersFollow
<1>4. /\ AnswersFollow(opd_dispatchSigSeg)
      /\ \A i \in DOMAIN opd_dispatchSigSeg :
           opd_dispatchSigSeg[i].do \in {"log", "query", "opd_setExit"}
  <2>1. \A i \in DOMAIN opd_dispatchSigSeg : i \in {1, 3, 5} \/ i \in {2, 4} \/ i = 6
    BY SigSegFacts
  <2>2. ASSUME NEW i \in DOMAIN opd_dispatchSigSeg, IsAnswer(opd_dispatchSigSeg[i])
        PROVE  i > 1 /\ opd_dispatchSigSeg[i - 1].do \in Asks
    <3>1. i = 3 \/ i = 5
      BY <1>1, <2>1, <2>2, SigSegFacts
    <3>2. i > 1 /\ i - 1 \in {2, 4}
      BY <3>1
    <3> QED
      BY <3>2, SigSegFacts DEF Asks
  <2> QED
    BY <2>1, <2>2, SigSegFacts DEF AnswersFollow
<1>5. TellsExit(opd_dispatchOther) /\ TellsExit(opd_dispatchSigSeg)
  <2>1. 2 \in DOMAIN opd_dispatchOther /\ 6 \in DOMAIN opd_dispatchSigSeg
    BY OtherFacts, SigSegFacts
  <2> QED
    BY <2>1, OtherFacts, SigSegFacts DEF TellsExit
<1>6. ASSUME NEW p, \A i \in DOMAIN p : p[i].do \in {"log", "query", "opd_setExit"}
      PROVE  StepsAwaited(p) /\ ResumesOnce(p)
  BY <1>6 DEF StepsAwaited, ResumesOnce, Resumes
<1>7. \A p \in Quiets : \A i \in DOMAIN p : p[i].do \in {"log", "query", "opd_setExit"}
  BY <1>2
<1> QED
  BY <1>2, <1>3, <1>4, <1>5, <1>6, <1>7

(* What opd evaluates first: the command for -a, the setup of the script,  *)
(* and the start of the application.                                       *)
LEMMA SetupFacts ==
  ASSUME OpdInit
  PROVE  LET h == IF HasArguments THEN 1 ELSE 0
             n == Len(Setup)
         IN  /\ Setup \in Procedures /\ n \in Nat /\ DOMAIN Setup = 1 .. n
             /\ code \in Seq(Commands) /\ Len(code) = h + n + 2 /\ DOMAIN code = 1 .. h + n + 2
             /\ HasArguments => code[1].do = "gdb_set_arguments"
             /\ \A i \in 1 .. n : code[h + i] = Setup[i]
             /\ code[h + n + 1].do = "log" /\ ~IsAnswer(code[h + n + 1])
             /\ code[h + n + 1].arg[1] = "opd.message"
             /\ code[h + n + 2].do = "gdb_start_run"
<1> DEFINE first == IF HasArguments THEN <<Do("gdb_set_arguments")>> ELSE <<>>
           h == IF HasArguments THEN 1 ELSE 0
           last == <<Log("opd.message", "", "text"), Do("gdb_start_run")>>
<1>1. Setup \in Procedures /\ Setup \in Seq(Commands)
  BY ScriptAssumption DEF Procedures, Commands
<1>2. /\ first \in Seq(Commands) /\ Len(first) = h
      /\ HasArguments => first[1] = Do("gdb_set_arguments")
  <2>1. Do("gdb_set_arguments") \in Commands
    BY DEF Commands, OpdCommands
  <2>2. \A a \in Commands : <<a>> \in Seq(Commands) /\ Len(<<a>>) = 1 /\ <<a>>[1] = a
    OBVIOUS
  <2>3. <<>> \in Seq(Commands) /\ Len(<<>>) = 0
    OBVIOUS
  <2>4. CASE HasArguments
    BY <2>1, <2>2, <2>4
  <2>5. CASE ~HasArguments
    BY <2>3, <2>5
  <2> QED
    BY <2>4, <2>5
<1>3. /\ last \in Seq(Commands) /\ Len(last) = 2
      /\ \E x : last[1] = Log("opd.message", x, "text")
      /\ last[2] = Do("gdb_start_run")
  <2>1. Do("gdb_start_run") \in Commands /\ Log("opd.message", "", "text") \in Commands
    BY DEF Commands, OpdCommands
  <2>2. \A a, b \in Commands : /\ <<a, b>> \in Seq(Commands) /\ Len(<<a, b>>) = 2
                               /\ <<a, b>>[1] = a /\ <<a, b>>[2] = b
    OBVIOUS
  <2> QED
    BY <2>1, <2>2, Zenon
<1>4. code = first \o Setup \o last
  BY DEF OpdInit
<1>5. h \in {0, 1} /\ (HasArguments => h = 1)
  OBVIOUS
<1> HIDE DEF first, last, h
<1>6. /\ first \o Setup \in Seq(Commands) /\ Len(first \o Setup) = h + Len(Setup)
      /\ \A i \in 1 .. h : (first \o Setup)[i] = first[i]
      /\ \A i \in 1 .. Len(Setup) : (first \o Setup)[h + i] = Setup[i]
  <2>1. /\ first \o Setup \in Seq(Commands) /\ Len(first \o Setup) = Len(first) + Len(Setup)
        /\ \A i \in 1 .. Len(first) + Len(Setup) :
             (first \o Setup)[i] = IF i <= Len(first) THEN first[i] ELSE Setup[i - Len(first)]
    BY <1>1, <1>2, ConcatProperties
  <2> QED
    BY <1>1, <1>2, <1>5, <2>1, SeqFacts
<1>7. /\ code \in Seq(Commands) /\ Len(code) = h + Len(Setup) + 2
      /\ \A i \in 1 .. h + Len(Setup) : code[i] = (first \o Setup)[i]
      /\ code[h + Len(Setup) + 1] = last[1] /\ code[h + Len(Setup) + 2] = last[2]
  <2> DEFINE s == first \o Setup
  <2>1. s \in Seq(Commands) /\ Len(s) = h + Len(Setup) /\ code = s \o last
    BY <1>4, <1>6
  <2> HIDE DEF s
  <2>2. /\ s \o last \in Seq(Commands) /\ Len(s \o last) = Len(s) + Len(last)
        /\ \A i \in 1 .. Len(s) + Len(last) :
             (s \o last)[i] = IF i <= Len(s) THEN s[i] ELSE last[i - Len(s)]
    <3>1. last \in Seq(Commands) /\ s \in Seq(Commands)
      BY <1>3, <2>1
    <3> QED
      BY <3>1, ConcatProperties
  <2>3. Len(s) \in Nat
    BY <2>1, SeqFacts
  <2>4. \A i \in 1 .. Len(s) : code[i] = s[i]
    BY <1>3, <2>1, <2>2, <2>3
  <2>5. /\ Len(s) + 1 \in 1 .. Len(s) + Len(last) /\ ~(Len(s) + 1 <= Len(s))
        /\ Len(s) + 2 \in 1 .. Len(s) + Len(last) /\ ~(Len(s) + 2 <= Len(s))
        /\ (Len(s) + 1) - Len(s) = 1 /\ (Len(s) + 2) - Len(s) = 2
    BY <1>3, <2>3
  <2>6. code[Len(s) + 1] = last[1] /\ code[Len(s) + 2] = last[2]
    BY <2>1, <2>2, <2>5
  <2> QED
    BY <1>3, <2>1, <2>2, <2>4, <2>6 DEF s
<1>8. Len(Setup) \in Nat /\ DOMAIN Setup = 1 .. Len(Setup) /\ DOMAIN code = 1 .. Len(code)
  BY <1>1, <1>7, SeqFacts
<1>9. /\ HasArguments => code[1].do = "gdb_set_arguments"
      /\ \A i \in 1 .. Len(Setup) : code[h + i] = Setup[i]
  <2>1. HasArguments => code[1] = Do("gdb_set_arguments")
    BY <1>2, <1>5, <1>6, <1>7, <1>8
  <2>2. Do("gdb_set_arguments").do = "gdb_set_arguments"
    BY DEF Do, Cmd
  <2>3. \A i \in 1 .. Len(Setup) : code[h + i] = Setup[i]
    <3>1. \A i \in 1 .. Len(Setup) : h + i \in 1 .. h + Len(Setup)
      BY <1>5, <1>8
    <3> QED
      BY <1>6, <1>7, <3>1
  <2> QED
    BY <2>1, <2>2, <2>3
<1>10. /\ last[1].do = "log" /\ ~IsAnswer(last[1]) /\ last[1].arg[1] = "opd.message"
       /\ last[2].do = "gdb_start_run"
  <2>1. /\ \A x : /\ Log("opd.message", x, "text").do = "log"
                  /\ ~IsAnswer(Log("opd.message", x, "text"))
                  /\ Log("opd.message", x, "text").arg[1] = "opd.message"
        /\ Do("gdb_start_run").do = "gdb_start_run"
    BY DEF Log, Do, Cmd, IsAnswer
  <2> QED
    BY <1>3, <2>1
<1> QED
  BY <1>1, <1>7, <1>8, <1>9, <1>10 DEF h

(* The rest of a procedure inherits what is said of every command of it    *)
(* and of the command after it.                                            *)
LEMMA RestOfScript ==
  ASSUME NEW c \in Seq(Commands), c # <<>>
  PROVE  /\ Tail(c) \in Seq(Commands) /\ Len(c) \in Nat \ {0} /\ Head(c) = c[1]
         /\ \A i \in DOMAIN Tail(c) : i + 1 \in DOMAIN c /\ Tail(c)[i] = c[i + 1]
         /\ Tail(c) # <<>> => 2 \in DOMAIN c /\ Head(Tail(c)) = c[2]
         /\ FollowIn(c) => FollowIn(Tail(c))
         /\ StepsAwaited(c) => StepsAwaited(Tail(c))
         /\ ResumesOnce(c) => ResumesOnce(Tail(c))
         /\ TellsExit(Tail(c)) => TellsExit(c)
<1>1. /\ Len(c) \in Nat \ {0} /\ DOMAIN c = 1 .. Len(c) /\ Head(c) = c[1]
      /\ Tail(c) \in Seq(Commands) /\ Len(Tail(c)) = Len(c) - 1
      /\ DOMAIN Tail(c) = 1 .. (Len(c) - 1)
      /\ \A i \in 1 .. (Len(c) - 1) : Tail(c)[i] = c[i + 1]
      /\ Tail(c) = <<>> <=> Len(c) = 1
  BY TailFacts
<1>2. \A i \in DOMAIN Tail(c) : i \in Nat /\ i + 1 \in DOMAIN c /\ Tail(c)[i] = c[i + 1]
  BY <1>1
<1>3. Tail(c) # <<>> => 2 \in DOMAIN c /\ Head(Tail(c)) = c[2]
  <2>1. Tail(c) # <<>> => Head(Tail(c)) = Tail(c)[1]
    BY <1>1, TailFacts
  <2> QED
    BY <1>1, <2>1
<1>4. FollowIn(c) => FollowIn(Tail(c))
  <2> SUFFICES ASSUME FollowIn(c), NEW i \in DOMAIN Tail(c), i > 1, IsAnswer(Tail(c)[i])
               PROVE  Tail(c)[i - 1].do \in Asks \/ IsAnswer(Tail(c)[i - 1])
    BY DEF FollowIn
  <2>1. /\ i + 1 \in DOMAIN c /\ i + 1 > 1 /\ IsAnswer(c[i + 1]) /\ i - 1 \in DOMAIN Tail(c)
        /\ Tail(c)[i - 1] = c[i] /\ (i + 1) - 1 = i
    BY <1>1
  <2>2. c[(i + 1) - 1].do \in Asks \/ IsAnswer(c[(i + 1) - 1])
    BY <2>1 DEF FollowIn
  <2> QED
    BY <2>1, <2>2
<1>5. StepsAwaited(c) => StepsAwaited(Tail(c))
  <2> SUFFICES ASSUME StepsAwaited(c), NEW i \in DOMAIN Tail(c), Tail(c)[i].do = "gdb_stepNext"
               PROVE  i < Len(Tail(c)) /\ Tail(c)[i + 1].do \in Asks \cup {"gdb_call", "gdb_setPID"}
    BY DEF StepsAwaited
  <2>1. i + 1 \in DOMAIN c /\ c[i + 1].do = "gdb_stepNext"
    BY <1>2
  <2>2. i + 1 < Len(c) /\ c[(i + 1) + 1].do \in Asks \cup {"gdb_call", "gdb_setPID"}
    BY <2>1 DEF StepsAwaited
  <2>3. i < Len(Tail(c)) /\ Tail(c)[i + 1] = c[(i + 1) + 1]
    BY <1>1, <2>2
  <2> QED
    BY <2>2, <2>3
<1>6. ResumesOnce(c) => ResumesOnce(Tail(c))
  <2> SUFFICES ASSUME ResumesOnce(c), NEW i \in DOMAIN Tail(c), NEW k \in DOMAIN Tail(c),
                      Tail(c)[i].do \in Resumes, i < k
               PROVE  Tail(c)[k].do = "log"
    BY DEF ResumesOnce
  <2>1. /\ i + 1 \in DOMAIN c /\ k + 1 \in DOMAIN c /\ i + 1 < k + 1
        /\ Tail(c)[i] = c[i + 1] /\ Tail(c)[k] = c[k + 1]
    BY <1>2
  <2> QED
    BY <2>1 DEF ResumesOnce
<1>7. TellsExit(Tail(c)) => TellsExit(c)
  BY <1>2 DEF TellsExit
<1> QED
  BY <1>1, <1>2, <1>3, <1>4, <1>5, <1>6, <1>7

(* What put opd and gdb out of step is not forgotten, and a session that   *)
(* told gdb to exit is over.                                               *)
ExitBlamed == "exit" \in blame => phase = "ended"

(* No step takes back blame, and nothing is logged after the end.          *)
LEMMA BlameGrows ==
  ASSUME TypeOK, CodeInv, [OpdNext]_opdVars
  PROVE  /\ blame \subseteq blame' /\ (ExitBlamed => ExitBlamed')
         /\ phase = "ended" => phase' = "ended" /\ log' = log
<1>1. CASE EvalGdb
  <2>1. blame' = blame \/ blame' = blame \cup {"arguments"}
    BY <1>1, EvalFacts
  <2> QED
    BY <1>1, <2>1 DEF EvalGdb, Evaluating, ExitBlamed
<1>2. CASE db_logMessage \/ opd_setExit \/ StartLoop
  BY <1>2 DEF db_logMessage, opd_setExit, StartLoop, Evaluating, vars, ExitBlamed
<1>3. CASE Await
  <2>1. blame' = blame
    BY <1>3 DEF Await, Read, ReadEvent, gdb_getresponse, ReadValue, gdb_waitforprompt,
                ReadSigint, gdb_next_event
  <2> QED
    BY <1>3, <2>1 DEF Await, session, ExitBlamed
<1>4. CASE Dispatch
  <2>1. blame' = blame /\ phase = "loop" /\ phase' \in {"loop", "crashed"}
    BY <1>4, ReadIs DEF Dispatch
  <2> QED
    BY <2>1 DEF ExitBlamed
<1>5. CASE opd_exit
  <2>1. blame' = blame \cup {"exit"} /\ phase = "loop" /\ phase' = "ended"
    BY <1>5 DEF opd_exit, gdb_exit
  <2> QED
    BY <2>1 DEF ExitBlamed
<1>6. CASE GdbStep
  <2>1. blame' = blame \/ blame' = blame \cup {"insert"} \/ blame' = blame \cup {"exec"}
    BY <1>6 DEF GdbStep, GdbExecute, GdbQuery, GdbInsert, GdbWatch, GdbCall, Resume,
                ResumeFaulted, RefuseResume, GdbExit
  <2> QED
    BY <1>6, <2>1 DEF GdbStep, session, ExitBlamed
<1>7. CASE AppStep
  <2>1. blame' = blame
    BY <1>7, AppLines DEF AppStep
  <2> QED
    BY <1>7, <2>1 DEF AppStep, session, ExitBlamed
<1>8. CASE UNCHANGED opdVars
  BY <1>8 DEF opdVars, vars, session, ExitBlamed
<1> QED
  BY <1>1, <1>2, <1>3, <1>4, <1>5, <1>6, <1>7, <1>8 DEF OpdNext, OpdStep

(* A reading loop takes a line off gdb's output, or none, and sends        *)
(* nothing.                                                                *)
LEMMA ReadFrame ==
  ASSUME TypeOK, Read
  PROVE  /\ UNCHANGED <<step_function, asked, gdb_stdin, gdb, sent, events, blame>>
         /\ gdb_stdout' = gdb_stdout \/ (gdb_stdout # <<>> /\ gdb_stdout' = Tail(gdb_stdout))
         /\ \A i \in DOMAIN gdb_stdout' : \E j \in DOMAIN gdb_stdout : gdb_stdout'[i] = gdb_stdout[j]
<1>1. PICK l : gdb_next_event(l)
  BY DEF Read, ReadEvent, gdb_getresponse, ReadValue, gdb_waitforprompt, ReadSigint
<1>2. gdb_stdout' = gdb_stdout \/ (gdb_stdout # <<>> /\ gdb_stdout' = Tail(gdb_stdout))
  BY <1>1 DEF gdb_next_event
<1>3. \A i \in DOMAIN gdb_stdout' : \E j \in DOMAIN gdb_stdout : gdb_stdout'[i] = gdb_stdout[j]
  <2>1. CASE gdb_stdout' = gdb_stdout
    BY <2>1
  <2>2. CASE gdb_stdout # <<>> /\ gdb_stdout' = Tail(gdb_stdout)
    <3>1. /\ Len(gdb_stdout) \in Nat \ {0} /\ DOMAIN gdb_stdout = 1 .. Len(gdb_stdout)
          /\ DOMAIN gdb_stdout' = 1 .. (Len(gdb_stdout) - 1)
          /\ \A i \in 1 .. (Len(gdb_stdout) - 1) : gdb_stdout'[i] = gdb_stdout[i + 1]
      BY <2>2, TypesOfPipes, TailFacts
    <3>2. \A i \in DOMAIN gdb_stdout' :
            i + 1 \in DOMAIN gdb_stdout /\ gdb_stdout'[i] = gdb_stdout[i + 1]
      BY <3>1
    <3> QED
      BY <3>2
  <2> QED
    BY <1>2, <2>1, <2>2
<1> QED
  BY <1>1, <1>2, <1>3 DEF gdb_next_event

(* A command sent enters gdb_stdin at its end; a command executed leaves   *)
(* it at its head.                                                         *)
LEMMA CommandSent ==
  ASSUME TypeOK, NEW c \in Command, gdb_stdin' = Append(gdb_stdin, c)
  PROVE  /\ Len(gdb_stdin') = Len(gdb_stdin) + 1 /\ Len(gdb_stdin) \in Nat
         /\ DOMAIN gdb_stdin' = 1 .. Len(gdb_stdin) + 1 /\ gdb_stdin'[Len(gdb_stdin) + 1] = c
         /\ \A i \in DOMAIN gdb_stdin' :
              \/ i \in DOMAIN gdb_stdin /\ gdb_stdin'[i] = gdb_stdin[i]
              \/ i = Len(gdb_stdin) + 1 /\ gdb_stdin'[i] = c
<1>1. gdb_stdin \in Seq(Command)
  BY TypesOfPipes
<1> QED
  BY <1>1, AppendFacts

(* gdb takes the oldest command of its input; the others move up by one.   *)
LEMMA CommandExecuted ==
  ASSUME TypeOK, gdb_stdin # <<>>, gdb_stdin' = Tail(gdb_stdin)
  PROVE  /\ 1 \in DOMAIN gdb_stdin /\ Head(gdb_stdin) = gdb_stdin[1]
         /\ Len(gdb_stdin') = Len(gdb_stdin) - 1 /\ Len(gdb_stdin) \in Nat \ {0}
         /\ gdb_stdin' = <<>> <=> Len(gdb_stdin) = 1
         /\ \A i \in DOMAIN gdb_stdin' :
              i \in Nat /\ i + 1 \in DOMAIN gdb_stdin /\ gdb_stdin'[i] = gdb_stdin[i + 1]
<1>1. /\ Len(gdb_stdin) \in Nat \ {0} /\ DOMAIN gdb_stdin = 1 .. Len(gdb_stdin)
      /\ Head(gdb_stdin) = gdb_stdin[1] /\ Len(gdb_stdin') = Len(gdb_stdin) - 1
      /\ DOMAIN gdb_stdin' = 1 .. (Len(gdb_stdin) - 1)
      /\ \A i \in 1 .. (Len(gdb_stdin) - 1) : gdb_stdin'[i] = gdb_stdin[i + 1]
      /\ gdb_stdin' = <<>> <=> Len(gdb_stdin) = 1
  BY TypesOfPipes, TailFacts
<1> QED
  BY <1>1

(* gdb's output is kept; a stop that enters it enters the history.         *)
SegFaulted == \E i \in DOMAIN trace : trace[i].kind = "SIGSEGV"

(* A stop that is reported enters trace, and a fault once seen stays in    *)
(* it.                                                                     *)
LEMMA ObserveFacts ==
  ASSUME TypeOK, TypeOK', trace \in Seq(StopRecords), Observe
  PROVE  /\ Reports /\ IsStop(Newest) => trace' = Append(trace, Newest) /\ Newest \in StopRecords
         /\ SegFaulted => SegFaulted'
         /\ Reports /\ Newest.kind = "SIGSEGV" => SegFaulted'
<1>1. CASE Reports /\ IsStop(Newest)
  <2>1. trace' = Append(trace, Newest)
    BY <1>1 DEF Observe
  <2>2. Newest \in StopRecords
    <3>1. gdb_stdout \in Seq(Line) /\ gdb_stdout' \in Seq(Line)
      BY DEF TypeOK
    <3>2. Len(gdb_stdout') \in 1 .. Len(gdb_stdout')
      BY <1>1, <3>1, SeqFacts DEF Reports
    <3> QED
      BY <1>1, <3>1, <3>2, SeqFacts DEF Newest, StopRecords
  <2>3. /\ Len(trace) \in Nat /\ DOMAIN trace = 1 .. Len(trace)
        /\ DOMAIN trace' = 1 .. (Len(trace) + 1)
        /\ \A i \in 1 .. Len(trace) : trace'[i] = trace[i]
        /\ trace'[Len(trace) + 1] = Newest
    BY <2>1, <2>2, AppendFacts
  <2>4. SegFaulted => SegFaulted'
    BY <2>3 DEF SegFaulted
  <2>5. Newest.kind = "SIGSEGV" => SegFaulted'
    BY <2>3 DEF SegFaulted
  <2> QED
    BY <2>1, <2>2, <2>4, <2>5
<1>2. CASE ~(Reports /\ IsStop(Newest))
  <2>1. trace' = trace
    BY <1>2 DEF Observe
  <2>2. Reports => Newest.kind # "SIGSEGV"
    BY <1>2 DEF IsStop, StopKinds
  <2> QED
    BY <1>2, <2>1, <2>2 DEF SegFaulted
<1> QED
  BY <1>1, <1>2

(* The only stop gdb adds by itself is that of a faulted application that  *)
(* it resumes, and it is the last line it adds.                            *)
LEMMA GdbStops ==
  ASSUME TypeOK, TypeOK', GdbExecute
  PROVE  \A i \in DOMAIN gdb_stdout' :
           \/ i \in DOMAIN gdb_stdout /\ gdb_stdout'[i] = gdb_stdout[i]
           \/ ~IsStop(gdb_stdout'[i])
           \/ gdb_stdout'[i].kind = "SIGSEGV" /\ Reports /\ Newest = gdb_stdout'[i]
<1>1. /\ Len(gdb_stdout) <= Len(gdb_stdout')
      /\ \A i \in 1 .. Len(gdb_stdout) : gdb_stdout'[i] = gdb_stdout[i]
      /\ \A i \in Len(gdb_stdout) + 1 .. Len(gdb_stdout') :
           IsStop(gdb_stdout'[i]) =>
             i = Len(gdb_stdout') /\ gdb_stdout'[i].kind = "SIGSEGV"
  BY GdbLines
<1>2. /\ Len(gdb_stdout) \in Nat /\ DOMAIN gdb_stdout = 1 .. Len(gdb_stdout)
      /\ Len(gdb_stdout') \in Nat /\ DOMAIN gdb_stdout' = 1 .. Len(gdb_stdout')
  BY SeqFacts DEF TypeOK
<1>3. \A i \in DOMAIN gdb_stdout' : \/ i \in 1 .. Len(gdb_stdout)
                                    \/ i \in Len(gdb_stdout) + 1 .. Len(gdb_stdout')
  BY <1>2
<1>4. ASSUME NEW i \in Len(gdb_stdout) + 1 .. Len(gdb_stdout'), IsStop(gdb_stdout'[i])
      PROVE  gdb_stdout'[i].kind = "SIGSEGV" /\ Reports /\ Newest = gdb_stdout'[i]
  <2>1. Len(gdb_stdout') > Len(gdb_stdout)
    BY <1>2, <1>4
  <2> QED
    BY <1>1, <1>4, <2>1 DEF Reports, Newest
<1> QED
  BY <1>1, <1>2, <1>3, <1>4

----------------------------------------------------------------------------
(* opd aborts only after a crash.  The invariant: no stop is on its way    *)
(* for which main has opd_dispatchOther, and whatever tells opd to exit    *)
(* was called for a SIGSEGV that gdb reported.                             *)
ExitInv ==
  /\ sigint = FALSE /\ app # "finish"
  /\ \A i \in DOMAIN gdb_stdin : gdb_stdin[i].op # "finish"
  /\ \A i \in DOMAIN gdb_stdout :
       /\ gdb_stdout[i].kind \notin {"function-finished", "SIGINT"}
       /\ gdb_stdout[i].kind = "SIGSEGV" => SegFaulted
  /\ \A i \in DOMAIN code : code[i].do # "gdb_stepFinish"
  /\ exitflag = 1 \/ aborted = TRUE \/ TellsExit(code) => SegFaulted

(* It holds before the first command.                                      *)
LEMMA ExitInvInitially ==
  ASSUME \A p \in Procedures : NeverExits(p), OpdInit
  PROVE  ExitInv
<1>1. /\ sigint = FALSE /\ app = "none" /\ gdb_stdin = <<>> /\ gdb_stdout = <<>>
      /\ exitflag = 0 /\ aborted = FALSE
  BY DEF OpdInit, Init
<1>2. \A i \in DOMAIN code : code[i].do \notin {"opd_setExit", "gdb_stepFinish"}
  <2> DEFINE h == IF HasArguments THEN 1 ELSE 0
             n == Len(Setup)
  <2>1. /\ Setup \in Procedures /\ n \in Nat /\ DOMAIN Setup = 1 .. n
        /\ DOMAIN code = 1 .. h + n + 2
        /\ HasArguments => code[1].do = "gdb_set_arguments"
        /\ \A i \in 1 .. n : code[h + i] = Setup[i]
        /\ code[h + n + 1].do = "log" /\ code[h + n + 2].do = "gdb_start_run"
    BY SetupFacts
  <2>2. h \in {0, 1} /\ (h = 1 => HasArguments)
    OBVIOUS
  <2> HIDE DEF h, n
  <2>3. ASSUME NEW i \in DOMAIN code
        PROVE  \/ i = 1 /\ h = 1
               \/ i = h + n + 1 \/ i = h + n + 2
               \/ i - h \in 1 .. n /\ code[i] = Setup[i - h]
    <3>1. \/ i = 1 /\ h = 1
          \/ i = h + n + 1 \/ i = h + n + 2
          \/ i - h \in 1 .. n /\ h + (i - h) = i
      BY <2>1, <2>2, <2>3
    <3> QED
      BY <2>1, <3>1
  <2>4. \A i \in 1 .. n : Setup[i].do \notin {"opd_setExit", "gdb_stepFinish"}
    BY <2>1 DEF NeverExits
  <2> QED
    BY <2>1, <2>2, <2>3, <2>4
<1>3. /\ \A i \in DOMAIN gdb_stdin : FALSE
      /\ \A i \in DOMAIN gdb_stdout : FALSE
  BY <1>1
<1> QED
  BY <1>1, <1>2, <1>3 DEF ExitInv, TellsExit

(* Every step keeps it, whatever else the procedures do.                   *)
LEMMA ExitInvKept ==
  ASSUME \A p \in Procedures : NeverExits(p), OpdTypes, ExitInv, [OpdNext]_opdVars
  PROVE  ExitInv'
<1>1. TypeOK /\ CodeInv /\ OpdTypes' /\ TypeOK' /\ trace \in Seq(StopRecords)
  <2>1. OpdTypes'
    BY OpdTypesKept
  <2> QED
    BY <2>1 DEF OpdTypes
<1>2. CASE EvalGdb
  <2>1. /\ code # <<>> /\ code' = Tail(code) /\ Sends(Head(code))
        /\ UNCHANGED <<gdb, gdb_stdout, exitflag, aborted, trace>>
    BY <1>1, <1>2, EvalFacts DEF history
  <2>2. \A i \in DOMAIN code' : code'[i].do # "gdb_stepFinish"
    BY <1>1, <2>1, RestOfScript DEF ExitInv, CodeInv
  <2>3. PICK c \in Command : gdb_stdin' = Append(gdb_stdin, c)
                             /\ (c.op = "finish" <=> Head(code).do = "gdb_stepFinish")
    BY <2>1 DEF Sends
  <2>4. \A i \in DOMAIN gdb_stdin' : gdb_stdin'[i].op # "finish"
    <3>1. \A i \in DOMAIN gdb_stdin' : \/ i \in DOMAIN gdb_stdin /\ gdb_stdin'[i] = gdb_stdin[i]
                                       \/ gdb_stdin'[i] = c
      BY <1>1, <2>3, CommandSent
    <3>2. Head(code).do # "gdb_stepFinish"
      <4>1. 1 \in DOMAIN code /\ Head(code) = code[1]
        BY <1>1, <2>1, TailFacts DEF CodeInv
      <4> QED
        BY <4>1 DEF ExitInv
    <3> QED
      BY <2>3, <3>1, <3>2 DEF ExitInv
  <2>5. TellsExit(code') => TellsExit(code)
    BY <1>1, <2>1, RestOfScript DEF CodeInv
  <2> QED
    BY <2>1, <2>2, <2>4, <2>5 DEF ExitInv, gdb, SegFaulted
<1>3. CASE db_logMessage
  <2>1. /\ code # <<>> /\ code' = Tail(code) /\ UNCHANGED <<vars, exitflag, aborted, trace>>
    BY <1>3 DEF db_logMessage, Evaluating
  <2>2. /\ \A i \in DOMAIN code' : code'[i].do # "gdb_stepFinish"
        /\ TellsExit(code') => TellsExit(code)
    BY <1>1, <2>1, RestOfScript DEF ExitInv, CodeInv
  <2> QED
    BY <2>1, <2>2 DEF ExitInv, vars, pipes, gdb, SegFaulted
<1>4. CASE opd_setExit
  <2>1. /\ code # <<>> /\ code' = Tail(code) /\ UNCHANGED <<vars, aborted, trace>>
        /\ Head(code).do = "opd_setExit"
    BY <1>4 DEF opd_setExit, Evaluating, history
  <2>2. /\ \A i \in DOMAIN code' : code'[i].do # "gdb_stepFinish"
        /\ TellsExit(code)
    BY <1>1, <2>1, RestOfScript, TailFacts DEF ExitInv, CodeInv, TellsExit
  <2> QED
    BY <2>1, <2>2 DEF ExitInv, vars, pipes, gdb, SegFaulted
<1>5. CASE Await
  <2>1. /\ UNCHANGED <<session, history, gdb_stdin, gdb>>
        /\ \A i \in DOMAIN gdb_stdout' : \E j \in DOMAIN gdb_stdout : gdb_stdout'[i] = gdb_stdout[j]
    BY <1>1, <1>5, ReadFrame DEF Await
  <2> QED
    BY <2>1 DEF ExitInv, session, history, gdb, SegFaulted
<1>6. CASE StartLoop
  BY <1>6 DEF StartLoop, ExitInv, vars, pipes, gdb, history, SegFaulted
<1>7. CASE Dispatch
  <2>1. /\ UNCHANGED <<gdb_stdin, gdb, aborted, trace>> /\ exitflag' \in {0, 2}
        /\ \A i \in DOMAIN gdb_stdout' : \E j \in DOMAIN gdb_stdout : gdb_stdout'[i] = gdb_stdout[j]
    BY <1>1, <1>7, DispatchIs, ReadFrame DEF Dispatch, Read
  <2>2. \/ code' \in Quiets \cup {<<>>}
        \/ \E f \in Functions : code' = Proc[f]
        \/ code' = opd_dispatchSigSeg /\ gdb_stdout # <<>> /\ Head(gdb_stdout).kind = "SIGSEGV"
        \/ /\ code' = opd_dispatchOther /\ gdb_stdout # <<>>
           /\ Head(gdb_stdout).kind \in {"function-finished", "SIGINT"}
    BY <1>1, <1>7, DispatchIs DEF Quiets
  <2>3. gdb_stdout # <<>> => 1 \in DOMAIN gdb_stdout /\ Head(gdb_stdout) = gdb_stdout[1]
    BY <1>1, TypesOfPipes, TailFacts
  <2>4. \A f \in Functions : NeverExits(Proc[f])
    BY DEF Procedures
  <2>5. /\ \A i \in DOMAIN code' : code'[i].do # "gdb_stepFinish"
        /\ TellsExit(code') => SegFaulted
    <3>1. CASE code' \in Quiets \cup {<<>>}
      BY <3>1, OpdTclScripts DEF TellsExit, Quiets
    <3>2. CASE \E f \in Functions : code' = Proc[f]
      BY <2>4, <3>2 DEF NeverExits, TellsExit
    <3>3. CASE code' = opd_dispatchSigSeg /\ gdb_stdout # <<>> /\ Head(gdb_stdout).kind = "SIGSEGV"
      BY <2>3, <3>3, OpdTclScripts DEF ExitInv
    <3>4. CASE /\ code' = opd_dispatchOther /\ gdb_stdout # <<>>
               /\ Head(gdb_stdout).kind \in {"function-finished", "SIGINT"}
      BY <2>3, <3>4 DEF ExitInv
    <3> QED
      BY <2>2, <3>1, <3>2, <3>3, <3>4
  <2> QED
    BY <2>1, <2>5 DEF ExitInv, gdb, SegFaulted
<1>8. CASE opd_exit
  <2>1. /\ UNCHANGED <<gdb, gdb_stdout, code, exitflag, trace>>
        /\ aborted' = TRUE => exitflag = 1
    BY <1>8 DEF opd_exit, gdb_exit, Fire, Write, history
  <2>2. PICK c : /\ c.op = "exit" /\ c \in Command /\ gdb_stdin' = Append(gdb_stdin, c)
    BY <1>1, <1>8, WriteTypes DEF opd_exit, gdb_exit, Fire, Write, Ops
  <2>3. \A i \in DOMAIN gdb_stdin' : gdb_stdin'[i].op # "finish"
    BY <1>1, <2>2, CommandSent DEF ExitInv
  <2> QED
    BY <2>1, <2>3 DEF ExitInv, gdb, SegFaulted, TellsExit
<1>9. CASE GdbStep
  <2>1. /\ GdbExecute /\ Observe /\ UNCHANGED <<code, exitflag, aborted>>
    BY <1>9 DEF GdbStep, session
  <2>2. /\ gdb_stdin # <<>> /\ gdb_stdin' = Tail(gdb_stdin) /\ sigint' = sigint
        /\ Len(gdb_stdout) <= Len(gdb_stdout')
        /\ \A i \in 1 .. Len(gdb_stdout) : gdb_stdout'[i] = gdb_stdout[i]
        /\ \A i \in Len(gdb_stdout) + 1 .. Len(gdb_stdout') :
             IsStop(gdb_stdout'[i]) =>
               i = Len(gdb_stdout') /\ gdb_stdout'[i].kind = "SIGSEGV"
        /\ app' = "finish" => app = "finish" \/ Head(gdb_stdin).op = "finish"
    BY <1>1, <2>1, GdbLines
  <2>3. /\ \A i \in DOMAIN gdb_stdin' : gdb_stdin'[i].op # "finish"
        /\ Head(gdb_stdin).op # "finish"
    BY <1>1, <2>2, CommandExecuted DEF ExitInv
  <2>4. \A i \in DOMAIN gdb_stdout' :
          \/ i \in DOMAIN gdb_stdout /\ gdb_stdout'[i] = gdb_stdout[i]
          \/ ~IsStop(gdb_stdout'[i])
          \/ gdb_stdout'[i].kind = "SIGSEGV" /\ Reports /\ Newest = gdb_stdout'[i]
    BY <1>1, <2>1, GdbStops
  <2>5. /\ SegFaulted => SegFaulted'
        /\ Reports /\ Newest.kind = "SIGSEGV" => SegFaulted'
    BY <1>1, <2>1, ObserveFacts
  <2>6. \A i \in DOMAIN gdb_stdout' :
          /\ gdb_stdout'[i].kind \notin {"function-finished", "SIGINT"}
          /\ gdb_stdout'[i].kind = "SIGSEGV" => SegFaulted'
    BY <2>4, <2>5 DEF ExitInv, IsStop, StopKinds
  <2> QED
    BY <2>1, <2>2, <2>3, <2>5, <2>6 DEF ExitInv
<1>10. CASE AppStep
  <2>1. /\ AppRuns /\ Observe /\ UNCHANGED <<code, exitflag, aborted>>
    BY <1>10 DEF AppStep, session
  <2>2. /\ gdb_stdin' = gdb_stdin /\ sigint' = FALSE /\ app' # "finish"
        /\ \/ gdb_stdout' = gdb_stdout
           \/ \E l \in Line : /\ gdb_stdout' = Append(gdb_stdout, l)
                              /\ l.kind \notin {"function-finished", "SIGINT"}
    BY <1>1, <2>1, AppLines DEF ExitInv
  <2>3. /\ SegFaulted => SegFaulted'
        /\ Reports /\ Newest.kind = "SIGSEGV" => SegFaulted'
    BY <1>1, <2>1, ObserveFacts
  <2>4. \A i \in DOMAIN gdb_stdout' :
          /\ gdb_stdout'[i].kind \notin {"function-finished", "SIGINT"}
          /\ gdb_stdout'[i].kind = "SIGSEGV" => SegFaulted'
    <3>1. CASE gdb_stdout' = gdb_stdout
      BY <2>3, <3>1 DEF ExitInv
    <3>2. CASE \E l \in Line : /\ gdb_stdout' = Append(gdb_stdout, l)
                               /\ l.kind \notin {"function-finished", "SIGINT"}
      <4>1. PICK l \in Line : /\ gdb_stdout' = Append(gdb_stdout, l)
                              /\ l.kind \notin {"function-finished", "SIGINT"}
        BY <3>2
      <4>2. /\ Reports /\ Newest = l
            /\ \A i \in DOMAIN gdb_stdout' : \/ i \in DOMAIN gdb_stdout /\ gdb_stdout'[i] = gdb_stdout[i]
                                             \/ gdb_stdout'[i] = l
        BY <1>1, <4>1, TypesOfPipes, AppendFacts DEF Reports, Newest
      <4> QED
        BY <2>3, <4>1, <4>2 DEF ExitInv
    <3> QED
      BY <2>2, <3>1, <3>2
  <2> QED
    BY <2>1, <2>2, <2>3, <2>4 DEF ExitInv
<1>11. CASE UNCHANGED opdVars
  BY <1>11 DEF opdVars, vars, pipes, gdb, session, history, ExitInv, SegFaulted
<1> QED
  BY <1>2, <1>3, <1>4, <1>5, <1>6, <1>7, <1>8, <1>9, <1>10, <1>11 DEF OpdNext, OpdStep

(* opd_exit aborts the MPI job only when the application of this process   *)
(* has crashed, for every script that neither calls opd_setExit nor uses   *)
(* gdb_stepFinish: a process that ends well never takes the others down.   *)
THEOREM AbortsOnlyOnCrash ==
  ASSUME \A p \in Procedures : NeverExits(p)
  PROVE  OpdSpec => []AbortsOnCrash
<1>1. OpdInit => ExitInv
  BY ExitInvInitially
<1>2. OpdTypes /\ ExitInv /\ [OpdNext]_opdVars => ExitInv'
  BY ExitInvKept
<1>3. OpdTypes /\ ExitInv => AbortsOnCrash
  BY DEF OpdTypes, ExitInv, AbortsOnCrash, SegFaulted
<1> QED
  BY <1>1, <1>2, <1>3, OpdTypesInvariant, PTL DEF OpdSpec

----------------------------------------------------------------------------
(* What the theorems below ask for at every step, whatever of B is to      *)
(* blame: opd and gdb are in step; or they are not, and nothing is at hand *)
(* to tell, neither an answer to log nor a step of the application.        *)
StepPending ==
  \/ app = "next" \/ \E i \in DOMAIN gdb_stdin : gdb_stdin[i].op = "next"
  \/ \E i \in DOMAIN gdb_stdout : gdb_stdout[i].kind = "end-stepping-range"

Loose ==
  /\ \A i \in DOMAIN code : ~IsAnswer(code[i])
  /\ ~StepPending
  /\ \A i \in DOMAIN gdb_stdout : gdb_stdout[i].no <= Len(breakpoints)

InStep(B) == blame \subseteq B => Sync \/ Loose

(* The rows logged as answers.  The invariant: when the next thing to      *)
(* evaluate logs an answer, opd is still reading it or the last line it    *)
(* read is the answer.                                                     *)
RowsInv(B) ==
  /\ FollowIn(code) /\ ExitBlamed
  /\ blame \subseteq B \cup {"exit"} => RowsAreAnswers
  /\ blame \subseteq B /\ code # <<>> /\ IsAnswer(Head(code)) =>
       wait = "response" \/ (wait = "none" /\ line.id = asked.id)

(* What opd evaluates first logs no answer that was not asked for.         *)
LEMMA RowsInvInitially ==
  ASSUME \A p \in Procedures : AnswersFollow(p), OpdInit, NEW B
  PROVE  RowsInv(B)
<1> DEFINE h == IF HasArguments THEN 1 ELSE 0
           n == Len(Setup)
<1>1. /\ Setup \in Procedures /\ n \in Nat /\ DOMAIN Setup = 1 .. n
      /\ Len(code) = h + n + 2 /\ DOMAIN code = 1 .. h + n + 2 /\ code \in Seq(Commands)
      /\ HasArguments => code[1].do = "gdb_set_arguments"
      /\ \A i \in 1 .. n : code[h + i] = Setup[i]
      /\ code[h + n + 1].do = "log" /\ ~IsAnswer(code[h + n + 1])
      /\ code[h + n + 2].do = "gdb_start_run"
  BY SetupFacts
<1>2. h \in {0, 1} /\ (h = 1 => HasArguments)
  OBVIOUS
<1> HIDE DEF h, n
<1>3. AnswersFollow(Setup)
  BY <1>1
<1>4. ASSUME NEW i \in DOMAIN code, IsAnswer(code[i])
      PROVE  i > 1 /\ (code[i - 1].do \in Asks \/ IsAnswer(code[i - 1]))
  <2>1. \/ i = 1 /\ h = 1
        \/ i = h + n + 1 \/ i = h + n + 2
        \/ i - h \in 1 .. n /\ h + (i - h) = i
    BY <1>1, <1>2
  <2>2. code[i].do = "log"
    BY <1>4 DEF IsAnswer
  <2>3. i - h \in 1 .. n /\ code[i] = Setup[i - h]
    BY <1>1, <1>2, <1>4, <2>1, <2>2
  <2>4. i - h > 1 /\ (Setup[(i - h) - 1].do \in Asks \/ IsAnswer(Setup[(i - h) - 1]))
    BY <1>1, <1>3, <1>4, <2>3 DEF AnswersFollow
  <2>5. i > 1 /\ (i - h) - 1 \in 1 .. n /\ h + ((i - h) - 1) = i - 1
    BY <1>1, <1>2, <2>3, <2>4
  <2>6. code[i - 1] = Setup[(i - h) - 1]
    BY <1>1, <2>5
  <2> QED
    BY <2>4, <2>5, <2>6
<1>5. FollowIn(code)
  BY <1>4 DEF FollowIn
<1>6. code # <<>> => ~IsAnswer(Head(code))
  <2>1. code # <<>> => 1 \in DOMAIN code /\ Head(code) = code[1]
    BY <1>1, TailFacts
  <2> QED
    BY <1>4, <2>1
<1>7. ExitBlamed /\ RowsAreAnswers
  <2>1. blame = {} /\ log = <<>>
    BY DEF OpdInit, Init
  <2>2. \A i \in DOMAIN log : FALSE
    BY <2>1
  <2> QED
    BY <2>1, <2>2 DEF ExitBlamed, RowsAreAnswers
<1> QED
  BY <1>5, <1>6, <1>7 DEF RowsInv

(* A step of opd, gdb or the application keeps RowsInv.                    *)
LEMMA RowsInvKept ==
  ASSUME \A p \in Procedures : AnswersFollow(p), NEW B, "exit" \notin B,
         OpdTypes, InStep(B), RowsInv(B), [OpdNext]_opdVars
  PROVE  RowsInv(B)'
<1>0. TypeOK /\ CodeInv /\ log \in Seq(Rows)
  BY DEF OpdTypes
<1>1. /\ blame \subseteq blame' /\ ExitBlamed'
      /\ phase \in {"setup", "loop"} /\ blame \subseteq B \cup {"exit"} => blame \subseteq B
  <2>1. blame \subseteq blame' /\ (ExitBlamed => ExitBlamed')
    BY <1>0, BlameGrows
  <2> QED
    BY <2>1 DEF RowsInv, ExitBlamed
<1>2. ASSUME UNCHANGED <<code, line, asked, wait, log>>
      PROVE  RowsInv(B)'
  BY <1>1, <1>2 DEF RowsInv, FollowIn, RowsAreAnswers
<1>3. ASSUME code # <<>>
      PROVE  /\ Head(code) \in Commands /\ FollowIn(Tail(code))
             /\ Tail(code) # <<>> /\ IsAnswer(Head(Tail(code)))
                  => Head(code).do \in Asks \/ IsAnswer(Head(code))
  <2>1. /\ Head(code) = code[1] /\ FollowIn(Tail(code))
        /\ Tail(code) # <<>> => 2 \in DOMAIN code /\ Head(Tail(code)) = code[2]
    BY <1>0, <1>3, RestOfScript DEF CodeInv, RowsInv
  <2>2. 2 \in DOMAIN code /\ IsAnswer(code[2]) => code[1].do \in Asks \/ IsAnswer(code[1])
    <3>1. 2 > 1 /\ 2 - 1 = 1
      OBVIOUS
    <3> QED
      BY <3>1 DEF RowsInv, FollowIn
  <2>3. Head(code) \in Commands
    BY <1>0, <1>3 DEF CodeInv
  <2> QED
    BY <2>1, <2>2, <2>3
<1>4. CASE EvalGdb
  <2>1. /\ code # <<>> /\ code' = Tail(code) /\ log' = log
        /\ Head(code).do # "log" /\ Sends(Head(code))
    BY <1>0, <1>4, EvalFacts DEF Asks, Calls, Resumes
  <2>2. code' # <<>> /\ IsAnswer(Head(code')) => wait' = "response"
    BY <1>3, <2>1 DEF Sends, IsAnswer
  <2> QED
    BY <1>1, <1>3, <2>1, <2>2 DEF RowsInv, RowsAreAnswers
<1>5. CASE db_logMessage
  <2>1. /\ code # <<>> /\ code' = Tail(code) /\ wait = "none" /\ Head(code).do = "log"
        /\ phase \in {"setup", "loop"} /\ UNCHANGED vars
    BY <1>5 DEF db_logMessage, Evaluating
  <2>2. UNCHANGED <<line, asked, wait, blame>>
    BY <2>1 DEF vars, opd
  <2>3. blame \subseteq B /\ IsAnswer(Head(code)) => line.id = asked.id
    BY <2>1 DEF RowsInv
  <2>4. PICK row \in Rows : /\ log' = Append(log, row) /\ row.of = Head(code).arg[3]
                            /\ row.line = line /\ row.asked = asked.id
    BY <1>0, <1>5, LogsRow
  <2>5. \A i \in DOMAIN log' : \/ i \in DOMAIN log /\ log'[i] = log[i]
                               \/ log'[i] = row
    BY <1>0, <2>4, AppendFacts
  <2>6. blame' \subseteq B \cup {"exit"} => RowsAreAnswers'
    <3> SUFFICES ASSUME blame' \subseteq B \cup {"exit"} PROVE RowsAreAnswers'
      OBVIOUS
    <3>1. blame \subseteq B /\ RowsAreAnswers
      BY <1>1, <2>1, <2>2 DEF RowsInv
    <3>2. row.of = "answer" => row.line.id = row.asked
      BY <2>1, <2>3, <2>4, <3>1 DEF IsAnswer
    <3> QED
      BY <2>5, <3>1, <3>2 DEF RowsAreAnswers
  <2>7. code' # <<>> /\ IsAnswer(Head(code')) => IsAnswer(Head(code))
    BY <1>3, <2>1 DEF Asks
  <2> QED
    BY <1>1, <1>3, <2>1, <2>2, <2>3, <2>6, <2>7 DEF RowsInv
<1>6. CASE opd_setExit
  <2>1. /\ code # <<>> /\ code' = Tail(code) /\ Head(code).do = "opd_setExit"
        /\ UNCHANGED log
    BY <1>6 DEF opd_setExit, Evaluating
  <2>2. code' # <<>> => ~IsAnswer(Head(code'))
    BY <1>3, <2>1 DEF Asks, IsAnswer
  <2> QED
    BY <1>1, <1>3, <2>1, <2>2 DEF RowsInv, RowsAreAnswers
<1>7. CASE Await
  <2>1. wait # "none" /\ Read /\ UNCHANGED <<code, log, asked, blame>>
    BY <1>0, <1>7, ReadFrame DEF Await, session
  <2>2. Sync /\ wait = "response" /\ wait' # "response"
          => wait' = "none" /\ line'.id = asked.id
    <3> SUFFICES ASSUME Sync, wait = "response", wait' # "response"
                 PROVE  wait' = "none" /\ line'.id = asked.id
      OBVIOUS
    <3>1. gdb_getresponse
      BY <2>1 DEF Read, ReadEvent, ReadValue, gdb_waitforprompt, ReadSigint
    <3>2. line'.id = asked.id
      BY <1>0, <2>1, EndsOnOwnAnswer DEF Next
    <3> QED
      BY <3>1, <3>2 DEF gdb_getresponse
  <2>3. blame \subseteq B /\ code # <<>> /\ IsAnswer(Head(code)) => Sync
    <3>1. code # <<>> => 1 \in DOMAIN code /\ Head(code) = code[1]
      BY <1>0, TailFacts DEF CodeInv
    <3> QED
      BY <3>1 DEF InStep, Loose
  <2> QED
    BY <1>1, <2>1, <2>2, <2>3 DEF RowsInv, RowsAreAnswers, FollowIn
<1>8. CASE StartLoop
  BY <1>2, <1>8 DEF StartLoop, vars, opd
<1>9. CASE Dispatch
  <2>1. AnswersFollow(code')
    <3>1. \/ code' \in Quiets \cup {opd_dispatchSigSeg, opd_dispatchOther}
          \/ code' = <<>>
          \/ \E f \in Functions : code' = Proc[f]
      BY <1>0, <1>9, DispatchIs DEF Quiets
    <3>2. <<>> \in Quiets
      BY DEF Quiets
    <3> QED
      BY <3>1, <3>2, OpdTclScripts DEF Procedures
  <2>2. code' \in Seq(Commands)
    BY <1>0, OpdStepImplements DEF CodeInv
  <2>3. FollowIn(code')
    BY <2>1 DEF AnswersFollow, FollowIn
  <2>4. code' # <<>> => ~IsAnswer(Head(code'))
    <3>1. code' # <<>> => 1 \in DOMAIN code' /\ Head(code') = code'[1]
      BY <2>2, TailFacts
    <3> QED
      BY <2>1, <3>1 DEF AnswersFollow
  <2>5. log' = log
    BY <1>9 DEF Dispatch
  <2> QED
    BY <1>1, <2>3, <2>4, <2>5 DEF RowsInv, RowsAreAnswers
<1>10. CASE opd_exit
  <2>1. UNCHANGED <<code, line, asked, wait, log>>
    BY <1>10 DEF opd_exit, gdb_exit, Fire, Write
  <2> QED
    BY <1>2, <2>1
<1>11. CASE GdbStep
  BY <1>0, <1>2, <1>11, GdbLines DEF GdbStep, session, opd
<1>12. CASE AppStep
  BY <1>0, <1>2, <1>12, AppLines DEF AppStep, session, opd
<1>13. CASE UNCHANGED opdVars
  BY <1>2, <1>13 DEF opdVars, session, vars, opd
<1> QED
  BY <1>4, <1>5, <1>6, <1>7, <1>8, <1>9, <1>10, <1>11, <1>12, <1>13 DEF OpdNext, OpdStep

(* opd and gdb are in step in every session of opd too, as long as nothing *)
(* is to blame.                                                            *)
LEMMA SessionsInStep == OpdSpec => []IInv
BY OpdImplementsGdbMI, SyncInvariant, PTL

(* Every row that a procedure writes as the answer to a command holds the  *)
(* answer to that very command, for every script whose procedures log an   *)
(* answer right after they ask for it, and as long as gdb refuses nothing; *)
(* telling gdb to exit does no harm.                                       *)
THEOREM RowsHoldAnswers ==
  ASSUME \A p \in Procedures : AnswersFollow(p)
  PROVE  OpdSpec => [](blame \subseteq {"exit"} => RowsAreAnswers)
<1>1. OpdInit => RowsInv({})
  BY RowsInvInitially
<1>2. OpdTypes /\ IInv /\ RowsInv({}) /\ [OpdNext]_opdVars => RowsInv({})'
  BY RowsInvKept DEF IInv, InStep
<1>3. RowsInv({}) => (blame \subseteq {"exit"} => RowsAreAnswers)
  BY DEF RowsInv
<1> QED
  BY <1>1, <1>2, <1>3, OpdTypesInvariant, SessionsInStep, PTL DEF OpdSpec

----------------------------------------------------------------------------
(* main has a procedure for every event.  The invariant: a step for which  *)
(* no function was given is on its way only while a procedure reads, or is *)
(* about to read, up to the answer that follows it.                        *)
StepsInv(B) ==
  /\ StepsAwaited(code) /\ ExitBlamed
  /\ step_function = NoFunction =>
       app # "step" /\ \A i \in DOMAIN gdb_stdin : gdb_stdin[i].op # "step"
  /\ \A i \in DOMAIN gdb_stdout : gdb_stdout[i].kind \in Numbered => gdb_stdout[i].no # 0
  /\ blame \subseteq B /\ step_function = NoFunction /\ StepPending =>
       \/ wait \in {"response", "value"}
       \/ wait = "none" /\ code # <<>> /\ Head(code).do \in Asks \cup Calls
  /\ blame \subseteq B \cup {"exit"} => NeverCrashes

(* No step is on its way before the application is started.                *)
LEMMA StepsInvInitially ==
  ASSUME \A p \in Procedures : StepsAwaited(p), OpdInit, NEW B
  PROVE  StepsInv(B)
<1> DEFINE h == IF HasArguments THEN 1 ELSE 0
           n == Len(Setup)
<1>1. /\ Setup \in Procedures /\ n \in Nat /\ DOMAIN Setup = 1 .. n
      /\ Len(code) = h + n + 2 /\ DOMAIN code = 1 .. h + n + 2 /\ code \in Seq(Commands)
      /\ HasArguments => code[1].do = "gdb_set_arguments"
      /\ \A i \in 1 .. n : code[h + i] = Setup[i]
      /\ code[h + n + 1].do = "log"
      /\ code[h + n + 2].do = "gdb_start_run"
  BY SetupFacts
<1>2. h \in {0, 1} /\ (h = 1 => HasArguments)
  OBVIOUS
<1> HIDE DEF h, n
<1>3. StepsAwaited(Setup)
  BY <1>1
<1>4. StepsAwaited(code)
  <2> SUFFICES ASSUME NEW i \in DOMAIN code, code[i].do = "gdb_stepNext"
               PROVE  i < Len(code) /\ code[i + 1].do \in Asks \cup {"gdb_call", "gdb_setPID"}
    BY DEF StepsAwaited
  <2>1. \/ i = 1 /\ h = 1
        \/ i = h + n + 1 \/ i = h + n + 2
        \/ i - h \in 1 .. n /\ h + (i - h) = i
    BY <1>1, <1>2
  <2>2. i - h \in 1 .. n /\ code[i] = Setup[i - h]
    BY <1>1, <1>2, <2>1
  <2>3. i - h < n /\ Setup[(i - h) + 1].do \in Asks \cup {"gdb_call", "gdb_setPID"}
    BY <1>1, <1>3, <2>2 DEF StepsAwaited
  <2>4. i < Len(code) /\ (i - h) + 1 \in 1 .. n /\ h + ((i - h) + 1) = i + 1
    BY <1>1, <1>2, <2>2, <2>3
  <2>5. code[i + 1] = Setup[(i - h) + 1]
    BY <1>1, <2>4
  <2> QED
    BY <2>3, <2>4, <2>5
<1>5. /\ app = "none" /\ phase = "setup" /\ blame = {}
      /\ \A i \in DOMAIN gdb_stdin : FALSE
      /\ \A i \in DOMAIN gdb_stdout : FALSE
  <2>1. /\ app = "none" /\ phase = "setup" /\ blame = {}
        /\ gdb_stdin = <<>> /\ gdb_stdout = <<>>
    BY DEF OpdInit, Init
  <2> QED
    BY <2>1
<1> QED
  BY <1>4, <1>5 DEF StepsInv, ExitBlamed, StepPending, NeverCrashes

(* A step of opd, gdb or the application keeps StepsInv.                   *)
LEMMA StepsInvKept ==
  ASSUME \A p \in Procedures : StepsAwaited(p), NEW B, "exit" \notin B,
         OpdTypes, InStep(B), StepsInv(B), [OpdNext]_opdVars
  PROVE  StepsInv(B)'
<1>0. TypeOK /\ CodeInv /\ TypeOK'
  <2>1. TypeOK /\ CodeInv
    BY DEF OpdTypes
  <2>2. [Next]_vars
    BY <2>1, OpdStepImplements
  <2> QED
    BY <2>1, <2>2, TypesKept
<1>1. /\ blame \subseteq blame' /\ ExitBlamed'
      /\ phase \in {"setup", "loop"} /\ blame \subseteq B \cup {"exit"} => blame \subseteq B
  <2>1. blame \subseteq blame' /\ (ExitBlamed => ExitBlamed')
    BY <1>0, BlameGrows
  <2> QED
    BY <2>1 DEF StepsInv, ExitBlamed
<1>2. ASSUME code # <<>>
      PROVE  /\ StepsAwaited(Tail(code))
             /\ Head(code).do = "gdb_stepNext" =>
                  Tail(code) # <<>> /\ Head(Tail(code)).do \in Asks \cup Calls
  <2>1. /\ StepsAwaited(code) /\ code \in Seq(Commands)
    BY <1>0 DEF StepsInv, CodeInv
  <2>2. /\ Head(code) = code[1] /\ StepsAwaited(Tail(code)) /\ Len(code) \in Nat \ {0}
        /\ Tail(code) # <<>> => Head(Tail(code)) = code[2]
        /\ 1 \in DOMAIN code /\ (Tail(code) = <<>> <=> Len(code) = 1)
    BY <1>2, <2>1, RestOfScript, TailFacts
  <2>3. 1 + 1 = 2 /\ (1 < Len(code) => Len(code) # 1)
    BY <2>2
  <2>4. code[1].do = "gdb_stepNext" =>
          1 < Len(code) /\ code[2].do \in Asks \cup {"gdb_call", "gdb_setPID"}
    BY <2>1, <2>2, <2>3 DEF StepsAwaited
  <2> QED
    BY <2>2, <2>3, <2>4 DEF Calls
<1>3. CASE EvalGdb
  <2>1. /\ code # <<>> /\ code' = Tail(code) /\ wait = "none" /\ phase' = phase
        /\ UNCHANGED <<gdb, gdb_stdout>> /\ Sends(Head(code))
        /\ IF Head(code).do = "gdb_step" THEN step_function' \in Functions
                                         ELSE step_function' = step_function
    BY <1>0, <1>3, EvalFacts
  <2>2. PICK c \in Command :
          /\ gdb_stdin' = Append(gdb_stdin, c)
          /\ c.op = "step" => Head(code).do = "gdb_step"
          /\ c.op = "next" => Head(code).do = "gdb_stepNext"
    BY <2>1 DEF Sends
  <2>3. \A i \in DOMAIN gdb_stdin' : \/ i \in DOMAIN gdb_stdin /\ gdb_stdin'[i] = gdb_stdin[i]
                                     \/ gdb_stdin'[i] = c
    BY <1>0, <2>2, CommandSent
  <2>4. step_function' = NoFunction =>
          step_function = NoFunction /\ Head(code).do # "gdb_step"
    BY <2>1, FunctionsAssumption
  <2>5. step_function' = NoFunction =>
          app' # "step" /\ \A i \in DOMAIN gdb_stdin' : gdb_stdin'[i].op # "step"
    BY <2>1, <2>2, <2>3, <2>4 DEF StepsInv, gdb
  <2>6. /\ Head(code).do \in Asks => wait' = "response"
        /\ Head(code).do \in Calls => wait' = "value"
        /\ Head(code).do \notin Asks \cup Calls => wait' = "none"
    BY <2>1 DEF Sends
  <2>7. StepPending' => StepPending \/ Head(code).do = "gdb_stepNext"
    BY <2>1, <2>2, <2>3 DEF StepPending, gdb
  <2>8. blame' \subseteq B /\ step_function' = NoFunction /\ StepPending' =>
          \/ wait' \in {"response", "value"}
          \/ wait' = "none" /\ code' # <<>> /\ Head(code').do \in Asks \cup Calls
    <3> SUFFICES ASSUME blame' \subseteq B, step_function' = NoFunction, StepPending',
                        Head(code).do \notin Asks \cup Calls
                 PROVE  wait' = "none" /\ code' # <<>> /\ Head(code').do \in Asks \cup Calls
      BY <2>6
    <3>1. ~StepPending
      BY <1>1, <2>1, <2>4 DEF StepsInv
    <3> QED
      BY <1>2, <2>1, <2>6, <2>7, <3>1
  <2>9. blame' \subseteq B \cup {"exit"} => NeverCrashes'
    BY <1>1, <2>1 DEF StepsInv, NeverCrashes
  <2> QED
    BY <1>1, <1>2, <2>1, <2>5, <2>8, <2>9 DEF StepsInv
<1>4. CASE db_logMessage \/ opd_setExit
  <2>1. /\ code # <<>> /\ code' = Tail(code) /\ wait = "none" /\ UNCHANGED <<vars, phase>>
        /\ Head(code).do \in {"log", "opd_setExit"}
    BY <1>4 DEF db_logMessage, opd_setExit, Evaluating
  <2>2. ~(blame \subseteq B /\ step_function = NoFunction /\ StepPending)
    BY <2>1 DEF StepsInv, Asks, Calls
  <2>3. UNCHANGED <<blame, step_function, app, gdb_stdin, gdb_stdout, wait>>
    BY <2>1 DEF vars, opd, pipes, gdb
  <2> QED
    BY <1>1, <1>2, <2>1, <2>2, <2>3 DEF StepsInv, StepPending, NeverCrashes
<1>5. CASE Await
  <2>1. /\ wait # "none" /\ Read /\ UNCHANGED <<session, step_function, gdb_stdin, gdb, blame>>
        /\ \A i \in DOMAIN gdb_stdout' : \E j \in DOMAIN gdb_stdout : gdb_stdout'[i] = gdb_stdout[j]
    BY <1>0, <1>5, ReadFrame DEF Await
  <2>2. StepPending' => StepPending
    BY <2>1 DEF StepPending, gdb
  <2>3. ASSUME blame \subseteq B, step_function = NoFunction, StepPending'
        PROVE  wait' \in {"response", "value"}
    <3>1. Sync /\ Sync' /\ wait \in {"response", "value"}
      <4>1. Sync /\ wait \in {"response", "value"}
        BY <2>1, <2>2, <2>3 DEF InStep, Loose, StepsInv
      <4> QED
        BY <1>0, <2>1, <4>1, ReadPreserves
    <3>2. CASE gdb_getresponse /\ wait' = "none"
      <4>1. PICK l \in Incoming : gdb_next_event(l) /\ EndsResponse(l)
        BY <3>2 DEF gdb_getresponse
      <4>2. gdb_stdout # <<>> /\ l = Head(gdb_stdout) /\ gdb_stdout' = Tail(gdb_stdout)
        BY <1>0, <3>1, <4>1 DEF gdb_next_event, Sync, WaitingInv, EndsResponse, Plain,
                                FinalKinds, TypeOK
      <4>3. 1 \in DOMAIN gdb_stdout /\ EndsResponse(gdb_stdout[1])
        BY <1>0, <4>1, <4>2, TypesOfPipes, TailFacts
      <4>4. Settled /\ Len(gdb_stdout) = 1
        BY <3>1, <4>3 DEF Sync, AnswersInv
      <4>5. gdb_stdout' = <<>>
        BY <1>0, <4>2, <4>4, TypesOfPipes, TailFacts
      <4> QED
        BY <2>1, <2>3, <4>4, <4>5 DEF StepPending, Settled, Running, gdb
    <3>3. CASE ReadValue /\ wait' = "prompt"
      <4>1. Settled' /\ Len(gdb_stdout') = 1 /\ EndsResponse(gdb_stdout'[1])
        BY <3>1, <3>3 DEF Sync, WaitingInv
      <4>2. \A i \in DOMAIN gdb_stdout' : gdb_stdout'[i].kind # "end-stepping-range"
        <5>1. \A i \in DOMAIN gdb_stdout' : i = 1
          BY <1>0, <4>1, SeqFacts DEF TypeOK
        <5> QED
          BY <4>1, <5>1 DEF EndsResponse, FinalKinds
      <4> QED
        BY <2>3, <4>1, <4>2 DEF StepPending, Settled, Running
    <3> QED
      BY <2>1, <3>1, <3>2, <3>3
         DEF Read, ReadEvent, gdb_getresponse, ReadValue, gdb_waitforprompt, ReadSigint
  <2> QED
    BY <1>1, <2>1, <2>3 DEF StepsInv, session, gdb, NeverCrashes
<1>6. CASE StartLoop
  <2>1. /\ wait = "none" /\ code = <<>> /\ code' = code /\ phase' = "loop"
        /\ UNCHANGED <<blame, step_function, app, gdb_stdin, gdb_stdout, wait>>
    BY <1>6 DEF StartLoop, vars, opd, pipes, gdb
  <2> QED
    BY <1>1, <2>1 DEF StepsInv, StepPending, NeverCrashes
<1>7. CASE Dispatch
  <2>1. /\ phase = "loop" /\ code = <<>> /\ wait = "none" /\ phase' \in {"loop", "crashed"}
        /\ UNCHANGED <<step_function, breakpoints, gdb_stdin, gdb, blame>>
        /\ \A i \in DOMAIN gdb_stdout' : \E j \in DOMAIN gdb_stdout : gdb_stdout'[i] = gdb_stdout[j]
    BY <1>0, <1>7, DispatchIs, ReadFrame DEF Dispatch, Read
  <2>2. /\ ~(blame \subseteq B /\ step_function = NoFunction /\ StepPending)
        /\ StepPending' => StepPending
    BY <2>1 DEF StepsInv, StepPending, gdb
  <2>3. StepsAwaited(code')
    <3>1. \/ code' \in Quiets \cup {opd_dispatchSigSeg, opd_dispatchOther}
          \/ code' = <<>>
          \/ \E f \in Functions : code' = Proc[f]
      BY <1>0, <1>7, DispatchIs DEF Quiets
    <3>2. <<>> \in Quiets
      BY DEF Quiets
    <3> QED
      BY <3>1, <3>2, OpdTclScripts DEF Procedures
  <2>4. ASSUME blame \subseteq B \cup {"exit"}, phase' = "crashed"
        PROVE  FALSE
    <3>1. blame \subseteq B /\ \A i \in DOMAIN gdb_stdout : gdb_stdout[i].no <= Len(breakpoints)
      BY <1>1, <2>1, <2>4 DEF InStep, Loose, Sync, TablesInv
    <3>2. /\ gdb_stdout # <<>> /\ line' = Head(gdb_stdout)
          /\ \/ line'.kind \in Numbered /\ line'.no \notin DOMAIN breakpoints
             \/ line'.kind = "end-stepping-range" /\ step_function = NoFunction
      BY <1>0, <1>7, <2>4, DispatchIs
    <3>3. 1 \in DOMAIN gdb_stdout /\ line' = gdb_stdout[1] /\ line' \in Line
      BY <1>0, <3>2, TypesOfPipes, TailFacts
    <3>4. CASE line'.kind \in Numbered /\ line'.no \notin DOMAIN breakpoints
      <4>1. line'.no # 0 /\ line'.no \in Nat /\ line'.no <= Len(breakpoints)
        BY <3>1, <3>3, <3>4 DEF StepsInv, Line
      <4> QED
        BY <1>0, <3>4, <4>1, TypesOfTables
    <3>5. CASE line'.kind = "end-stepping-range" /\ step_function = NoFunction
      BY <2>2, <3>1, <3>3, <3>5 DEF StepPending
    <3> QED
      BY <3>2, <3>4, <3>5
  <2> QED
    BY <1>1, <2>1, <2>2, <2>3, <2>4 DEF StepsInv, NeverCrashes, gdb
<1>8. CASE opd_exit
  <2>1. /\ UNCHANGED <<gdb, gdb_stdout, code, step_function>> /\ phase' = "ended"
        /\ "exit" \in blame'
    BY <1>8 DEF opd_exit, gdb_exit, Fire, Write
  <2>2. PICK c : /\ c.op = "exit" /\ c \in Command /\ gdb_stdin' = Append(gdb_stdin, c)
    BY <1>0, <1>8, WriteTypes DEF opd_exit, gdb_exit, Fire, Write, Ops
  <2>3. step_function = NoFunction => \A i \in DOMAIN gdb_stdin' : gdb_stdin'[i].op # "step"
    BY <1>0, <2>2, CommandSent DEF StepsInv
  <2> QED
    BY <1>1, <2>1, <2>3 DEF StepsInv, gdb, NeverCrashes
<1>9. ASSUME UNCHANGED <<session, opd>>,
             app' \in {"next", "step"} =>
               \/ app' = app
               \/ \E i \in DOMAIN gdb_stdin : gdb_stdin[i].op = app',
             \A i \in DOMAIN gdb_stdin' : \E j \in DOMAIN gdb_stdin : gdb_stdin'[i] = gdb_stdin[j],
             \A i \in DOMAIN gdb_stdout' :
               \/ i \in DOMAIN gdb_stdout /\ gdb_stdout'[i] = gdb_stdout[i]
               \/ /\ gdb_stdout'[i].kind = "end-stepping-range" => app \in {"next", "step"}
                  /\ gdb_stdout'[i].kind \in Numbered => gdb_stdout'[i].no # 0
      PROVE  StepsInv(B)'
  <2>1. UNCHANGED <<code, phase, wait, step_function>>
    BY <1>9 DEF session, opd
  <2>2. step_function = NoFunction /\ StepPending' => StepPending
    BY <1>9 DEF StepsInv, StepPending
  <2>3. step_function' = NoFunction =>
          app' # "step" /\ \A i \in DOMAIN gdb_stdin' : gdb_stdin'[i].op # "step"
    BY <1>9, <2>1 DEF StepsInv
  <2>4. \A i \in DOMAIN gdb_stdout' : gdb_stdout'[i].kind \in Numbered => gdb_stdout'[i].no # 0
    BY <1>9 DEF StepsInv
  <2> QED
    BY <1>1, <2>1, <2>2, <2>3, <2>4 DEF StepsInv, NeverCrashes
<1>10. CASE GdbStep
  <2>1. GdbExecute /\ UNCHANGED session
    BY <1>10 DEF GdbStep
  <2>2. /\ gdb_stdin # <<>> /\ gdb_stdin' = Tail(gdb_stdin) /\ UNCHANGED opd
        /\ app' \in {"next", "step"} => app' = app \/ Head(gdb_stdin).op = app'
    BY <1>0, <2>1, GdbLines
  <2>3. \A i \in DOMAIN gdb_stdout' :
          \/ i \in DOMAIN gdb_stdout /\ gdb_stdout'[i] = gdb_stdout[i]
          \/ ~IsStop(gdb_stdout'[i]) \/ gdb_stdout'[i].kind = "SIGSEGV"
    BY <1>0, <2>1, GdbStops
  <2>4. /\ 1 \in DOMAIN gdb_stdin /\ Head(gdb_stdin) = gdb_stdin[1]
        /\ \A i \in DOMAIN gdb_stdin' : \E j \in DOMAIN gdb_stdin : gdb_stdin'[i] = gdb_stdin[j]
    BY <1>0, <2>2, CommandExecuted
  <2>5. \A k \in Numbered \cup {"end-stepping-range"} : k \in StopKinds /\ k # "SIGSEGV"
    BY DEF Numbered, StopKinds
  <2>6. \A i \in DOMAIN gdb_stdout' :
          \/ i \in DOMAIN gdb_stdout /\ gdb_stdout'[i] = gdb_stdout[i]
          \/ gdb_stdout'[i].kind \notin Numbered \cup {"end-stepping-range"}
    BY <2>3, <2>5 DEF IsStop
  <2> QED
    BY <1>9, <2>1, <2>2, <2>4, <2>6
<1>11. CASE AppStep
  <2>1. AppRuns /\ UNCHANGED session
    BY <1>11 DEF AppStep
  <2>2. /\ gdb_stdin' = gdb_stdin /\ UNCHANGED opd
        /\ app' \in {"next", "step"} => app' = app
        /\ \/ gdb_stdout' = gdb_stdout
           \/ \E l \in Line : /\ gdb_stdout' = Append(gdb_stdout, l)
                              /\ l.kind \in Numbered => l.no # 0
                              /\ l.kind = "end-stepping-range" => app \in {"next", "step"}
    BY <1>0, <2>1, AppLines
  <2>3. \A i \in DOMAIN gdb_stdout' :
          \/ i \in DOMAIN gdb_stdout /\ gdb_stdout'[i] = gdb_stdout[i]
          \/ /\ gdb_stdout'[i].kind \in Numbered => gdb_stdout'[i].no # 0
             /\ gdb_stdout'[i].kind = "end-stepping-range" => app \in {"next", "step"}
    <3>1. CASE gdb_stdout' = gdb_stdout
      BY <3>1
    <3>2. ASSUME NEW l \in Line, gdb_stdout' = Append(gdb_stdout, l),
                 l.kind \in Numbered => l.no # 0,
                 l.kind = "end-stepping-range" => app \in {"next", "step"}
          PROVE  \A i \in DOMAIN gdb_stdout' :
                   \/ i \in DOMAIN gdb_stdout /\ gdb_stdout'[i] = gdb_stdout[i]
                   \/ /\ gdb_stdout'[i].kind \in Numbered => gdb_stdout'[i].no # 0
                      /\ gdb_stdout'[i].kind = "end-stepping-range" => app \in {"next", "step"}
      <4>1. \A i \in DOMAIN gdb_stdout' : \/ i \in DOMAIN gdb_stdout /\ gdb_stdout'[i] = gdb_stdout[i]
                                          \/ gdb_stdout'[i] = l
        BY <1>0, <3>2, TypesOfPipes, AppendFacts
      <4> QED
        BY <3>2, <4>1
    <3> QED
      BY <2>2, <3>1, <3>2
  <2> QED
    BY <1>9, <2>1, <2>2, <2>3
<1>12. CASE UNCHANGED opdVars
  <2>1. UNCHANGED <<session, opd, app, gdb_stdin, gdb_stdout>>
    BY <1>12 DEF opdVars, vars, pipes, gdb
  <2> QED
    BY <1>9, <2>1
<1> QED
  BY <1>3, <1>4, <1>5, <1>6, <1>7, <1>8, <1>10, <1>11, <1>12 DEF OpdNext, OpdStep

(* main never dereferences NULL, for every script whose procedures read    *)
(* over the stop of a gdb_stepNext, and as long as gdb refuses nothing:    *)
(* the number of every stop is in opd's table, and a step reported to the  *)
(* main loop was asked for with a function.                                *)
THEOREM NeverDereferencesNull ==
  ASSUME \A p \in Procedures : StepsAwaited(p)
  PROVE  OpdSpec => [](blame \subseteq {"exit"} => NeverCrashes)
<1>1. OpdInit => StepsInv({})
  BY StepsInvInitially
<1>2. OpdTypes /\ IInv /\ StepsInv({}) /\ [OpdNext]_opdVars => StepsInv({})'
  BY StepsInvKept DEF IInv, InStep
<1>3. StepsInv({}) => (blame \subseteq {"exit"} => NeverCrashes)
  BY DEF StepsInv
<1> QED
  BY <1>1, <1>2, <1>3, OpdTypesInvariant, SessionsInStep, PTL DEF OpdSpec
=============================================================================
