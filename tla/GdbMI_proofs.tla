---------------------------- MODULE GdbMI_proofs ----------------------------
(***************************************************************************)
(* What gdbmi.c guarantees for every set of functions and every number of  *)
(* commands, stops and lines.                                              *)
(***************************************************************************)
EXTENDS GdbMI, SequenceTheorems, TLAPS

(***************************************************************************)
(* The inductive invariant.  As long as nothing is to blame:               *)
(*   - the only command gdb has not executed that is not a resumption is   *)
(*     the last one sent, and opd is waiting for its answer;               *)
(*   - the only unread answer is the last line, it answers the command opd *)
(*     is waiting for, and the application cannot run before it is read;   *)
(*   - opd's table is gdb's, but for an entry whose insertion gdb has not  *)
(*     executed yet and for a watchpoint whose "^done" is unread.          *)
(***************************************************************************)
Settled == gdb_stdin = <<>> /\ ~Running

CommandsInv ==
  \A i \in DOMAIN gdb_stdin :
    gdb_stdin[i].op \notin ExecOps =>
      /\ wait \in {"response", "value"}
      /\ i = Len(gdb_stdin) /\ gdb_stdin[i] = asked

AnswersInv ==
  \A i \in DOMAIN gdb_stdout :
    /\ EndsResponse(gdb_stdout[i]) =>
         /\ wait \in {"response", "value", "prompt"} /\ Settled
         /\ i = Len(gdb_stdout) /\ gdb_stdout[i].id = asked.id
    /\ HasValue(gdb_stdout[i]) =>
         /\ wait = "value" /\ Settled
         /\ i + 1 = Len(gdb_stdout) /\ gdb_stdout[i].id = asked.id
         /\ EndsResponse(gdb_stdout[i + 1])

WaitingInv ==
  /\ app # "gone"
  /\ wait = "response" =>
       /\ asked.op \in AskOps
       /\ gdb_stdin # <<>> => gdb_stdin[Len(gdb_stdin)] = asked
       /\ gdb_stdin = <<>> => /\ gdb_stdout # <<>>
                              /\ EndsResponse(gdb_stdout[Len(gdb_stdout)])
  /\ wait = "value" => asked.op \in CallOps
  /\ wait = "prompt" => /\ Settled
                        /\ Len(gdb_stdout) = 1 /\ EndsResponse(gdb_stdout[1])

Inserting == wait = "response" /\ asked.op = "break" /\ gdb_stdin # <<>>

Watched == /\ wait = "response" /\ asked.op = "watch" /\ gdb_stdin = <<>>
           /\ gdb_stdout[Len(gdb_stdout)].kind = "done"

TablesInv ==
  /\ Len(breakpoints) = Len(bps) + (IF Inserting THEN 1 ELSE IF Watched THEN -1 ELSE 0)
  /\ \A n \in 1 .. Len(breakpoints) : n <= Len(bps) => breakpoints[n] = bps[n].fn
  /\ Inserting => breakpoints[Len(breakpoints)] = asked.fn
  /\ Watched => bps[Len(bps)].fn = asked.fn
  /\ \A i \in DOMAIN gdb_stdout :
       gdb_stdout[i].no <= Len(breakpoints) /\ gdb_stdout[i].no <= Len(bps)

Sync == CommandsInv /\ AnswersInv /\ WaitingInv /\ TablesInv

IInv == blame = {} => Sync

----------------------------------------------------------------------------
(* The variables keep their types.                                         *)

(* A command opd writes to gdb_stdin is a command, whichever function of   *)
(* gdbmi.c sends it.                                                       *)
LEMMA WriteTypes ==
  ASSUME TypeOK, NEW op \in Ops, NEW f, Write(op, f),
         IF op \in {"break", "watch"} THEN f \in Functions ELSE f = NoFunction
  PROVE  /\ [op |-> op, fn |-> f, id |-> sent + 1] \in Command
         /\ gdb_stdin' \in Seq(Command) /\ sent' \in Nat
BY DEF TypeOK, Write, Command

(* A function that sends a command and does not read its answer.           *)
LEMMA FireTypes ==
  ASSUME TypeOK, NEW op \in Ops \ {"break", "watch"}, Fire(op),
         step_function' \in Functions \cup {NoFunction},
         blame' \subseteq {"arguments", "insert", "exec", "exit"}
  PROVE  TypeOK'
<1>1. gdb_stdin' \in Seq(Command) /\ sent' \in Nat
  BY WriteTypes DEF Fire
<1> QED
  BY <1>1 DEF TypeOK, Fire, Write, gdb

(* A function that sends a command and waits for its answer.               *)
LEMMA AskTypes ==
  ASSUME TypeOK, NEW op \in Ops, NEW f,
         IF op \in {"break", "watch"} THEN f \in Functions ELSE f = NoFunction,
         NEW loop \in Waits, Ask(op, f, loop), breakpoints' \in Seq(Functions)
  PROVE  TypeOK'
<1>1. /\ [op |-> op, fn |-> f, id |-> sent + 1] \in Command
      /\ gdb_stdin' \in Seq(Command) /\ sent' \in Nat
  BY WriteTypes DEF Ask
<1> QED
  BY <1>1 DEF TypeOK, Ask, Write, gdb

(* What gdb_next_event reads is a line, and its event is one opd.c names.  *)
LEMMA ReadTypes ==
  ASSUME TypeOK, NEW l \in Incoming, gdb_next_event(l)
  PROVE  /\ l \in Line /\ event' \in Events
         /\ gdb_stdout' \in Seq(Line) /\ gdb_stderr' \in Nat
<1>1. l \in Line
  <2>1. line \in Line /\ Plain("stderr") \in Line
    BY DEF TypeOK, Plain, Line, Kinds
  <2>2. \A i \in DOMAIN gdb_stdout : gdb_stdout[i] \in Line
    BY DEF TypeOK
  <2> QED
    BY <2>1, <2>2 DEF Incoming
<1>2. event' \in Events
  <2>1. l.kind \in Kinds
    BY <1>1 DEF Line
  <2>2. EventOfKind[l.kind] \in Events
    BY <2>1 DEF EventOfKind, Events
  <2> QED
    BY <2>2 DEF gdb_next_event, Events
<1>3. gdb_stdout' \in Seq(Line) /\ gdb_stderr' \in Nat
  <2>1. CASE gdb_stderr > 0 /\ gdb_stderr' = gdb_stderr - 1 /\ gdb_stdout' = gdb_stdout
    BY <2>1 DEF TypeOK
  <2>2. CASE gdb_stdout # <<>> /\ gdb_stdout' = Tail(gdb_stdout) /\ gdb_stderr' = gdb_stderr
    BY <2>2 DEF TypeOK
  <2>3. CASE gdb_stdout' = gdb_stdout /\ gdb_stderr' = gdb_stderr
    BY <2>3 DEF TypeOK
  <2> QED
    BY <2>1, <2>2, <2>3 DEF gdb_next_event
<1> QED
  BY <1>1, <1>2, <1>3

(* What gdb answers to the command at the head of gdb_stdin.               *)
LEMMA ReplyTypes ==
  ASSUME TypeOK, gdb_stdin # <<>>, NEW k \in Kinds
  PROVE  /\ Head(gdb_stdin) \in Command /\ Tail(gdb_stdin) \in Seq(Command)
         /\ Reply(k, Head(gdb_stdin)) \in Line
<1>1. Head(gdb_stdin) \in Command /\ Tail(gdb_stdin) \in Seq(Command)
  BY DEF TypeOK
<1> QED
  BY <1>1 DEF Reply, Line, Command

(* What gdb reports of the application.                                    *)
LEMMA StopTypes ==
  ASSUME TypeOK, NEW k \in Kinds, NEW n \in Nat
  PROVE  Stop(k, n) \in Line /\ Plain(k) \in Line
BY DEF Stop, Plain, Line

(* A command gdb executes changes only what its action names.              *)
LEMMA ExecuteTypes ==
  ASSUME TypeOK, NEW ops, Execute(ops),
         gdb_stdout' \in Seq(Line),
         bps' \in Seq([kind : {"break", "watch"}, fn : Functions, live : BOOLEAN]),
         app' \in {"none", "continue", "next", "step", "finish", "stopped", "faulted",
                   "dead", "gone"},
         blame' \subseteq {"arguments", "insert", "exec", "exit"}
  PROVE  TypeOK'
<1>1. gdb_stdin' \in Seq(Command)
  BY DEF Execute, TypeOK
<1> QED
  BY <1>1 DEF TypeOK, Execute, opd

(* A stop of the application changes only what its action names.           *)
LEMMA StopsTypes ==
  ASSUME TypeOK, NEW k \in Kinds, NEW n \in Nat, NEW then, AppStops(k, n, then),
         then \in {"stopped", "faulted"}, sigint' \in BOOLEAN,
         bps' \in Seq([kind : {"break", "watch"}, fn : Functions, live : BOOLEAN])
  PROVE  TypeOK'
<1>1. Stop(k, n) \in Line
  BY StopTypes
<1>2. gdb_stdout' \in Seq(Line)
  BY <1>1 DEF TypeOK, AppStops, Put
<1> QED
  BY <1>2 DEF TypeOK, AppStops, opd

(* Every variable starts in its range.                                     *)
LEMMA TypesInitially == Init => TypeOK
<1> SUFFICES ASSUME Init PROVE TypeOK
  OBVIOUS
<1>1. asked \in Command
  BY DEF Init, Command, Ops, AskOps
<1>2. line \in Line
  BY DEF Init, Line, Plain, Kinds
<1>3. \A S : <<>> \in Seq(S)
  OBVIOUS
<1> QED
  BY <1>1, <1>2, <1>3 DEF Init, TypeOK, Events, Waits

(* No step of gdbmi.c, gdb or the application takes a variable out of it.  *)
LEMMA TypesKept == TypeOK /\ [Next]_vars => TypeOK'
<1> SUFFICES ASSUME TypeOK, [Next]_vars PROVE TypeOK'
  OBVIOUS
<1>a. /\ breakpoints \in Seq(Functions) /\ gdb_stdout \in Seq(Line) /\ gdb_stderr \in Nat
      /\ bps \in Seq([kind : {"break", "watch"}, fn : Functions, live : BOOLEAN])
  BY DEF TypeOK
<1> USE DEF Ops, ExecOps, AskOps, CallOps
<1>1. CASE Send
  <2>1. CASE gdb_set_arguments
    BY <2>1, FireTypes DEF gdb_set_arguments, TypeOK
  <2>2. CASE gdb_start_run \/ gdb_continue \/ gdb_stepNext \/ gdb_stepFinish
    BY <2>2, FireTypes
       DEF gdb_start_run, gdb_continue, gdb_stepNext, gdb_stepFinish, TypeOK
  <2>3. CASE gdb_query \/ gdb_call \/ gdb_setPID
    BY <2>3, AskTypes DEF gdb_query, gdb_call, gdb_setPID, TypeOK, Waits
  <2>4. CASE gdb_interrupt \/ WriteBroken
    <3>1. wait' \in Waits /\ sigint' \in BOOLEAN
      BY <2>4 DEF gdb_interrupt, WriteBroken, TypeOK, Waits, gdb
    <3> QED
      BY <2>4, <3>1 DEF gdb_interrupt, WriteBroken, TypeOK, pipes, gdb
  <2>5. CASE gdb_exit
    BY <2>5, FireTypes DEF gdb_exit, TypeOK
  <2>6. ASSUME NEW f \in Functions, gdb_setBreakpoint(f) \/ gdb_setWatchpoint(f)
        PROVE  TypeOK'
    <3>1. breakpoints' \in Seq(Functions)
      BY <2>6, <1>a DEF gdb_setBreakpoint, gdb_setWatchpoint
    <3> QED
      BY <2>6, <3>1, AskTypes DEF gdb_setBreakpoint, gdb_setWatchpoint, Waits
  <2>7. ASSUME NEW f \in Functions, gdb_step(f)
        PROVE  TypeOK'
    BY <2>7, FireTypes DEF gdb_step, TypeOK
  <2> QED
    BY <1>1, <2>1, <2>2, <2>3, <2>4, <2>5, <2>6, <2>7 DEF Send
<1>2. CASE Read
  <2>1. ASSUME NEW l \in Incoming, gdb_next_event(l),
               line' \in Line, wait' \in Waits, child_pid' \in {0, 1},
               breakpoints' \in Seq(Functions)
        PROVE  TypeOK'
    BY <2>1, ReadTypes DEF TypeOK, gdb_next_event, gdb
  <2>2. CASE ReadEvent \/ ReadValue \/ ReadSigint
    BY <2>2, <2>1, ReadTypes DEF ReadEvent, ReadValue, ReadSigint, TypeOK, Waits
  <2>3. CASE gdb_getresponse
    <3>1. PICK l \in Incoming :
            /\ gdb_next_event(l) /\ line' = l
            /\ wait' = IF EndsResponse(l) THEN "none" ELSE "response"
            /\ breakpoints' = AddOnDone(l)
      BY <2>3 DEF gdb_getresponse
    <3>2. AddOnDone(l) \in Seq(Functions)
      BY DEF AddOnDone, TypeOK, Command
    <3> QED
      BY <2>3, <3>1, <3>2, <2>1, ReadTypes DEF gdb_getresponse, TypeOK, Waits
  <2>4. CASE gdb_waitforprompt
    BY <2>4, <2>1, ReadTypes, StopTypes DEF gdb_waitforprompt, TypeOK, Waits, Kinds
  <2> QED
    BY <1>2, <2>2, <2>3, <2>4 DEF Read
<1>3. CASE GdbExecute
  <2> DEFINE c == Head(gdb_stdin)
  <2>0. gdb_stdin # <<>>
    BY <1>3 DEF GdbExecute, Execute, GdbQuery, GdbInsert, GdbWatch, GdbCall, Resume,
                ResumeFaulted, RefuseResume, GdbExit
  <2>1. c \in Command
    BY <2>0 DEF TypeOK
  <2>2. \A k \in {"done", "error", "notrunning", "running", "value"} :
          Reply(k, c) \in Line /\ (Answer(k) => gdb_stdout' \in Seq(Line))
    <3> TAKE k \in {"done", "error", "notrunning", "running", "value"}
    <3>1. Reply(k, c) \in Line
      BY <2>0, ReplyTypes DEF Kinds, FinalKinds
    <3>2. Answer(k) => gdb_stdout' = Append(gdb_stdout, Reply(k, c))
      BY DEF Answer, Put
    <3>3. \A l \in Line : Append(gdb_stdout, l) \in Seq(Line)
      BY <1>a
    <3> QED
      BY <3>1, <3>2, <3>3
  <2>3. CASE GdbQuery
    BY <2>3, <2>2, ExecuteTypes DEF GdbQuery, TypeOK
  <2>4. CASE GdbInsert \/ GdbWatch
    <3>1. c.fn \in Functions
      BY <2>4, <2>1 DEF GdbInsert, GdbWatch, Execute, Command
    <3>2. \A k \in {"break", "watch"} : Added(k) =>
            bps' \in Seq([kind : {"break", "watch"}, fn : Functions, live : BOOLEAN])
      BY <3>1 DEF Added, TypeOK
    <3> QED
      BY <2>4, <3>2, <2>2, ExecuteTypes DEF GdbInsert, GdbWatch, TypeOK
  <2>5. CASE GdbCall
    <3>1. gdb_stdout' \in Seq(Line)
      <4>1. CASE Put2(Reply("value", c), Reply("done", c))
        BY <4>1, <2>2 DEF Put2, TypeOK
      <4>2. CASE Answer("error") \/ Answer("done")
        BY <4>2, <2>2
      <4> QED
        BY <2>5, <4>1, <4>2 DEF GdbCall
    <3> QED
      BY <2>5, <3>1, ExecuteTypes DEF GdbCall, TypeOK
  <2>6. CASE Resume
    BY <2>6, <2>2, ExecuteTypes DEF Resume, Execute, TypeOK
  <2>7. CASE ResumeFaulted
    <3>1. gdb_stdout' \in Seq(Line)
      <4>1. Reply("running", c) \in Line /\ Stop("SIGSEGV", 0) \in Line
        BY <2>2, StopTypes DEF Kinds, StopKinds
      <4> QED
        BY <2>7, <4>1 DEF ResumeFaulted, Put2, TypeOK
    <3> QED
      BY <2>7, <3>1, ExecuteTypes DEF ResumeFaulted, TypeOK
  <2>8. CASE RefuseResume
    BY <2>8, <2>2, ExecuteTypes DEF RefuseResume, TypeOK
  <2>9. CASE GdbExit
    BY <2>9, ExecuteTypes DEF GdbExit, TypeOK
  <2> QED
    BY <1>3, <2>3, <2>4, <2>5, <2>6, <2>7, <2>8, <2>9 DEF GdbExecute
<1>4. CASE AppRuns
  <2>1. \A kind : Armed(kind) \subseteq Nat
    BY DEF Armed, TypeOK
  <2>2. CASE AppHits
    BY <2>1, <2>2, StopsTypes DEF AppHits, Kinds, StopKinds, TypeOK
  <2>3. CASE AppLeavesScope
    <3>1. PICK n \in Armed("watch") :
            /\ AppStops("watchpoint-scope", n, "stopped")
            /\ bps' = [bps EXCEPT ![n].live = FALSE] /\ sigint' = sigint
      BY <2>3 DEF AppLeavesScope
    <3>2. bps' \in Seq([kind : {"break", "watch"}, fn : Functions, live : BOOLEAN])
      <4>1. n \in DOMAIN bps /\ bps[n] \in [kind : {"break", "watch"}, fn : Functions, live : BOOLEAN]
        <5>1. n \in DOMAIN bps
          BY DEF Armed
        <5>2. n \in 1 .. Len(bps)
          BY <5>1, <1>a, LenProperties
        <5> QED
          BY <5>1, <5>2, <1>a, ElementOfSeq
      <4>2. [bps[n] EXCEPT !.live = FALSE] \in [kind : {"break", "watch"}, fn : Functions, live : BOOLEAN]
        BY <4>1
      <4> QED
        BY <3>1, <4>1, <4>2, ExceptSeq DEF TypeOK
    <3> QED
      BY <3>1, <3>2, <2>1, StopsTypes DEF Kinds, StopKinds, TypeOK
  <2>4. CASE AppSteps \/ AppSignalled
    BY <2>4, StopsTypes DEF AppSteps, AppSignalled, Kinds, StopKinds, TypeOK
  <2>5. CASE AppExits
    <3>1. gdb_stdout' \in Seq(Line)
      BY <2>5, StopTypes DEF AppExits, Put, TypeOK, Kinds, StopKinds
    <3> QED
      BY <2>5, <3>1 DEF AppExits, TypeOK, opd
  <2>6. CASE AppWrites
    <3>1. gdb_stdout' \in Seq(Line)
      <4>1. Plain("output") \in Line /\ Plain("console") \in Line
        BY StopTypes DEF Kinds
      <4> QED
        <5>1. \/ gdb_stdout' = Append(gdb_stdout, Plain("output"))
              \/ gdb_stdout' = Append(gdb_stdout, Plain("console"))
              \/ gdb_stdout' = gdb_stdout
          BY <2>6 DEF AppWrites, Put
        <5> QED
          <6>1. gdb_stdout \in Seq(Line)
            BY <1>a
          <6>2. \A l \in Line : Append(gdb_stdout, l) \in Seq(Line)
            BY <6>1, AppendProperties
          <6> QED
            BY <4>1, <5>1, <6>1, <6>2
    <3>2. gdb_stderr' \in Nat
      BY <2>6, <1>a DEF AppWrites
    <3> QED
      BY <2>6, <3>1, <3>2 DEF AppWrites, TypeOK, opd, gdb
  <2> QED
    BY <1>4, <2>2, <2>3, <2>4, <2>5, <2>6 DEF AppRuns
<1>5. CASE UNCHANGED vars
  BY <1>5 DEF vars, opd, pipes, gdb, TypeOK
<1> QED
  BY <1>1, <1>2, <1>3, <1>4, <1>5 DEF Next

(* The type invariant: gdbmi.c's variables stay in their ranges whatever   *)
(* its callers, gdb and the application do, in every order.                *)
THEOREM TypeCorrect == Spec => []TypeOK
BY TypesInitially, TypesKept, PTL DEF Spec

----------------------------------------------------------------------------
(* Indices of a sequence with its head removed or a line added.            *)

(* Reading a line: the indices of a sequence without its head.             *)
LEMMA TailFacts ==
  ASSUME NEW S, NEW s \in Seq(S), s # <<>>
  PROVE  /\ Len(s) \in Nat \ {0} /\ DOMAIN s = 1 .. Len(s) /\ Head(s) = s[1]
         /\ Tail(s) \in Seq(S) /\ Len(Tail(s)) = Len(s) - 1
         /\ DOMAIN Tail(s) = 1 .. (Len(s) - 1)
         /\ \A i \in 1 .. (Len(s) - 1) : Tail(s)[i] = s[i + 1]
         /\ Tail(s) = <<>> <=> Len(s) = 1
<1>1. Len(s) \in Nat \ {0} /\ DOMAIN s = 1 .. Len(s) /\ Head(s) = s[1]
  BY EmptySeq, LenProperties
<1>2. /\ Tail(s) \in Seq(S) /\ Len(Tail(s)) = Len(s) - 1
      /\ \A i \in 1 .. (Len(s) - 1) : Tail(s)[i] = s[i + 1]
  BY <1>1, HeadTailProperties
<1>3. DOMAIN Tail(s) = 1 .. (Len(s) - 1)
  BY <1>2, LenProperties
<1>4. Tail(s) = <<>> <=> Len(s) = 1
  BY <1>1, <1>2, EmptySeq
<1> QED
  BY <1>1, <1>2, <1>3, <1>4

(* Writing a line: the indices of a sequence with one more element.        *)
LEMMA AppendFacts ==
  ASSUME NEW S, NEW s \in Seq(S), NEW e \in S
  PROVE  /\ Append(s, e) \in Seq(S) /\ Len(s) \in Nat /\ Len(Append(s, e)) = Len(s) + 1
         /\ DOMAIN s = 1 .. Len(s) /\ DOMAIN Append(s, e) = 1 .. (Len(s) + 1)
         /\ \A i \in 1 .. Len(s) : Append(s, e)[i] = s[i]
         /\ Append(s, e)[Len(s) + 1] = e
         /\ Append(s, e) # <<>>
BY AppendProperties, LenProperties, EmptySeq

(* The domain and the elements of a sequence.                              *)
LEMMA SeqFacts ==
  ASSUME NEW S, NEW s \in Seq(S)
  PROVE  /\ Len(s) \in Nat /\ DOMAIN s = 1 .. Len(s) /\ (s = <<>> <=> Len(s) = 0)
         /\ \A i \in 1 .. Len(s) : s[i] \in S
BY LenProperties, EmptySeq, ElementOfSeq

----------------------------------------------------------------------------
(* Each step preserves Sync.                                               *)

(* The two pipes as sequences.                                             *)
LEMMA TypesOfPipes ==
  ASSUME TypeOK
  PROVE  /\ gdb_stdin \in Seq(Command) /\ gdb_stdout \in Seq(Line)
         /\ Len(gdb_stdin) \in Nat /\ DOMAIN gdb_stdin = 1 .. Len(gdb_stdin)
         /\ gdb_stdin = <<>> <=> Len(gdb_stdin) = 0
         /\ Len(gdb_stdout) \in Nat /\ DOMAIN gdb_stdout = 1 .. Len(gdb_stdout)
         /\ gdb_stdout = <<>> <=> Len(gdb_stdout) = 0
         /\ \A i \in 1 .. Len(gdb_stdout) : gdb_stdout[i] \in Line
<1>1. gdb_stdin \in Seq(Command) /\ gdb_stdout \in Seq(Line)
  BY DEF TypeOK
<1> QED
  BY <1>1, SeqFacts

(* opd's table and gdb's as sequences.                                     *)
LEMMA TypesOfTables ==
  ASSUME TypeOK
  PROVE  /\ breakpoints \in Seq(Functions)
         /\ Len(breakpoints) \in Nat /\ DOMAIN breakpoints = 1 .. Len(breakpoints)
         /\ bps \in Seq([kind : {"break", "watch"}, fn : Functions, live : BOOLEAN])
         /\ Len(bps) \in Nat /\ DOMAIN bps = 1 .. Len(bps)
<1>1. breakpoints \in Seq(Functions)
  BY DEF TypeOK
<1>2. bps \in Seq([kind : {"break", "watch"}, fn : Functions, live : BOOLEAN])
  BY DEF TypeOK
<1> QED
  BY <1>1, <1>2, SeqFacts

(* In the main loop nothing is unread, and the tables agree.               *)
(* In opd's main loop nothing is under way but resumptions, no answer is   *)
(* unread, and the two tables have the same length.                        *)
LEMMA NothingUnread ==
  ASSUME TypeOK, Sync, wait = "none"
  PROVE  /\ \A i \in DOMAIN gdb_stdin : gdb_stdin[i].op \in ExecOps
         /\ \A i \in DOMAIN gdb_stdout :
              ~EndsResponse(gdb_stdout[i]) /\ ~HasValue(gdb_stdout[i])
         /\ Len(breakpoints) = Len(bps)
BY TypesOfTables
   DEF Sync, CommandsInv, AnswersInv, TablesInv, Inserting, Watched

(* gdb_continue and the like keep opd and gdb in step.                     *)
LEMMA FirePreserves ==
  ASSUME TypeOK, Sync, NEW op \in ExecOps, Fire(op)
  PROVE  Sync'
<1> DEFINE c == [op |-> op, fn |-> NoFunction, id |-> sent + 1]
<1>1. /\ wait = "none" /\ wait' = "none" /\ gdb_stdin' = Append(gdb_stdin, c)
      /\ gdb_stdout' = gdb_stdout /\ breakpoints' = breakpoints
      /\ bps' = bps /\ app' = app /\ asked' = asked
  BY DEF Fire, Write, gdb
<1>2. gdb_stdin \in Seq(Command) /\ c \in Command
  BY DEF TypeOK, Command, Ops, ExecOps
<1>3. \A i \in DOMAIN gdb_stdin' : gdb_stdin'[i].op \in ExecOps
  BY <1>1, <1>2, NothingUnread, AppendFacts
<1>4. CommandsInv' /\ AnswersInv'
  BY <1>1, <1>3, NothingUnread DEF CommandsInv, AnswersInv, EndsResponse, HasValue
<1>5. WaitingInv'
  BY <1>1 DEF WaitingInv, Sync
<1>6. TablesInv'
  BY <1>1 DEF TablesInv, Sync, Inserting, Watched
<1> QED
  BY <1>4, <1>5, <1>6 DEF Sync

(* So does sending a command whose answer is read.                         *)
LEMMA AskPreserves ==
  ASSUME TypeOK, Sync, NEW op, NEW f, NEW loop, Ask(op, f, loop),
         \/ op \in AskOps /\ loop = "response"
         \/ op \in CallOps /\ loop = "value",
         IF op \in {"break", "watch"} THEN f \in Functions ELSE f = NoFunction,
         breakpoints' = IF op = "break" THEN Append(breakpoints, f) ELSE breakpoints
  PROVE  Sync'
<1> DEFINE c == [op |-> op, fn |-> f, id |-> sent + 1]
<1>1. /\ wait = "none" /\ wait' = loop /\ gdb_stdin' = Append(gdb_stdin, c)
      /\ gdb_stdout' = gdb_stdout /\ bps' = bps /\ app' = app /\ asked' = c
  BY DEF Ask, Write, gdb
<1>2. gdb_stdin \in Seq(Command) /\ c \in Command
  BY DEF TypeOK, Command, Ops, AskOps, CallOps
<1>3. /\ Len(gdb_stdin) \in Nat /\ DOMAIN gdb_stdin = 1 .. Len(gdb_stdin)
      /\ DOMAIN gdb_stdin' = 1 .. (Len(gdb_stdin) + 1)
      /\ Len(gdb_stdin') = Len(gdb_stdin) + 1 /\ gdb_stdin' # <<>>
      /\ gdb_stdin'[Len(gdb_stdin) + 1] = c
      /\ \A i \in 1 .. Len(gdb_stdin) : gdb_stdin'[i] = gdb_stdin[i]
  BY <1>1, <1>2, AppendFacts
<1>4. CommandsInv'
  <2>1. \A i \in DOMAIN gdb_stdin' :
          gdb_stdin'[i].op \notin ExecOps => i = Len(gdb_stdin) + 1
    BY <1>1, <1>3, NothingUnread
  <2>2. wait' \in {"response", "value"}
    BY <1>1
  <2> QED
    BY <1>1, <1>3, <2>1, <2>2 DEF CommandsInv
<1>5. AnswersInv'
  BY <1>1, NothingUnread DEF AnswersInv, EndsResponse, HasValue
<1>6. WaitingInv'
  BY <1>1, <1>3 DEF WaitingInv, Sync
<1>7. TablesInv'
  <2>1. Inserting' <=> op = "break"
    BY <1>1, <1>3 DEF Inserting, AskOps, CallOps
  <2>2. ~Watched'
    BY <1>1, <1>3 DEF Watched
  <2>3. ~Inserting /\ ~Watched
    BY <1>1 DEF Inserting, Watched
  <2>4. CASE op # "break"
    BY <1>1, <2>1, <2>2, <2>3, <2>4 DEF TablesInv, Sync
  <2>5. CASE op = "break"
    <3>1. /\ Len(breakpoints') = Len(breakpoints) + 1 /\ Len(breakpoints) \in Nat
          /\ breakpoints'[Len(breakpoints) + 1] = f
          /\ \A n \in 1 .. Len(breakpoints) : breakpoints'[n] = breakpoints[n]
      BY <2>5, TypesOfTables, AppendFacts
    <3>2. /\ Len(breakpoints) = Len(bps) 
          /\ \A n \in 1 .. Len(breakpoints) : n <= Len(bps) => breakpoints[n] = bps[n].fn
          /\ \A i \in DOMAIN gdb_stdout :
               gdb_stdout[i].no <= Len(breakpoints) /\ gdb_stdout[i].no <= Len(bps)
      BY <1>1, NothingUnread DEF TablesInv, Sync
    <3>3. \A i \in DOMAIN gdb_stdout : gdb_stdout[i].no \in Nat
      BY TypesOfPipes DEF Line
    <3> QED
      BY <1>1, <2>1, <2>2, <2>5, <3>1, <3>2, <3>3 DEF TablesInv
  <2> QED
    BY <2>4, <2>5
<1> QED
  BY <1>4, <1>5, <1>6, <1>7 DEF Sync

(* A line that is no answer is read, or one of stderr.                     *)
LEMMA SkipPreserves ==
  ASSUME TypeOK, Sync,
         \/ gdb_stdout' = gdb_stdout
         \/ /\ gdb_stdout # <<>> /\ gdb_stdout' = Tail(gdb_stdout)
            /\ ~EndsResponse(Head(gdb_stdout)) /\ ~HasValue(Head(gdb_stdout)),
         wait' = wait \/ (wait = "sigint" /\ wait' = "none"),
         UNCHANGED <<breakpoints, asked, gdb_stdin, gdb>>
  PROVE  Sync'
<1>1. CASE gdb_stdout' = gdb_stdout
  BY <1>1 DEF Sync, CommandsInv, AnswersInv, WaitingInv, TablesInv, Inserting, Watched, Settled,
              Running, EndsResponse, HasValue, gdb
<1>2. CASE /\ gdb_stdout # <<>> /\ gdb_stdout' = Tail(gdb_stdout)
           /\ ~EndsResponse(Head(gdb_stdout)) /\ ~HasValue(Head(gdb_stdout))
  <2>1. /\ Len(gdb_stdout) \in Nat \ {0} /\ DOMAIN gdb_stdout = 1 .. Len(gdb_stdout)
        /\ Head(gdb_stdout) = gdb_stdout[1]
        /\ Len(gdb_stdout') = Len(gdb_stdout) - 1
        /\ DOMAIN gdb_stdout' = 1 .. (Len(gdb_stdout) - 1)
        /\ \A i \in 1 .. (Len(gdb_stdout) - 1) : gdb_stdout'[i] = gdb_stdout[i + 1]
        /\ gdb_stdout' = <<>> <=> Len(gdb_stdout) = 1
    BY <1>2, TypesOfPipes, TailFacts
  <2>2. bps' = bps /\ app' = app
    BY DEF gdb
  <2>3. CommandsInv'
    BY DEF Sync, CommandsInv
  <2>4. AnswersInv'
    <3>1. Settled' = Settled
      BY <2>2 DEF Settled, Running
    <3>2. ASSUME NEW i \in DOMAIN gdb_stdout', EndsResponse(gdb_stdout'[i])
          PROVE  /\ wait' \in {"response", "value", "prompt"} /\ Settled'
                 /\ i = Len(gdb_stdout') /\ gdb_stdout'[i].id = asked.id
      <4>1. i + 1 \in DOMAIN gdb_stdout /\ gdb_stdout'[i] = gdb_stdout[i + 1]
        BY <2>1
      <4>2. /\ wait \in {"response", "value", "prompt"} /\ Settled
            /\ i + 1 = Len(gdb_stdout) /\ gdb_stdout[i + 1].id = asked.id
        BY <3>2, <4>1 DEF AnswersInv, Sync
      <4> QED
        BY <2>1, <3>1, <4>1, <4>2
    <3>3. ASSUME NEW i \in DOMAIN gdb_stdout', HasValue(gdb_stdout'[i])
          PROVE  /\ wait' = "value" /\ Settled'
                 /\ i + 1 = Len(gdb_stdout') /\ gdb_stdout'[i].id = asked.id
                 /\ EndsResponse(gdb_stdout'[i + 1])
      <4>1. i + 1 \in DOMAIN gdb_stdout /\ gdb_stdout'[i] = gdb_stdout[i + 1]
        BY <2>1
      <4>2. /\ wait = "value" /\ Settled
            /\ i + 2 = Len(gdb_stdout) /\ gdb_stdout[i + 1].id = asked.id
            /\ EndsResponse(gdb_stdout[i + 2])
        <5>1. /\ wait = "value" /\ Settled
              /\ (i + 1) + 1 = Len(gdb_stdout) /\ gdb_stdout[i + 1].id = asked.id
              /\ EndsResponse(gdb_stdout[(i + 1) + 1])
          BY <3>3, <4>1 DEF AnswersInv, Sync
        <5>2. (i + 1) + 1 = i + 2
          BY <2>1
        <5> QED
          BY <5>1, <5>2
      <4>3. gdb_stdout'[i + 1] = gdb_stdout[i + 2]
        BY <2>1, <4>2
      <4> QED
        BY <2>1, <3>1, <4>1, <4>2, <4>3
    <3> QED
      BY <3>2, <3>3 DEF AnswersInv, EndsResponse, HasValue
  <2>5. WaitingInv'
    <3>1. wait # "prompt"
      BY <1>2, <2>1 DEF WaitingInv, Sync
    <3>2. CASE wait = "response" /\ gdb_stdin = <<>>
      <4>1. Len(gdb_stdout) # 1 /\ EndsResponse(gdb_stdout[Len(gdb_stdout)])
        BY <1>2, <2>1, <3>2 DEF WaitingInv, Sync
      <4>2. gdb_stdout' # <<>> /\ gdb_stdout'[Len(gdb_stdout')] = gdb_stdout[Len(gdb_stdout)]
        BY <2>1, <4>1
      <4> QED
        BY <2>2, <3>2, <4>1, <4>2 DEF WaitingInv, Sync, EndsResponse
    <3>3. CASE ~(wait = "response" /\ gdb_stdin = <<>>)
      BY <2>2, <3>1, <3>3 DEF WaitingInv, Sync
    <3> QED
      BY <3>2, <3>3
  <2>6. TablesInv'
    <3>1. Inserting' = Inserting
      BY DEF Inserting
    <3>2. Watched' = Watched
      <4>1. CASE wait = "response" /\ gdb_stdin = <<>>
        <5>1. Len(gdb_stdout) # 1
          BY <1>2, <2>1, <4>1 DEF WaitingInv, Sync
        <5> QED
          BY <2>1, <4>1, <5>1 DEF Watched
      <4> QED
        BY <4>1 DEF Watched
    <3>3. \A i \in DOMAIN gdb_stdout' :
            gdb_stdout'[i].no <= Len(breakpoints) /\ gdb_stdout'[i].no <= Len(bps)
      <4> SUFFICES ASSUME NEW i \in 1 .. (Len(gdb_stdout) - 1)
                   PROVE  /\ gdb_stdout[i + 1].no <= Len(breakpoints)
                          /\ gdb_stdout[i + 1].no <= Len(bps)
        BY <2>1
      <4>1. i + 1 \in DOMAIN gdb_stdout
        BY <2>1
      <4> QED
        BY <4>1 DEF TablesInv, Sync
    <3> QED
      BY <2>2, <3>1, <3>2, <3>3 DEF TablesInv, Sync
  <2> QED
    BY <2>3, <2>4, <2>5, <2>6 DEF Sync
<1> QED
  BY <1>1, <1>2

(* The answer is read: nothing is left, and the tables agree again.        *)
LEMMA AnswerPreserves ==
  ASSUME TypeOK, Sync, gdb_stdout # <<>>, EndsResponse(Head(gdb_stdout)),
         gdb_stdout' = Tail(gdb_stdout),
         breakpoints' = IF wait = "response" THEN AddOnDone(Head(gdb_stdout)) ELSE breakpoints,
         wait' = IF wait = "value" THEN "value" ELSE "none",
         UNCHANGED <<asked, gdb_stdin, gdb>>
  PROVE  Sync' /\ Head(gdb_stdout).id = asked.id
<1>1. /\ Len(gdb_stdout) \in Nat \ {0} /\ 1 \in DOMAIN gdb_stdout
      /\ Head(gdb_stdout) = gdb_stdout[1]
      /\ DOMAIN gdb_stdout' = 1 .. (Len(gdb_stdout) - 1)
  BY TypesOfPipes, TailFacts
<1>2. /\ wait \in {"response", "value", "prompt"} /\ Settled
      /\ Len(gdb_stdout) = 1 /\ gdb_stdout[1].id = asked.id
  BY <1>1 DEF AnswersInv, Sync
<1>3. DOMAIN gdb_stdout' = {} /\ gdb_stdin' = <<>> /\ bps' = bps /\ app' = app
  BY <1>1, <1>2 DEF Settled, gdb
<1>4. CommandsInv' /\ AnswersInv' /\ WaitingInv'
  BY <1>2, <1>3 DEF CommandsInv, AnswersInv, WaitingInv, Sync, Settled
<1>5. TablesInv'
  <2>1. ~Inserting /\ ~Inserting' /\ ~Watched'
    BY <1>2, <1>3 DEF Inserting, Watched, Settled
  <2>2. CASE Watched
    <3>1. /\ breakpoints' = Append(breakpoints, asked.fn) /\ bps[Len(bps)].fn = asked.fn
          /\ Len(breakpoints) = Len(bps) - 1
          /\ \A n \in 1 .. Len(breakpoints) : n <= Len(bps) => breakpoints[n] = bps[n].fn
      BY <1>1, <1>2, <2>1, <2>2, TypesOfTables DEF Watched, AddOnDone, TablesInv, Sync
    <3>2. asked.fn \in Functions
      BY <2>2 DEF Watched, TypeOK, Command
    <3>3. /\ Len(breakpoints') = Len(breakpoints) + 1
          /\ breakpoints'[Len(breakpoints) + 1] = asked.fn
          /\ \A n \in 1 .. Len(breakpoints) : breakpoints'[n] = breakpoints[n]
      <4>1. breakpoints \in Seq(Functions)
        BY TypesOfTables
      <4>2. \A f \in Functions :
              /\ Len(Append(breakpoints, f)) = Len(breakpoints) + 1
              /\ Append(breakpoints, f)[Len(breakpoints) + 1] = f
              /\ \A n \in 1 .. Len(breakpoints) : Append(breakpoints, f)[n] = breakpoints[n]
        BY <4>1, AppendFacts
      <4>3. breakpoints' = Append(breakpoints, asked.fn)
        BY <3>1
      <4> QED
        BY <3>2, <4>2, <4>3
    <3> QED
      BY <1>3, <2>1, <3>1, <3>3, TypesOfTables DEF TablesInv
  <2>3. CASE ~Watched
    <3>1. breakpoints' = breakpoints
      BY <1>1, <1>2, <2>3 DEF Watched, AddOnDone, Settled
    <3> QED
      BY <1>3, <2>1, <2>3, <3>1 DEF TablesInv, Sync
  <2> QED
    BY <2>2, <2>3
<1> QED
  BY <1>1, <1>2, <1>4, <1>5 DEF Sync

(* The value of a call is read: its "^done" is the one line left.          *)
LEMMA ValuePreserves ==
  ASSUME TypeOK, Sync, gdb_stdout # <<>>, HasValue(Head(gdb_stdout)),
         gdb_stdout' = Tail(gdb_stdout), wait' = "prompt",
         UNCHANGED <<breakpoints, asked, gdb_stdin, gdb>>
  PROVE  Sync' /\ wait = "value" /\ Head(gdb_stdout).id = asked.id
<1>1. /\ Len(gdb_stdout) \in Nat \ {0} /\ DOMAIN gdb_stdout = 1 .. Len(gdb_stdout)
      /\ Head(gdb_stdout) = gdb_stdout[1]
      /\ Len(gdb_stdout') = Len(gdb_stdout) - 1
      /\ DOMAIN gdb_stdout' = 1 .. (Len(gdb_stdout) - 1)
      /\ \A i \in 1 .. (Len(gdb_stdout) - 1) : gdb_stdout'[i] = gdb_stdout[i + 1]
  BY TypesOfPipes, TailFacts
<1>2. /\ wait = "value" /\ Settled /\ Len(gdb_stdout) = 2 /\ gdb_stdout[1].id = asked.id
      /\ EndsResponse(gdb_stdout[2])
  BY <1>1 DEF AnswersInv, Sync
<1>3. /\ Len(gdb_stdout') = 1 /\ DOMAIN gdb_stdout' = {1} /\ gdb_stdout'[1] = gdb_stdout[2]
      /\ bps' = bps /\ app' = app /\ 2 \in DOMAIN gdb_stdout
  BY <1>1, <1>2 DEF gdb
<1>4. gdb_stdout[2].id = asked.id /\ ~HasValue(gdb_stdout[2])
  BY <1>2, <1>3 DEF AnswersInv, Sync, HasValue, EndsResponse, FinalKinds
<1>5. Settled'
  BY <1>2, <1>3 DEF Settled, Running
<1>6. CommandsInv' /\ AnswersInv' /\ WaitingInv'
  BY <1>2, <1>3, <1>4, <1>5
     DEF CommandsInv, AnswersInv, WaitingInv, Sync, Settled, EndsResponse, HasValue
<1>7. TablesInv'
  BY <1>2, <1>3 DEF TablesInv, Sync, Inserting, Watched
<1> QED
  BY <1>1, <1>2, <1>6, <1>7 DEF Sync

(* While the application runs or a command is left to execute, no answer   *)
(* is unread.                                                              *)
LEMMA NoAnswers ==
  ASSUME TypeOK, Sync, ~Settled
  PROVE  /\ \A i \in DOMAIN gdb_stdout :
              ~EndsResponse(gdb_stdout[i]) /\ ~HasValue(gdb_stdout[i])
         /\ wait # "prompt" /\ ~Watched /\ (wait = "response" => gdb_stdin # <<>>)
<1>1. \A i \in DOMAIN gdb_stdout : ~EndsResponse(gdb_stdout[i]) /\ ~HasValue(gdb_stdout[i])
  BY DEF Sync, AnswersInv
<1>2. wait = "response" => gdb_stdin # <<>>
  BY <1>1, TypesOfPipes DEF Sync, WaitingInv
<1> QED
  BY <1>1, <1>2 DEF Sync, WaitingInv, Watched

(* The application runs, or gdb resumes it: lines that are no answers.     *)
LEMMA RunPreserves ==
  ASSUME TypeOK, Sync,
         \/ Running /\ gdb_stdin' = gdb_stdin
         \/ /\ gdb_stdin # <<>> /\ Head(gdb_stdin).op \in ExecOps
            /\ gdb_stdin' = Tail(gdb_stdin),
         app' # "gone",
         \A i \in DOMAIN gdb_stdout' :
           \/ i \in DOMAIN gdb_stdout /\ gdb_stdout'[i] = gdb_stdout[i]
           \/ /\ ~EndsResponse(gdb_stdout'[i]) /\ ~HasValue(gdb_stdout'[i])
              /\ gdb_stdout'[i].no \in 0 .. Len(bps),
         Len(bps') = Len(bps),
         \A n \in 1 .. Len(bps) : bps'[n].fn = bps[n].fn,
         UNCHANGED <<breakpoints, asked, wait>>
  PROVE  Sync'
<1>1. ~Settled
  BY DEF Settled
<1>2. \A i \in DOMAIN gdb_stdout' : ~EndsResponse(gdb_stdout'[i]) /\ ~HasValue(gdb_stdout'[i])
  BY <1>1, NoAnswers
<1>3. /\ wait = "response" => gdb_stdin' # <<>> /\ gdb_stdin'[Len(gdb_stdin')] = asked
      /\ CommandsInv'
  <2>1. CASE gdb_stdin' = gdb_stdin
    BY <1>1, <2>1, NoAnswers DEF WaitingInv, CommandsInv, Sync
  <2>2. CASE /\ gdb_stdin # <<>> /\ Head(gdb_stdin).op \in ExecOps
             /\ gdb_stdin' = Tail(gdb_stdin)
    <3>1. /\ Len(gdb_stdin) \in Nat \ {0} /\ DOMAIN gdb_stdin = 1 .. Len(gdb_stdin)
          /\ Head(gdb_stdin) = gdb_stdin[1]
          /\ Len(gdb_stdin') = Len(gdb_stdin) - 1
          /\ DOMAIN gdb_stdin' = 1 .. (Len(gdb_stdin) - 1)
          /\ \A i \in 1 .. (Len(gdb_stdin) - 1) : gdb_stdin'[i] = gdb_stdin[i + 1]
          /\ gdb_stdin' = <<>> <=> Len(gdb_stdin) = 1
      BY <2>2, TypesOfPipes, TailFacts
    <3>2. wait = "response" => Len(gdb_stdin) # 1
      BY <2>2, <3>1 DEF WaitingInv, Sync, AskOps, ExecOps
    <3>3. CommandsInv'
      <4>1. ASSUME NEW i \in DOMAIN gdb_stdin', gdb_stdin'[i].op \notin ExecOps
            PROVE  /\ wait \in {"response", "value"}
                   /\ i = Len(gdb_stdin') /\ gdb_stdin'[i] = asked
        <5>1. i + 1 \in DOMAIN gdb_stdin /\ gdb_stdin'[i] = gdb_stdin[i + 1]
          BY <3>1
        <5> QED
          BY <3>1, <4>1, <5>1 DEF CommandsInv, Sync
      <4> QED
        BY <4>1 DEF CommandsInv
    <3>4. wait = "response" => gdb_stdin'[Len(gdb_stdin')] = gdb_stdin[Len(gdb_stdin)]
      BY <3>1, <3>2
    <3> QED
      BY <2>2, <3>1, <3>2, <3>3, <3>4 DEF WaitingInv, Sync
  <2> QED
    BY <2>1, <2>2
<1>4. AnswersInv'
  BY <1>2 DEF AnswersInv, EndsResponse, HasValue
<1>5. WaitingInv'
  BY <1>1, <1>3, NoAnswers DEF WaitingInv, Sync
<1>6. TablesInv'
  <2>1. Inserting' = Inserting /\ ~Watched /\ ~Watched'
    BY <1>1, <1>3, NoAnswers DEF Inserting, Watched
  <2>2. Len(bps) <= Len(breakpoints)
    BY <2>1, TypesOfTables DEF TablesInv, Sync
  <2>3. \A i \in DOMAIN gdb_stdout' :
          gdb_stdout'[i].no <= Len(breakpoints) /\ gdb_stdout'[i].no <= Len(bps)
    <3> TAKE i \in DOMAIN gdb_stdout'
    <3>1. CASE i \in DOMAIN gdb_stdout /\ gdb_stdout'[i] = gdb_stdout[i]
      BY <3>1 DEF TablesInv, Sync
    <3>2. CASE gdb_stdout'[i].no \in 0 .. Len(bps)
      BY <2>2, <3>2, TypesOfTables
    <3> QED
      BY <3>1, <3>2
  <2> QED
    BY <2>1, <2>3, TypesOfTables DEF TablesInv, Sync
<1> QED
  BY <1>3, <1>4, <1>5, <1>6 DEF Sync

(* gdb executes the command opd waits for.                                 *)
LEMMA HeadIsAsked ==
  ASSUME TypeOK, Sync, gdb_stdin # <<>>, Head(gdb_stdin).op \notin ExecOps,
         gdb_stdin' = Tail(gdb_stdin)
  PROVE  /\ Head(gdb_stdin) = asked /\ gdb_stdin' = <<>> /\ wait \in {"response", "value"}
         /\ wait = "response" => asked.op \in AskOps
         /\ wait = "value" => asked.op \in CallOps
<1>1. /\ DOMAIN gdb_stdin = 1 .. Len(gdb_stdin) /\ Len(gdb_stdin) \in Nat \ {0}
      /\ Head(gdb_stdin) = gdb_stdin[1]
      /\ Tail(gdb_stdin) = <<>> <=> Len(gdb_stdin) = 1
  BY TypesOfPipes, TailFacts
<1>2. Head(gdb_stdin) = asked /\ Len(gdb_stdin) = 1 /\ wait \in {"response", "value"}
  BY <1>1 DEF CommandsInv, Sync
<1> QED
  BY <1>1, <1>2 DEF WaitingInv, Sync

(* gdb answers the one command opd waits for with one record.              *)
LEMMA ReplyPreserves ==
  ASSUME TypeOK, Sync, gdb_stdin # <<>>, Head(gdb_stdin).op \notin ExecOps,
         gdb_stdin' = Tail(gdb_stdin), ~Running, NEW k \in FinalKinds, Answer(k),
         \/ bps' = bps /\ Head(gdb_stdin).op # "break"
                       /\ (Head(gdb_stdin).op = "watch" => k # "done")
         \/ k = "done" /\ Head(gdb_stdin).op \in {"break", "watch"}
                       /\ \E kind \in {"break", "watch"} : Added(kind),
         UNCHANGED <<breakpoints, asked, wait, app>>
  PROVE  Sync'
<1> DEFINE r == Reply(k, asked)
<1>1. /\ Head(gdb_stdin) = asked /\ gdb_stdin' = <<>> /\ wait \in {"response", "value"}
      /\ wait = "response" => asked.op \in AskOps
      /\ wait = "value" => asked.op \in CallOps
  BY HeadIsAsked
<1>2. r \in Line /\ r.id = asked.id /\ r.no = 0 /\ r.kind = k
  <2>1. asked.id \in Nat
    BY DEF TypeOK, Command
  <2> QED
    BY <2>1 DEF Reply, Line, Kinds
<1>3. /\ gdb_stdout' = Append(gdb_stdout, r)
      /\ Len(gdb_stdout) \in Nat /\ Len(gdb_stdout') = Len(gdb_stdout) + 1
      /\ DOMAIN gdb_stdout = 1 .. Len(gdb_stdout)
      /\ DOMAIN gdb_stdout' = 1 .. (Len(gdb_stdout) + 1)
      /\ \A i \in 1 .. Len(gdb_stdout) : gdb_stdout'[i] = gdb_stdout[i]
      /\ gdb_stdout'[Len(gdb_stdout) + 1] = r /\ gdb_stdout' # <<>>
  <2>1. gdb_stdout' = Append(gdb_stdout, r)
    BY <1>1 DEF Answer, Put
  <2> QED
    BY <1>2, <2>1, TypesOfPipes, AppendFacts
<1>4. /\ \A i \in DOMAIN gdb_stdout : ~EndsResponse(gdb_stdout[i]) /\ ~HasValue(gdb_stdout[i])
      /\ ~Watched
  BY NoAnswers DEF Settled
<1>5. Settled' /\ EndsResponse(r) /\ ~HasValue(r)
  BY <1>1, <1>2 DEF Settled, Running, EndsResponse, HasValue, FinalKinds
<1>6. CommandsInv'
  BY <1>1 DEF CommandsInv
<1>7. AnswersInv'
  <2>1. ASSUME NEW i \in DOMAIN gdb_stdout'
        PROVE  /\ EndsResponse(gdb_stdout'[i]) =>
                    i = Len(gdb_stdout') /\ gdb_stdout'[i].id = asked.id
               /\ ~HasValue(gdb_stdout'[i])
    <3>1. CASE i \in 1 .. Len(gdb_stdout)
      BY <1>3, <1>4, <3>1
    <3>2. CASE i = Len(gdb_stdout) + 1
      BY <1>2, <1>3, <1>5, <3>2
    <3> QED
      BY <1>3, <3>1, <3>2
  <2> QED
    BY <1>1, <1>5, <2>1 DEF AnswersInv, EndsResponse, HasValue
<1>8. WaitingInv'
  BY <1>1, <1>3, <1>5 DEF WaitingInv, Sync, EndsResponse
<1>9. TablesInv'
  <2>1. Inserting <=> asked.op = "break"
    BY <1>1 DEF Inserting, AskOps, CallOps
  <2>2. ~Inserting' /\ (Watched' <=> (asked.op = "watch" /\ k = "done"))
    <3>1. gdb_stdout'[Len(gdb_stdout')].kind = k
      BY <1>2, <1>3
    <3>2. wait = "value" => asked.op # "watch"
      BY <1>1 DEF CallOps
    <3> QED
      BY <1>1, <3>1, <3>2 DEF Inserting, Watched
  <2>3. \A i \in DOMAIN gdb_stdout' :
          gdb_stdout'[i].no <= Len(breakpoints) /\ gdb_stdout'[i].no <= Len(bps)
    <3>1. Len(breakpoints) \in Nat /\ Len(bps) \in Nat
      BY TypesOfTables
    <3>2. \A i \in 1 .. Len(gdb_stdout) :
            gdb_stdout[i].no <= Len(breakpoints) /\ gdb_stdout[i].no <= Len(bps)
      BY <1>3 DEF TablesInv, Sync
    <3>3. gdb_stdout'[Len(gdb_stdout) + 1].no = 0
      BY <1>2, <1>3
    <3> QED
      BY <1>3, <3>1, <3>2, <3>3
  <2>4. \A i \in DOMAIN gdb_stdout' : gdb_stdout'[i].no \in Nat
    BY <1>2, <1>3, TypesOfPipes DEF Line
  <2>5. CASE bps' = bps /\ asked.op # "break" /\ (asked.op = "watch" => k # "done")
    BY <1>4, <2>1, <2>2, <2>3, <2>5 DEF TablesInv, Sync
  <2>6. CASE k = "done" /\ asked.op \in {"break", "watch"}
             /\ \E kind \in {"break", "watch"} : Added(kind)
    <3>1. asked.fn \in Functions
      BY <2>6 DEF TypeOK, Command
    <3>2. PICK kind \in {"break", "watch"} :
            bps' = Append(bps, [kind |-> kind, fn |-> asked.fn, live |-> TRUE])
      BY <1>1, <2>6 DEF Added
    <3>3. [kind |-> kind, fn |-> asked.fn, live |-> TRUE] \in
            [kind : {"break", "watch"}, fn : Functions, live : BOOLEAN]
      BY <3>1
    <3>4. /\ Len(bps') = Len(bps) + 1 /\ Len(bps) \in Nat
          /\ bps'[Len(bps) + 1] = [kind |-> kind, fn |-> asked.fn, live |-> TRUE]
          /\ \A n \in 1 .. Len(bps) : bps'[n] = bps[n]
      <4>1. bps \in Seq([kind : {"break", "watch"}, fn : Functions, live : BOOLEAN])
        BY TypesOfTables
      <4> QED
        BY <3>2, <3>3, <4>1, AppendFacts
    <3>5. bps'[Len(bps) + 1].fn = asked.fn
      BY <3>4
    <3>6. /\ Len(breakpoints) = Len(bps) + (IF asked.op = "break" THEN 1 ELSE 0)
          /\ \A n \in 1 .. Len(breakpoints) : n <= Len(bps) => breakpoints[n] = bps[n].fn
          /\ asked.op = "break" => breakpoints[Len(breakpoints)] = asked.fn
      BY <1>4, <2>1 DEF TablesInv, Sync
    <3>7. Len(breakpoints) = Len(bps') + (IF Watched' THEN -1 ELSE 0)
      BY <2>2, <2>6, <3>4, <3>6
    <3>8. \A n \in 1 .. Len(breakpoints) : n <= Len(bps') => breakpoints[n] = bps'[n].fn
      BY <2>6, <3>4, <3>5, <3>6
    <3>9. \A i \in DOMAIN gdb_stdout' :
            gdb_stdout'[i].no <= Len(breakpoints) /\ gdb_stdout'[i].no <= Len(bps')
      BY <2>3, <2>4, <3>4
    <3> QED
      BY <2>2, <3>4, <3>5, <3>7, <3>8, <3>9 DEF TablesInv
  <2> QED
    BY <1>1, <2>5, <2>6
<1> QED
  BY <1>6, <1>7, <1>8, <1>9 DEF Sync

(* gdb answers a call with a value and a result.                           *)
LEMMA CallPreserves ==
  ASSUME TypeOK, Sync, gdb_stdin # <<>>, Head(gdb_stdin).op \in CallOps,
         gdb_stdin' = Tail(gdb_stdin), ~Running,
         Put2(Reply("value", Head(gdb_stdin)), Reply("done", Head(gdb_stdin))),
         UNCHANGED <<breakpoints, asked, wait, app, bps>>
  PROVE  Sync'
<1> DEFINE v == Reply("value", asked)
           d == Reply("done", asked)
           n == Len(gdb_stdout)
<1>1. /\ Head(gdb_stdin) = asked /\ gdb_stdin' = <<>> /\ wait = "value"
  BY HeadIsAsked DEF ExecOps, CallOps, AskOps
<1>2. /\ v \in Line /\ v.id = asked.id /\ v.no = 0 /\ v.kind = "value"
      /\ d \in Line /\ d.id = asked.id /\ d.no = 0 /\ d.kind = "done"
  <2>1. asked.id \in Nat
    BY DEF TypeOK, Command
  <2> QED
    BY <2>1 DEF Reply, Line, Kinds, FinalKinds
<1>3. /\ n \in Nat /\ Len(gdb_stdout') = n + 2
      /\ DOMAIN gdb_stdout = 1 .. n /\ DOMAIN gdb_stdout' = 1 .. (n + 2)
      /\ \A i \in 1 .. n : gdb_stdout'[i] = gdb_stdout[i]
      /\ gdb_stdout'[n + 1] = v /\ gdb_stdout'[n + 2] = d
  <2> DEFINE s == Append(gdb_stdout, v)
  <2>1. gdb_stdout' = Append(s, d)
    BY <1>1 DEF Put2
  <2>2. /\ s \in Seq(Line) /\ Len(s) = n + 1 /\ n \in Nat
        /\ DOMAIN gdb_stdout = 1 .. n
        /\ \A i \in 1 .. n : s[i] = gdb_stdout[i]
        /\ s[n + 1] = v
    BY <1>2, TypesOfPipes, AppendFacts
  <2> HIDE DEF s
  <2>3. /\ Len(gdb_stdout') = Len(s) + 1 /\ DOMAIN gdb_stdout' = 1 .. (Len(s) + 1)
        /\ \A i \in 1 .. Len(s) : gdb_stdout'[i] = s[i]
        /\ gdb_stdout'[Len(s) + 1] = d
    BY <1>2, <2>1, <2>2, AppendFacts
  <2> QED
    BY <2>2, <2>3
<1>4. /\ \A i \in DOMAIN gdb_stdout : ~EndsResponse(gdb_stdout[i]) /\ ~HasValue(gdb_stdout[i])
      /\ ~Watched
  BY NoAnswers DEF Settled
<1>5. /\ Settled' /\ EndsResponse(d) /\ ~HasValue(d) /\ ~EndsResponse(v)
  BY <1>1, <1>2 DEF Settled, Running, EndsResponse, HasValue, FinalKinds
<1> HIDE DEF v, d, n
<1>6. CommandsInv' /\ WaitingInv'
  BY <1>1 DEF CommandsInv, WaitingInv, Sync
<1>7. AnswersInv'
  <2>1. ASSUME NEW i \in DOMAIN gdb_stdout'
        PROVE  /\ EndsResponse(gdb_stdout'[i]) =>
                    i = Len(gdb_stdout') /\ gdb_stdout'[i].id = asked.id
               /\ HasValue(gdb_stdout'[i]) =>
                    /\ i + 1 = Len(gdb_stdout') /\ gdb_stdout'[i].id = asked.id
                    /\ EndsResponse(gdb_stdout'[i + 1])
    <3>1. CASE i \in 1 .. n
      BY <1>3, <1>4, <3>1
    <3>2. CASE i = n + 1
      <4>1. i + 1 = n + 2
        BY <1>3, <3>2
      <4> QED
        BY <1>2, <1>3, <1>5, <3>2, <4>1
    <3>3. CASE i = n + 2
      BY <1>2, <1>3, <1>5, <3>3
    <3> QED
      BY <1>3, <3>1, <3>2, <3>3
  <2> QED
    BY <1>1, <1>5, <2>1 DEF AnswersInv, EndsResponse, HasValue
<1>8. TablesInv'
  <2>1. ~Inserting /\ ~Inserting' /\ ~Watched'
    BY <1>1 DEF Inserting, Watched
  <2>2. Len(breakpoints) \in Nat /\ Len(bps) \in Nat
    BY TypesOfTables
  <2>3. \A i \in DOMAIN gdb_stdout' :
          gdb_stdout'[i].no <= Len(breakpoints) /\ gdb_stdout'[i].no <= Len(bps)
    <3> TAKE i \in DOMAIN gdb_stdout'
    <3>1. CASE i \in 1 .. n
      BY <1>3, <3>1 DEF TablesInv, Sync
    <3>2. CASE i = n + 1 \/ i = n + 2
      BY <1>2, <1>3, <2>2, <3>2
    <3> QED
      BY <1>3, <3>1, <3>2
  <2> QED
    BY <1>4, <2>1, <2>3 DEF TablesInv, Sync
<1> QED
  BY <1>6, <1>7, <1>8 DEF Sync

----------------------------------------------------------------------------
(* The inductive invariant holds in every behaviour.                       *)

(* Every reading loop of gdbmi.c keeps opd and gdb in step.                *)
LEMMA ReadPreserves ==
  ASSUME TypeOK, Sync, Read
  PROVE  Sync'
<1> DEFINE FromStderr(l) == /\ l = Plain("stderr") /\ gdb_stdout' = gdb_stdout
                            /\ event' = "GDB_STDERR"
           FromStdout(l) == /\ gdb_stdout # <<>> /\ l = Head(gdb_stdout)
                            /\ gdb_stdout' = Tail(gdb_stdout)
                            /\ event' = EventOfKind[l.kind]
<1>1. ASSUME NEW l \in Incoming, gdb_next_event(l)
      PROVE  /\ FromStderr(l) \/ FromStdout(l)
             /\ UNCHANGED <<asked, gdb_stdin, gdb>>
  <2>1. app # "gone"
    BY DEF Sync, WaitingInv
  <2>2. gdb_stderr \in Nat
    BY DEF TypeOK
  <2> QED
    BY <1>1, <2>1, <2>2 DEF gdb_next_event
<1>2. ~EndsResponse(Plain("stderr")) /\ ~HasValue(Plain("stderr"))
  BY DEF EndsResponse, HasValue, Plain, FinalKinds
<1>3. \A l : EndsResponse(l) => ~HasValue(l)
  BY DEF EndsResponse, HasValue, FinalKinds
<1>4. gdb_stdout # <<>> => Head(gdb_stdout) = gdb_stdout[1] /\ 1 \in DOMAIN gdb_stdout
  BY TypesOfPipes, TailFacts
<1>5. CASE ReadEvent \/ ReadSigint
  <2>1. PICK l \in Incoming : gdb_next_event(l)
    BY <1>5 DEF ReadEvent, ReadSigint
  <2>2. /\ wait \in {"none", "sigint"} /\ breakpoints' = breakpoints
        /\ wait' = wait \/ (wait = "sigint" /\ wait' = "none")
    BY <1>5 DEF ReadEvent, ReadSigint
  <2>3. gdb_stdout # <<>> => ~EndsResponse(Head(gdb_stdout)) /\ ~HasValue(Head(gdb_stdout))
    BY <1>4, <2>2 DEF Sync, AnswersInv
  <2> QED
    BY <1>1, <2>1, <2>2, <2>3, SkipPreserves
<1>6. CASE gdb_getresponse
  <2>1. PICK l \in Incoming :
          /\ gdb_next_event(l)
          /\ wait' = IF EndsResponse(l) THEN "none" ELSE "response"
          /\ breakpoints' = AddOnDone(l)
    BY <1>6 DEF gdb_getresponse
  <2>2. wait = "response"
    BY <1>6 DEF gdb_getresponse
  <2>3. CASE EndsResponse(l)
    BY <1>1, <1>2, <2>1, <2>2, <2>3, AnswerPreserves
  <2>4. CASE ~EndsResponse(l)
    <3>1. breakpoints' = breakpoints
      BY <2>1, <2>4 DEF AddOnDone, EndsResponse, FinalKinds
    <3>2. gdb_stdout # <<>> => ~HasValue(Head(gdb_stdout))
      BY <1>4, <2>2 DEF Sync, AnswersInv
    <3> QED
      BY <1>1, <2>1, <2>2, <2>4, <3>1, <3>2, SkipPreserves
  <2> QED
    BY <2>3, <2>4
<1>7. CASE ReadValue
  <2>1. PICK l \in Incoming :
          /\ gdb_next_event(l)
          /\ wait' = IF HasValue(l) THEN "prompt" ELSE "value"
    BY <1>7 DEF ReadValue
  <2>2. wait = "value" /\ breakpoints' = breakpoints
    BY <1>7 DEF ReadValue
  <2>3. CASE HasValue(l)
    BY <1>1, <1>2, <2>1, <2>2, <2>3, ValuePreserves
  <2>4. CASE EndsResponse(l)
    BY <1>1, <1>2, <1>3, <2>1, <2>2, <2>4, AnswerPreserves
  <2>5. CASE ~HasValue(l) /\ ~EndsResponse(l)
    BY <1>1, <2>1, <2>2, <2>5, SkipPreserves
  <2> QED
    BY <2>3, <2>4, <2>5
<1>8. CASE gdb_waitforprompt
  <2>1. PICK l \in Incoming :
          /\ gdb_next_event(l)
          /\ wait' = IF EndsWait(event', "GDB_PROMPT") THEN "none"
                       ELSE IF event' # "GDB_STDERR" /\ PromptFollows(l)
                         THEN "none" ELSE "prompt"
    BY <1>8 DEF gdb_waitforprompt
  <2>2. wait = "prompt" /\ breakpoints' = breakpoints
    BY <1>8 DEF gdb_waitforprompt
  <2>3. CASE FromStderr(l)
    <3>1. wait' = "prompt"
      BY <2>1, <2>3 DEF EndsWait
    <3> QED
      BY <1>1, <2>1, <2>2, <2>3, <3>1, SkipPreserves
  <2>4. CASE FromStdout(l)
    <3>1. EndsResponse(l)
      BY <1>4, <2>2, <2>4 DEF Sync, WaitingInv
    <3>2. PromptFollows(l)
      BY <3>1 DEF PromptFollows, EndsResponse
    <3>3. l.kind \in {"done", "error", "notrunning"}
      BY <3>1 DEF EndsResponse, FinalKinds
    <3>4. EventOfKind[l.kind] # "GDB_STDERR"
      BY <3>3 DEF EventOfKind, Kinds, FinalKinds
    <3>5. wait' = "none"
      BY <2>1, <2>4, <3>2, <3>4
    <3> QED
      BY <1>1, <2>1, <2>2, <2>4, <3>1, <3>5, AnswerPreserves
  <2> QED
    BY <1>1, <2>1, <2>3, <2>4
<1> QED
  BY <1>5, <1>6, <1>7, <1>8 DEF Read

(* The functions of gdbmi.c that send a command and, unless it resumes the *)
(* application, read its answer: all but gdb_set_arguments, which leaves   *)
(* its answer on the pipe, and gdb_exit.                                   *)
SendInStep ==
  \/ gdb_start_run \/ gdb_continue \/ gdb_stepNext \/ gdb_stepFinish
  \/ gdb_query \/ gdb_call \/ gdb_setPID \/ gdb_interrupt
  \/ WriteBroken
  \/ \E f \in Functions : gdb_setBreakpoint(f) \/ gdb_setWatchpoint(f) \/ gdb_step(f)

(* Each of them keeps opd and gdb in step, whatever happened before.       *)
LEMMA SendPreserves ==
  ASSUME TypeOK, Sync, SendInStep
  PROVE  Sync'
<1>1. CASE \/ gdb_start_run \/ gdb_continue \/ gdb_stepNext \/ gdb_stepFinish
           \/ \E f \in Functions : gdb_step(f)
  <2>1. \E op \in ExecOps : Fire(op)
    BY <1>1 DEF gdb_start_run, gdb_continue, gdb_stepNext, gdb_stepFinish, gdb_step, ExecOps
  <2> QED
    BY <2>1, FirePreserves
<1>2. CASE gdb_query \/ gdb_call \/ gdb_setPID
  <2>1. /\ breakpoints' = breakpoints
        /\ \/ Ask("query", NoFunction, "response")
           \/ Ask("call", NoFunction, "value")
           \/ Ask("getpid", NoFunction, "value")
    BY <1>2 DEF gdb_query, gdb_call, gdb_setPID
  <2> QED
    BY <2>1, AskPreserves DEF AskOps, CallOps
<1>3. ASSUME NEW f \in Functions, gdb_setBreakpoint(f) \/ gdb_setWatchpoint(f)
      PROVE  Sync'
  <2>1. CASE gdb_setBreakpoint(f)
    BY <2>1, AskPreserves DEF gdb_setBreakpoint, AskOps
  <2>2. CASE gdb_setWatchpoint(f)
    BY <2>2, AskPreserves DEF gdb_setWatchpoint, AskOps
  <2> QED
    BY <1>3, <2>1, <2>2
<1>4. CASE gdb_interrupt
  <2>1. /\ wait = "none" /\ wait' \in {"killed", "sigint"}
        /\ UNCHANGED <<breakpoints, asked, gdb_stdin, gdb_stdout, bps, app>>
    BY <1>4 DEF gdb_interrupt, pipes
  <2>2. CommandsInv' /\ AnswersInv'
    BY <2>1, NothingUnread DEF CommandsInv, AnswersInv, EndsResponse, HasValue
  <2>3. WaitingInv' /\ TablesInv'
    BY <2>1 DEF WaitingInv, TablesInv, Inserting, Watched, Sync
  <2> QED
    BY <2>2, <2>3 DEF Sync
<1>5. CASE WriteBroken
  BY <1>5 DEF WriteBroken, Sync, WaitingInv
<1> QED
  BY <1>1, <1>2, <1>3, <1>4, <1>5 DEF SendInStep

(* Every command gdb executes does, if it refuses no insertion, resumption *)
(* or step.                                                                *)
LEMMA ExecutePreserves ==
  ASSUME TypeOK, Sync, GdbExecute, "insert" \notin blame', "exec" \notin blame'
  PROVE  Sync'
<1> DEFINE c == Head(gdb_stdin)
<1>1. /\ gdb_stdin # <<>> /\ gdb_stdin' = Tail(gdb_stdin) /\ ~Running
      /\ UNCHANGED <<breakpoints, asked, wait>>
  BY DEF GdbExecute, GdbQuery, GdbInsert, GdbWatch, GdbCall, Resume, ResumeFaulted,
         RefuseResume, GdbExit, Execute, opd
<1>2. CASE GdbQuery
  BY <1>1, <1>2, ReplyPreserves DEF GdbQuery, Execute, ExecOps, FinalKinds
<1>3. CASE GdbInsert
  <2>1. c.op = "break" /\ Answer("done") /\ Added("break") /\ app' = app
    BY <1>3 DEF GdbInsert, Execute
  <2> QED
    BY <1>1, <2>1, ReplyPreserves DEF ExecOps, FinalKinds
<1>4. CASE GdbWatch
  BY <1>1, <1>4, ReplyPreserves DEF GdbWatch, Execute, ExecOps, FinalKinds
<1>5. CASE GdbCall
  <2>1. c.op \in CallOps /\ app' = app /\ bps' = bps
    BY <1>5 DEF GdbCall, Execute
  <2>2. CASE Put2(Reply("value", c), Reply("done", c))
    BY <1>1, <2>1, <2>2, CallPreserves
  <2>3. CASE Answer("error") \/ Answer("done")
    BY <1>1, <2>1, <2>3, ReplyPreserves DEF ExecOps, CallOps, FinalKinds
  <2> QED
    BY <1>5, <2>2, <2>3 DEF GdbCall
<1>6. CASE Resume \/ ResumeFaulted
  <2>1. c \in Command /\ gdb_stdout \in Seq(Line) /\ Len(bps) \in Nat /\ c.id \in Nat
    <3>1. c \in Command
      BY <1>1, TypesOfPipes
    <3> QED
      BY <3>1, TypesOfPipes, TypesOfTables DEF Command
  <2> DEFINE r == Reply("running", c)
             s == Stop("SIGSEGV", 0)
  <2>2. /\ r \in Line /\ ~EndsResponse(r) /\ ~HasValue(r) /\ r.no = 0
        /\ s \in Line /\ ~EndsResponse(s) /\ ~HasValue(s) /\ s.no = 0
    BY <2>1 DEF Reply, Stop, Line, Kinds, StopKinds, FinalKinds, EndsResponse, HasValue
  <2> HIDE DEF r, s
  <2>3. \A l \in {r, s} : ~EndsResponse(l) /\ ~HasValue(l) /\ l.no \in 0 .. Len(bps)
    BY <2>1, <2>2
  <2>4. \/ gdb_stdout' = Append(gdb_stdout, r)
        \/ gdb_stdout' = Append(Append(gdb_stdout, r), s)
    BY <1>6 DEF Resume, ResumeFaulted, Answer, Put, Put2, r, s
  <2>5. \A i \in DOMAIN gdb_stdout' : \/ i \in DOMAIN gdb_stdout /\ gdb_stdout'[i] = gdb_stdout[i]
                                      \/ gdb_stdout'[i] \in {r, s}
    <3> DEFINE t == Append(gdb_stdout, r)
    <3>1. /\ t \in Seq(Line) /\ Len(gdb_stdout) \in Nat /\ Len(t) = Len(gdb_stdout) + 1
          /\ DOMAIN gdb_stdout = 1 .. Len(gdb_stdout) /\ DOMAIN t = 1 .. (Len(gdb_stdout) + 1)
          /\ \A i \in 1 .. Len(gdb_stdout) : t[i] = gdb_stdout[i]
          /\ t[Len(gdb_stdout) + 1] = r
      BY <2>1, <2>2, AppendFacts
    <3> HIDE DEF t
    <3>2. /\ DOMAIN Append(t, s) = 1 .. (Len(t) + 1)
          /\ \A i \in 1 .. Len(t) : Append(t, s)[i] = t[i]
          /\ Append(t, s)[Len(t) + 1] = s
      BY <2>2, <3>1, AppendFacts
    <3>3. CASE gdb_stdout' = t
      BY <3>1, <3>3
    <3>4. CASE gdb_stdout' = Append(t, s)
      BY <3>1, <3>2, <3>4
    <3> QED
      BY <2>4, <3>3, <3>4 DEF t
  <2>6. c.op \in ExecOps /\ bps' = bps /\ app' # "gone"
    BY <1>6 DEF Resume, ResumeFaulted, Execute, ExecOps
  <2> QED
    BY <1>1, <2>3, <2>5, <2>6, RunPreserves
<1>7. CASE RefuseResume
  BY <1>7 DEF RefuseResume
<1>8. CASE GdbExit
  <2>1. c.op = "exit"
    BY <1>8 DEF GdbExit, Execute
  <2>2. c = asked /\ asked.op \in AskOps \cup CallOps
    BY <1>1, <2>1, HeadIsAsked DEF ExecOps
  <2> QED
    BY <2>1, <2>2 DEF AskOps, CallOps
<1> QED
  BY <1>2, <1>3, <1>4, <1>5, <1>6, <1>7, <1>8 DEF GdbExecute

(* The application, whatever it does, puts nothing out of step.            *)
LEMMA AppPreserves ==
  ASSUME TypeOK, Sync, AppRuns
  PROVE  Sync'
<1> DEFINE Harmless(l) == ~EndsResponse(l) /\ ~HasValue(l) /\ l.no \in 0 .. Len(bps)
<1>0. /\ bps \in Seq([kind : {"break", "watch"}, fn : Functions, live : BOOLEAN])
      /\ Len(bps) \in Nat /\ DOMAIN bps = 1 .. Len(bps)
  BY TypesOfTables
<1>1. ASSUME NEW l \in Line, Harmless(l), Put(l), Running, app' # "gone",
             Len(bps') = Len(bps), \A n \in 1 .. Len(bps) : bps'[n].fn = bps[n].fn,
             UNCHANGED <<breakpoints, asked, wait, gdb_stdin>>
      PROVE  Sync'
  <2>1. \A i \in DOMAIN gdb_stdout' : \/ i \in DOMAIN gdb_stdout /\ gdb_stdout'[i] = gdb_stdout[i]
                                      \/ gdb_stdout'[i] = l
    <3>1. gdb_stdout \in Seq(Line) /\ gdb_stdout' = Append(gdb_stdout, l)
      BY <1>1, TypesOfPipes DEF Put
    <3> QED
      BY <3>1, AppendFacts
  <2> QED
    BY <1>1, <2>1, RunPreserves
<1>2. ASSUME NEW k \in StopKinds, NEW n \in 0 .. Len(bps)
      PROVE  Stop(k, n) \in Line /\ Harmless(Stop(k, n))
  BY <1>0 DEF Stop, Line, Kinds, StopKinds, FinalKinds, EndsResponse, HasValue
<1>3. ASSUME NEW k \in {"exited", "output", "console"}
      PROVE  Plain(k) \in Line /\ Harmless(Plain(k))
  BY <1>0 DEF Plain, Line, Kinds, StopKinds, FinalKinds, EndsResponse, HasValue
<1>4. ASSUME NEW k \in StopKinds, NEW n \in 0 .. Len(bps), NEW then, AppStops(k, n, then),
             then # "gone",
             Len(bps') = Len(bps), \A m \in 1 .. Len(bps) : bps'[m].fn = bps[m].fn
      PROVE  Sync'
  <2>1. /\ Put(Stop(k, n)) /\ Running /\ app' # "gone"
        /\ UNCHANGED <<breakpoints, asked, wait, gdb_stdin>>
    BY <1>4 DEF AppStops, opd
  <2> QED
    BY <1>1, <1>2, <1>4, <2>1
<1>5. CASE AppHits
  <2>1. PICK k \in StopKinds, n \in DOMAIN bps : AppStops(k, n, "stopped") /\ bps' = bps
    BY <1>5 DEF AppHits, Armed, StopKinds
  <2> QED
    BY <1>0, <1>4, <2>1
<1>6. CASE AppLeavesScope
  <2>1. PICK n \in DOMAIN bps : /\ AppStops("watchpoint-scope", n, "stopped")
                                /\ bps' = [bps EXCEPT ![n].live = FALSE]
    BY <1>6 DEF AppLeavesScope, Armed
  <2>2. Len(bps') = Len(bps)
    BY <1>0, <2>1
  <2>3. \A m \in 1 .. Len(bps) : bps'[m].fn = bps[m].fn
    BY <1>0, <2>1, ElementOfSeq
  <2> QED
    BY <1>0, <1>4, <2>1, <2>2, <2>3 DEF StopKinds
<1>7. CASE AppSteps \/ AppSignalled
  <2>1. \E k \in StopKinds, then \in {"stopped", "faulted"} : AppStops(k, 0, then)
    BY <1>7 DEF AppSteps, AppSignalled, StopKinds
  <2>2. bps' = bps
    BY <1>7 DEF AppSteps, AppSignalled
  <2> QED
    BY <1>0, <1>4, <2>1, <2>2
<1>8. CASE AppExits
  BY <1>0, <1>1, <1>3, <1>8 DEF AppExits, opd
<1>9. CASE AppWrites
  <2>1. UNCHANGED <<breakpoints, asked, wait, gdb_stdin, bps, app>>
    BY <1>9 DEF AppWrites, opd, gdb
  <2>2. CASE Running /\ (Put(Plain("output")) \/ Put(Plain("console")))
    <3>1. app' # "gone"
      BY <2>1 DEF Sync, WaitingInv
    <3> QED
      BY <1>1, <1>3, <2>1, <2>2, <3>1
  <2>3. CASE gdb_stdout' = gdb_stdout
    BY <1>9, <2>1, <2>3, SkipPreserves DEF AppWrites
  <2> QED
    BY <1>9, <2>2, <2>3 DEF AppWrites
<1> QED
  BY <1>5, <1>6, <1>7, <1>8, <1>9 DEF AppRuns

(* What put opd and gdb out of step is never forgotten.                    *)
LEMMA BlameStays ==
  ASSUME [Next]_vars, blame' = {}
  PROVE  blame = {}
BY DEF Next, vars, Send, gdb_set_arguments, gdb_start_run, gdb_continue, gdb_stepNext,
       gdb_stepFinish, gdb_step, gdb_exit, gdb_setBreakpoint, gdb_setWatchpoint, gdb_query,
       gdb_call, gdb_setPID, gdb_interrupt, WriteBroken, Fire, Ask, Write, Read, ReadEvent,
       gdb_getresponse, ReadValue, gdb_waitforprompt, ReadSigint, gdb_next_event,
       GdbExecute, GdbQuery, GdbInsert, GdbWatch, GdbCall, Resume, ResumeFaulted,
       RefuseResume, GdbExit, Execute, AppRuns, AppHits, AppLeavesScope, AppSteps,
       AppSignalled, AppExits, AppWrites, AppStops

(* IInv is inductive: no step breaks Sync without being to blame for it.   *)
LEMMA StepPreserves ==
  ASSUME TypeOK, IInv, [Next]_vars
  PROVE  IInv'
<1> SUFFICES ASSUME blame' = {} PROVE Sync'
  BY DEF IInv
<1>1. Sync
  BY BlameStays DEF IInv
<1>2. CASE UNCHANGED vars
  BY <1>1, <1>2, SkipPreserves DEF vars, opd, pipes
<1>3. Send => SendInStep
  <2>1. ~gdb_set_arguments /\ ~gdb_exit
    BY DEF gdb_set_arguments, gdb_exit
  <2> QED
    BY <2>1 DEF Send, SendInStep
<1> QED
  BY <1>1, <1>2, <1>3, SendPreserves, ReadPreserves, ExecutePreserves, AppPreserves DEF Next

(* opd and gdb stay in step for as long as nothing is to blame.            *)
THEOREM SyncInvariant == Spec => []IInv
<1>1. Init => IInv
  BY DEF Init, IInv, Sync, CommandsInv, AnswersInv, WaitingInv, TablesInv, Inserting, Watched
<1>2. TypeOK /\ IInv /\ [Next]_vars => IInv'
  BY StepPreserves
<1> QED
  BY <1>1, <1>2, TypeCorrect, PTL DEF Spec

(* Every unread stop leads, through opd's own table, to the function that  *)
(* was bound to that breakpoint (gdb_dispatchBreakpoint and the two for    *)
(* watchpoints), for any number of breakpoints and watchpoints set, hit    *)
(* and deleted in any order.                                               *)
THEOREM DispatchIsSound == Spec => []DispatchSound
<1>1. TypeOK /\ IInv => DispatchSound
  <2> SUFFICES ASSUME TypeOK, Sync, NEW i \in DOMAIN gdb_stdout, gdb_stdout[i].no # 0
               PROVE  LET n == gdb_stdout[i].no
                      IN  n \in DOMAIN breakpoints /\ breakpoints[n] = bps[n].fn
    BY DEF IInv, DispatchSound
  <2>1. gdb_stdout[i].no \in Nat
    BY TypesOfPipes DEF Line
  <2>2. gdb_stdout[i].no <= Len(breakpoints) /\ gdb_stdout[i].no <= Len(bps)
    BY DEF Sync, TablesInv
  <2>3. \A n \in 1 .. Len(breakpoints) : n <= Len(bps) => breakpoints[n] = bps[n].fn
    BY DEF Sync, TablesInv
  <2> QED
    BY <2>1, <2>2, <2>3, TypesOfTables
<1> QED
  BY <1>1, TypeCorrect, SyncInvariant, PTL

(* No reply is left over for the next command when gdbmi.c hands control   *)
(* back to opd's main loop.                                                *)
THEOREM NothingStale == Spec => []NoStaleAnswer
<1>1. TypeOK /\ IInv => NoStaleAnswer
  BY NothingUnread DEF IInv, NoStaleAnswer
<1> QED
  BY <1>1, TypeCorrect, SyncInvariant, PTL

(* The step that ends a reading loop reads the answer it waits for.        *)
LEMMA EndsOnOwnAnswer ==
  ASSUME TypeOK, Sync, [Next]_vars, wait \in {"response", "value"}, wait' # wait
  PROVE  line'.id = asked.id
<1>1. gdb_getresponse \/ ReadValue
  <2>1. ~Send
    BY DEF Send, gdb_set_arguments, gdb_start_run, gdb_continue, gdb_stepNext,
           gdb_stepFinish, gdb_step, gdb_exit, gdb_setBreakpoint, gdb_setWatchpoint,
           gdb_query, gdb_call, gdb_setPID, gdb_interrupt, WriteBroken, Fire, Ask, Write
  <2>2. ~ReadEvent /\ ~gdb_waitforprompt /\ ~ReadSigint
    BY DEF ReadEvent, gdb_waitforprompt, ReadSigint
  <2>3. ~GdbExecute
    BY DEF GdbExecute, GdbQuery, GdbInsert, GdbWatch, GdbCall, Resume, ResumeFaulted,
           RefuseResume, GdbExit, Execute, opd
  <2>4. ~AppRuns
    BY DEF AppRuns, AppHits, AppLeavesScope, AppSteps, AppSignalled, AppExits, AppWrites,
           AppStops, opd
  <2> QED
    BY <2>1, <2>2, <2>3, <2>4 DEF Next, vars, opd, Read
<1>2. PICK l \in Incoming : /\ gdb_next_event(l) /\ line' = l
                            /\ EndsResponse(l) \/ HasValue(l)
  BY <1>1 DEF gdb_getresponse, ReadValue
<1>3. gdb_stdout # <<>> /\ l = Head(gdb_stdout)
  BY <1>2 DEF gdb_next_event, Sync, WaitingInv, EndsResponse, HasValue, Plain, FinalKinds,
                    TypeOK
<1>4. 1 \in DOMAIN gdb_stdout /\ Head(gdb_stdout) = gdb_stdout[1]
  BY <1>3, TypesOfPipes, TailFacts
<1> QED
  BY <1>2, <1>3, <1>4 DEF Sync, AnswersInv

(* gdb_getresponse and gdb_call return on the answer to the very command   *)
(* they sent.                                                              *)
THEOREM AnswersAreOwn == Spec => OwnAnswer
<1>1. TypeOK /\ IInv /\ [Next]_vars
        => [(wait \in {"response", "value"} /\ wait' # wait)
              => (blame # {} \/ line'.id = asked.id)]_vars
  BY EndsOnOwnAnswer DEF IInv
<1> QED
  BY <1>1, TypeCorrect, SyncInvariant, PTL DEF Spec, OwnAnswer
============================================================================
