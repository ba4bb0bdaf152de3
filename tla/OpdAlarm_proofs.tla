--------------------------- MODULE OpdAlarm_proofs ---------------------------
(***************************************************************************)
(* Proofs about OpdAlarm.tla: what a timeout cannot break, for every       *)
(* script and every moment the alarm may strike.                           *)
(*                                                                         *)
(* The argument goes through three stretches of a session.  Until the      *)
(* alarm strikes it is a session of Opd, and keeps Opd's invariants.       *)
(* Until catch_alarm has closed the database opd evaluates catch_alarm and *)
(* nothing else, so it dispatches no event and writes two rows.  After     *)
(* that no row is written, and a crash is no surprise.                     *)
(***************************************************************************)
EXTENDS OpdAlarm, Opd_proofs

(* What is left of catch_alarm until it closes the database.               *)
Closing   == <<Do("db_close"), Do("gdb_exit"), Do("return")>>
StackRow  == Log("opd.timeout.stack", "", "answer")
StopRow   == Log("opd.timeout.gdb", "", "event")
TakeStack == Query("stack", "")

Left4 == Closing
Left3 == <<StackRow, Do("db_close"), Do("gdb_exit"), Do("return")>>
Left2 == <<TakeStack, StackRow, Do("db_close"), Do("gdb_exit"), Do("return")>>
Left1 == <<StopRow, TakeStack, StackRow, Do("db_close"), Do("gdb_exit"), Do("return")>>
Left0 == <<Do("gdb_interrupt"), StopRow, TakeStack, StackRow,
           Do("db_close"), Do("gdb_exit"), Do("return")>>

HandlerLeft == {Left0, Left1, Left2, Left3, Left4}

(* The rows of a session with a timeout.                                   *)
Recorded == {[key |-> c.arg[1], x |-> c.arg[2], of |-> c.arg[3], line |-> l, asked |-> n] :
               c \in Commands \cup {StopRow, StackRow}, l \in Line, n \in Nat}

AlarmInv ==
  /\ closed \in BOOLEAN
  /\ struck = "no" => OpdTypes /\ ~closed
  /\ ~closed => TypeOK /\ log \in Seq(Recorded)
  /\ struck # "no" /\ ~closed => phase = "loop" /\ code \in HandlerLeft

----------------------------------------------------------------------------
(* catch_alarm command by command.                                         *)
LEMMA HandlerCode ==
  /\ catch_alarm = Left0
  /\ Head(Left0).do = "gdb_interrupt" /\ Tail(Left0) = Left1
  /\ Head(Left1) = StopRow            /\ Tail(Left1) = Left2
  /\ Head(Left2).do = "query"         /\ Tail(Left2) = Left3
  /\ Head(Left3) = StackRow           /\ Tail(Left3) = Left4
  /\ Head(Left4).do = "db_close"
  /\ \A c \in HandlerLeft : c # <<>>
<1>1. /\ \A command : Do(command).do = command
      /\ \A what, x : Query(what, x).do = "query"
  BY DEF Do, Query, Cmd
<1>2. \A a, b, c, d, e, f, g : (<<a>> \o <<b, c, d>>) \o <<e, f, g>> = <<a, b, c, d, e, f, g>>
  <2> SUFFICES ASSUME NEW a, NEW b, NEW c, NEW d, NEW e, NEW f, NEW g
               PROVE  (<<a>> \o <<b, c, d>>) \o <<e, f, g>> = <<a, b, c, d, e, f, g>>
    OBVIOUS
  <2> DEFINE All == {a, b, c, d, e, f, g}
             s == <<a>>
             t == <<b, c, d>>
             u == <<e, f, g>>
             whole == <<a, b, c, d, e, f, g>>
  <2>1. /\ s \in Seq(All) /\ Len(s) = 1 /\ s[1] = a
        /\ t \in Seq(All) /\ Len(t) = 3 /\ t[1] = b /\ t[2] = c /\ t[3] = d
        /\ u \in Seq(All) /\ Len(u) = 3 /\ u[1] = e /\ u[2] = f /\ u[3] = g
    OBVIOUS
  <2>2. /\ whole \in Seq(All) /\ Len(whole) = 7
        /\ whole[1] = a /\ whole[2] = b /\ whole[3] = c /\ whole[4] = d
        /\ whole[5] = e /\ whole[6] = f /\ whole[7] = g
    OBVIOUS
  <2> HIDE DEF All, s, t, u, whole
  <2>3. \A p, q \in Seq(All) :
          /\ p \o q \in Seq(All) /\ Len(p \o q) = Len(p) + Len(q)
          /\ \A i \in 1 .. Len(p) + Len(q) :
               (p \o q)[i] = IF i <= Len(p) THEN p[i] ELSE q[i - Len(p)]
    BY ConcatProperties
  <2> DEFINE v == s \o t
  <2>4. v \in Seq(All) /\ Len(v) = 4 /\ v[1] = a /\ v[2] = b /\ v[3] = c /\ v[4] = d
    <3>1. /\ s \o t \in Seq(All) /\ Len(s \o t) = Len(s) + Len(t)
          /\ \A i \in 1 .. Len(s) + Len(t) :
               (s \o t)[i] = IF i <= Len(s) THEN s[i] ELSE t[i - Len(s)]
      BY <2>1, <2>3
    <3> DEFINE w == s \o t
    <3>2. w \in Seq(All) /\ Len(w) = 4 /\ \A i \in 1 .. 4 : w[i] = IF i <= 1 THEN s[i] ELSE t[i - 1]
      BY <2>1, <3>1
    <3> HIDE DEF w
    <3>3. /\ 1 \in 1 .. 4 /\ 2 \in 1 .. 4 /\ 3 \in 1 .. 4 /\ 4 \in 1 .. 4
          /\ 2 - 1 = 1 /\ 3 - 1 = 2 /\ 4 - 1 = 3
      OBVIOUS
    <3>4. w[1] = a /\ w[2] = b /\ w[3] = c /\ w[4] = d
      BY <2>1, <3>2, <3>3
    <3> QED
      BY <3>2, <3>4 DEF w
  <2> HIDE DEF v
  <2>5. v \o u = whole
    <3>1. /\ v \o u \in Seq(All) /\ Len(v \o u) = Len(v) + Len(u)
          /\ \A i \in 1 .. Len(v) + Len(u) :
               (v \o u)[i] = IF i <= Len(v) THEN v[i] ELSE u[i - Len(v)]
      BY <2>1, <2>3, <2>4
    <3> DEFINE w == v \o u
    <3>2. w \in Seq(All) /\ Len(w) = 7 /\ \A i \in 1 .. 7 : w[i] = IF i <= 4 THEN v[i] ELSE u[i - 4]
      BY <2>1, <2>4, <3>1
    <3> HIDE DEF w
    <3>3. ASSUME NEW i \in 1 .. 7 PROVE w[i] = whole[i]
      <4>1. CASE i \in 1 .. 4
        BY <2>2, <2>4, <3>2, <4>1
      <4>2. CASE i \notin 1 .. 4
        <5>1. w[i] = u[i - 4]
          BY <3>2, <4>2
        <5>2. (i = 5 /\ i - 4 = 1) \/ (i = 6 /\ i - 4 = 2) \/ (i = 7 /\ i - 4 = 3)
          BY <4>2
        <5> QED
          BY <2>1, <2>2, <5>1, <5>2
      <4> QED
        BY <4>1, <4>2
    <3>4. w = whole
      BY <2>2, <3>2, <3>3, SeqEqual
    <3> QED
      BY <3>4 DEF w
  <2>6. (s \o t) \o u = whole
    BY <2>5 DEF v
  <2> QED
    BY <2>6 DEF s, t, u, whole
<1>3. \A a, b, c, d, e, f, g :
        /\ <<a, b, c, d, e, f, g>> # <<>> /\ Head(<<a, b, c, d, e, f, g>>) = a
        /\ Tail(<<a, b, c, d, e, f, g>>) = <<b, c, d, e, f, g>>
  OBVIOUS
<1>4. \A a, b, c, d, e, f :
        /\ <<a, b, c, d, e, f>> # <<>> /\ Head(<<a, b, c, d, e, f>>) = a
        /\ Tail(<<a, b, c, d, e, f>>) = <<b, c, d, e, f>>
  OBVIOUS
<1>5. \A a, b, c, d, e :
        /\ <<a, b, c, d, e>> # <<>> /\ Head(<<a, b, c, d, e>>) = a
        /\ Tail(<<a, b, c, d, e>>) = <<b, c, d, e>>
  OBVIOUS
<1>6. \A a, b, c, d :
        /\ <<a, b, c, d>> # <<>> /\ Head(<<a, b, c, d>>) = a
        /\ Tail(<<a, b, c, d>>) = <<b, c, d>>
        /\ <<b, c, d>> # <<>> /\ Head(<<b, c, d>>) = b
  OBVIOUS
<1>7. catch_alarm = Left0
  <2>1. opd_dispatchInterrupt = <<StopRow, TakeStack, StackRow>>
    BY Zenon DEF opd_dispatchInterrupt, StopRow, StackRow, TakeStack
  <2>2. catch_alarm = (<<Do("gdb_interrupt")>> \o opd_dispatchInterrupt)
                        \o <<Do("db_close"), Do("gdb_exit"), Do("return")>>
    BY DEF catch_alarm
  <2> QED
    BY <1>2, <2>1, <2>2 DEF Left0
<1>8. Left0 # <<>> /\ Head(Left0) = Do("gdb_interrupt") /\ Tail(Left0) = Left1
  BY <1>3 DEF Left0, Left1
<1>9. Left1 # <<>> /\ Head(Left1) = StopRow /\ Tail(Left1) = Left2
  BY <1>4 DEF Left1, Left2
<1>10. Left2 # <<>> /\ Head(Left2) = TakeStack /\ Tail(Left2) = Left3
  BY <1>5 DEF Left2, Left3
<1>11. Left3 # <<>> /\ Head(Left3) = StackRow /\ Tail(Left3) = Left4
  BY <1>6 DEF Left3, Left4, Closing
<1>12. Left4 # <<>> /\ Head(Left4) = Do("db_close")
  BY <1>6 DEF Left4, Closing
<1>13. TakeStack.do = "query"
  BY <1>1, Zenon DEF TakeStack
<1> QED
  BY <1>1, <1>7, <1>8, <1>9, <1>10, <1>11, <1>12, <1>13, Zenon DEF HandlerLeft

(* The two rows of a timeout.                                              *)
LEMMA TimeoutRows ==
  /\ StopRow.do = "log" /\ StopRow.arg[3] = "event"
  /\ StackRow.do = "log" /\ StackRow.arg[1] = "opd.timeout.stack" /\ StackRow.arg[3] = "answer"
<1>1. \A key, x, of : /\ Log(key, x, of).do = "log" /\ Log(key, x, of).arg[1] = key
                      /\ Log(key, x, of).arg[3] = of
  BY DEF Log, Cmd
<1>2. \E key, x : StopRow = Log(key, x, "event")
  BY Zenon DEF StopRow
<1>3. \E x : StackRow = Log("opd.timeout.stack", x, "answer")
  BY Zenon DEF StackRow
<1> QED
  BY <1>1, <1>2, <1>3

(* No script and no procedure of opd.tcl calls what only catch_alarm does. *)
LEMMA HandlersOwn ==
  \A c \in Commands : c.do \notin {"gdb_interrupt", "db_close", "gdb_exit", "return"}
<1>1. /\ \A key, x, of : Log(key, x, of).do = "log"
      /\ \A what, x : Query(what, x).do = "query"
      /\ \A command : Do(command).do = command
  BY DEF Log, Query, Do, Cmd
<1>2. ASSUME NEW c \in OpdCommands
      PROVE  \/ \E key, x, of : c = Log(key, x, of)
             \/ \E what, x : c = Query(what, x)
             \/ c = Do("gdb_set_arguments") \/ c = Do("gdb_start_run") \/ c = Do("opd_setExit")
  BY <1>2, Zenon DEF OpdCommands
<1>3. \A c \in OpdCommands : c.do \notin {"gdb_interrupt", "db_close", "gdb_exit", "return"}
  <2> SUFFICES ASSUME NEW c \in OpdCommands
               PROVE  c.do \notin {"gdb_interrupt", "db_close", "gdb_exit", "return"}
    OBVIOUS
  <2>1. c.do \in {"log", "query", "gdb_set_arguments", "gdb_start_run", "opd_setExit"}
    BY <1>1, <1>2
  <2> QED
    BY <2>1
<1>4. \A c \in TclCommands : c.do \in TclNames
  BY DEF TclCommands
<1> QED
  BY <1>3, <1>4 DEF Commands, TclNames

----------------------------------------------------------------------------
(* The stretches of a session.                                             *)

(* Until the alarm strikes every step is one of Opd, or a command for a    *)
(* gdb that is gone.                                                       *)
LEMMA BeforeAlarm ==
  ASSUME AlarmInv, [AlarmNext]_alarmVars, struck = "no"
  PROVE  /\ OpdTypes /\ closed = FALSE
         /\ \/ AlarmStrikes /\ struck' # "no" /\ UNCHANGED closed
            \/ /\ UNCHANGED <<struck, closed>>
               /\ \/ [OpdNext]_opdVars
                  \/ WriteBroken /\ UNCHANGED <<session, history>>
<1>1. OpdTypes /\ closed = FALSE /\ CodeInv
  BY DEF AlarmInv, OpdTypes
<1>2. CASE HandlerStep
  <2>1. code # <<>> /\ Head(code).do \in {"gdb_interrupt", "db_close", "gdb_exit", "return"}
    BY <1>2 DEF HandlerStep, Interrupt, Close, Quit, Return, Handling, Evaluating
  <2>2. Head(code) \in Commands
    BY <1>1, <2>1 DEF CodeInv
  <2> QED
    BY <2>1, <2>2, HandlersOwn
<1>3. CASE GoesOn
  BY <1>1, <1>3 DEF GoesOn, OpdNext, OpdStep
<1>4. CASE LogRefused \/ ClosedCrashes
  BY <1>1, <1>4 DEF LogRefused, ClosedCrashes, UsesClosed
<1>5. CASE PipeBroken
  BY <1>1, <1>5 DEF PipeBroken
<1>6. CASE AlarmStrikes
  BY <1>1, <1>6 DEF AlarmStrikes, InSelect
<1>7. CASE (GdbStep \/ AppStep) /\ UNCHANGED <<suspended, closed, struck>>
  BY <1>1, <1>7 DEF OpdNext
<1>8. CASE UNCHANGED alarmVars
  BY <1>1, <1>8 DEF alarmVars
<1> QED
  BY <1>2, <1>3, <1>4, <1>5, <1>6, <1>7, <1>8 DEF AlarmNext, AlarmOpdStep

(* Until the database is closed opd evaluates catch_alarm.                 *)
LEMMA InHandler ==
  ASSUME AlarmInv, [AlarmNext]_alarmVars, struck # "no", closed = FALSE
  PROVE  /\ TypeOK /\ struck' = struck /\ [Next]_vars
         /\ blame' = blame \/ GdbExecute
         /\ \/ closed' = TRUE /\ UNCHANGED <<log, phase>>
            \/ /\ closed' = closed /\ phase' = "loop" /\ code' \in HandlerLeft
               /\ \/ /\ code' = code /\ log' = log
                     /\ Await \/ WriteBroken \/ GdbExecute \/ AppRuns \/ UNCHANGED vars
                  \/ code = Left0 /\ code' = Left1 /\ log' = log
                  \/ code = Left2 /\ code' = Left3 /\ log' = log /\ wait' = "response"
                  \/ /\ \/ code = Left1 /\ code' = Left2
                        \/ code = Left3 /\ code' = Left4
                     /\ db_logMessage
<1>1. TypeOK /\ phase = "loop" /\ code \in HandlerLeft /\ code # <<>>
  BY HandlerCode DEF AlarmInv
<1> USE DEF HandlerLeft
<1>2. /\ code = Left0 => Head(code).do = "gdb_interrupt" /\ Tail(code) = Left1
      /\ code = Left1 => Head(code).do = "log" /\ Tail(code) = Left2
      /\ code = Left2 => Head(code).do = "query" /\ Tail(code) = Left3
      /\ code = Left3 => Head(code).do = "log" /\ Tail(code) = Left4
      /\ code = Left4 => Head(code).do = "db_close"
  BY HandlerCode, TimeoutRows
<1> HIDE DEF HandlerLeft
<1>3. code \in {Left0, Left1, Left2, Left3, Left4}
  BY <1>1 DEF HandlerLeft
<1>4. \A c \in {Left1, Left2, Left3, Left4} : c \in HandlerLeft
  BY DEF HandlerLeft
<1>5. CASE Interrupt
  <2>1. gdb_interrupt /\ code' = Tail(code) /\ Head(code).do = "gdb_interrupt"
        /\ UNCHANGED <<phase, log, closed, struck>>
    BY <1>5 DEF Interrupt, Handling
  <2>2. code = Left0 /\ code' = Left1
    BY <1>2, <1>3, <2>1
  <2>3. Next /\ blame' = blame
    BY <2>1 DEF Next, Send, gdb_interrupt
  <2> QED
    BY <1>1, <1>4, <2>1, <2>2, <2>3
<1>6. CASE Close
  BY <1>1, <1>6 DEF Close, vars
<1>7. CASE Quit \/ Return
  <2>1. Head(code).do \in {"gdb_exit", "return"}
    BY <1>7 DEF Quit, Return, Handling
  <2> QED
    BY <1>2, <1>3, <2>1
<1>8. CASE EvalGdb /\ UNCHANGED <<suspended, closed, struck>>
  <2>1. CallsGdb(Head(code)) /\ code' = Tail(code) /\ UNCHANGED <<phase, log>>
    BY <1>8 DEF EvalGdb
  <2>2. Head(code).do \in {"gdb_interrupt", "log", "query", "db_close"}
    BY <1>2, <1>3
  <2>3. Head(code).do = "query" /\ gdb_query
    BY <2>1, <2>2 DEF CallsGdb
  <2>4. code = Left2 /\ code' = Left3
    BY <1>2, <1>3, <2>1, <2>3
  <2>5. Next /\ blame' = blame /\ wait' = "response"
    BY <2>3 DEF Next, Send, gdb_query, Ask
  <2> QED
    BY <1>1, <1>4, <1>8, <2>1, <2>4, <2>5
<1>9. CASE opd_setExit \/ StartLoop \/ Dispatch \/ opd_exit
  <2>1. StartLoop \/ Dispatch \/ opd_exit => code = <<>>
    BY DEF StartLoop, Dispatch, opd_exit
  <2>2. opd_setExit => Head(code).do = "opd_setExit"
    BY DEF opd_setExit
  <2> QED
    BY <1>1, <1>2, <1>3, <1>9, <2>1, <2>2
<1>10. CASE db_logMessage /\ UNCHANGED <<suspended, closed, struck>>
  <2>1. Head(code).do = "log" /\ code' = Tail(code) /\ UNCHANGED <<vars, phase>>
    BY <1>10 DEF db_logMessage
  <2>2. \/ code = Left1 /\ code' = Left2
        \/ code = Left3 /\ code' = Left4
    <3>1. code \in {Left1, Left3}
      BY <1>2, <1>3, <2>1
    <3> QED
      BY <1>2, <2>1, <3>1
  <2>3. blame' = blame
    BY <2>1 DEF vars
  <2> QED
    BY <1>1, <1>4, <1>10, <2>1, <2>2, <2>3
<1>11. CASE Await /\ UNCHANGED <<suspended, closed, struck>>
  <2>1. Read /\ UNCHANGED <<code, phase, log>>
    BY <1>11 DEF Await, session
  <2>2. blame' = blame
    BY <1>1, <2>1, ReadFrame
  <2> QED
    BY <1>1, <1>11, <2>1, <2>2 DEF Next
<1>12. CASE LogRefused \/ ClosedCrashes
  BY <1>12 DEF LogRefused, ClosedCrashes, UsesClosed
<1>13. CASE PipeBroken
  <2>1. WriteBroken /\ UNCHANGED <<code, phase, log, closed, struck>>
    BY <1>13 DEF PipeBroken, session
  <2>2. Next /\ blame' = blame
    BY <2>1 DEF Next, Send, WriteBroken
  <2> QED
    BY <1>1, <2>1, <2>2
<1>14. CASE AlarmStrikes
  BY <1>14 DEF AlarmStrikes
<1>15. CASE (GdbStep \/ AppStep) /\ UNCHANGED <<suspended, closed, struck>>
  <2>0. ASSUME AppRuns PROVE blame' = blame
    BY <1>1, <2>0, AppLines
  <2>1. \/ GdbExecute
        \/ AppRuns /\ blame' = blame
    BY <1>15, <2>0 DEF GdbStep, AppStep
  <2>2. UNCHANGED <<code, phase, log>>
    BY <1>15 DEF GdbStep, AppStep, session
  <2> QED
    BY <1>1, <1>15, <2>1, <2>2 DEF Next
<1>16. CASE UNCHANGED alarmVars
  <2>1. UNCHANGED <<vars, code, phase, log, closed, struck>>
    BY <1>16 DEF alarmVars, opdVars, session
  <2>2. blame' = blame
    BY <2>1 DEF vars
  <2> QED
    BY <1>1, <2>1, <2>2
<1> QED
  BY <1>5, <1>6, <1>7, <1>8, <1>9, <1>10, <1>11, <1>12, <1>13, <1>14, <1>15, <1>16
     DEF AlarmNext, AlarmOpdStep, HandlerStep, GoesOn

(* Once it is closed it stays closed, and no row is written.               *)
LEMMA AfterClose ==
  ASSUME [AlarmNext]_alarmVars, closed = TRUE
  PROVE  closed' = TRUE /\ log' = log /\ (struck # "no" => struck' = struck)
BY DEF AlarmNext, AlarmOpdStep, HandlerStep, Interrupt, Close, Quit, Return, GoesOn, LogRefused,
       ClosedCrashes, PipeBroken, AlarmStrikes, EvalGdb, opd_setExit, Await, StartLoop, Dispatch,
       opd_exit, GdbStep, AppStep, session, alarmVars, opdVars

----------------------------------------------------------------------------
(* What every session with a timeout keeps.                                *)

(* The rows of a session of Opd are rows of one with a timeout.            *)
LEMMA RowsRecorded == Seq(Rows) \subseteq Seq(Recorded)
<1>1. Rows \subseteq Recorded
  BY DEF Rows, Recorded
<1> QED
  BY <1>1

(* A row of catch_alarm is one too.                                        *)
LEMMA HandlerLogs ==
  ASSUME TypeOK, log \in Seq(Recorded), db_logMessage, NEW c \in {StopRow, StackRow},
         Head(code) = c
  PROVE  \E row \in Recorded :
           /\ log' = Append(log, row)
           /\ row.key = c.arg[1] /\ row.of = c.arg[3] /\ row.line = line /\ row.asked = asked.id
<1> DEFINE row == [key |-> c.arg[1], x |-> c.arg[2], of |-> c.arg[3],
                   line |-> line, asked |-> asked.id]
<1>1. line \in Line /\ asked.id \in Nat
  BY DEF TypeOK, Command
<1>2. row \in Recorded
  BY <1>1 DEF Recorded
<1>3. log' = Append(log, row)
  BY DEF db_logMessage
<1> QED
  BY <1>2, <1>3

(* The three stretches follow one another.                                 *)
LEMMA AlarmInvKept == AlarmInv /\ [AlarmNext]_alarmVars => AlarmInv'
<1> SUFFICES ASSUME AlarmInv, [AlarmNext]_alarmVars PROVE AlarmInv'
  OBVIOUS
<1>1. CASE struck = "no"
  <2>1. OpdTypes /\ closed = FALSE /\ TypeOK /\ log \in Seq(Rows)
    BY <1>1, BeforeAlarm DEF OpdTypes
  <2>2. CASE AlarmStrikes /\ struck' # "no" /\ UNCHANGED closed
    <3>1. /\ code' = catch_alarm /\ wait' = "none" /\ phase = "loop"
          /\ UNCHANGED <<breakpoints, step_function, child_pid, asked, line, event, pipes, gdb,
                         sent, events, blame, phase, log>>
      BY <2>2 DEF AlarmStrikes
    <3>2. TypeOK'
      BY <2>1, <3>1 DEF TypeOK, Waits, pipes, gdb
    <3>3. code' \in HandlerLeft
      BY <3>1, HandlerCode DEF HandlerLeft
    <3> QED
      BY <2>1, <2>2, <3>1, <3>2, <3>3, RowsRecorded DEF AlarmInv
  <2>3. CASE UNCHANGED <<struck, closed>> /\ [OpdNext]_opdVars
    <3>1. OpdTypes'
      BY <2>1, <2>3, OpdTypesKept
    <3> QED
      BY <1>1, <2>1, <2>3, <3>1, RowsRecorded DEF AlarmInv, OpdTypes
  <2>4. CASE UNCHANGED <<struck, closed>> /\ WriteBroken /\ UNCHANGED <<session, history>>
    <3>1. TypeOK'
      BY <2>1, <2>4, TypesKept DEF Next, Send
    <3>2. asked' = asked /\ sent' = sent
      BY <2>4 DEF WriteBroken
    <3>3. OpdTypes'
      BY <2>1, <2>4, <3>1, <3>2 DEF OpdTypes, CodeInv, session, history
    <3> QED
      BY <1>1, <2>1, <2>4, <3>3, RowsRecorded DEF AlarmInv, OpdTypes
  <2> QED
    BY <1>1, <2>2, <2>3, <2>4, BeforeAlarm
<1>2. CASE struck # "no" /\ closed = FALSE
  <2>1. /\ TypeOK /\ struck' = struck /\ TypeOK'
        /\ closed' = TRUE \/ (closed' = closed /\ phase' = "loop" /\ code' \in HandlerLeft)
        /\ log' = log \/ (db_logMessage /\ \E c \in {StopRow, StackRow} : Head(code) = c)
    BY <1>2, InHandler, TypesKept, HandlerCode
  <2>2. log' \in Seq(Recorded)
    BY <1>2, <2>1, HandlerLogs DEF AlarmInv
  <2> QED
    BY <1>2, <2>1, <2>2 DEF AlarmInv
<1>3. CASE struck # "no" /\ closed # FALSE
  <2>1. closed = TRUE
    BY <1>3 DEF AlarmInv
  <2> QED
    BY <1>3, <2>1, AfterClose DEF AlarmInv
<1> QED
  BY <1>1, <1>2, <1>3

(* A session starts before its alarm.                                      *)
LEMMA AlarmInvInitially == AlarmInit => AlarmInv
<1> SUFFICES ASSUME AlarmInit PROVE AlarmInv
  OBVIOUS
<1>1. OpdTypes /\ struck = "no" /\ closed = FALSE
  BY OpdTypesInitially DEF AlarmInit
<1> QED
  BY <1>1, RowsRecorded DEF AlarmInv, OpdTypes

(* A session with a timeout, whenever the alarm strikes, goes through the  *)
(* three stretches above.                                                  *)
THEOREM AlarmInvariant == AlarmSpec => []AlarmInv
BY AlarmInvInitially, AlarmInvKept, PTL DEF AlarmSpec

----------------------------------------------------------------------------
(* abort() ends the MPI job only after a crash or a timeout, for every     *)
(* script that does not itself end the session: until the alarm strikes    *)
(* opd has no other reason to exit.                                        *)
THEOREM AbortsOnlyOnTimeout ==
  ASSUME \A p \in Procedures : NeverExits(p)
  PROVE  AlarmSpec => []AbortsOnTimeout
<1> DEFINE Inv == struck = "no" => ExitInv
<1>1. AlarmInit => Inv
  BY ExitInvInitially DEF AlarmInit
<1>2. AlarmInv /\ Inv /\ [AlarmNext]_alarmVars => Inv'
  <2> SUFFICES ASSUME AlarmInv, Inv, [AlarmNext]_alarmVars, struck' = "no" PROVE ExitInv'
    OBVIOUS
  <2>1. struck = "no"
    <3>1. struck # "no" => struck' = struck
      <4>1. closed = TRUE \/ closed = FALSE
        BY DEF AlarmInv
      <4> QED
        BY <4>1, InHandler, AfterClose
    <3> QED
      BY <3>1
  <2>2. OpdTypes /\ ExitInv
    BY <2>1, BeforeAlarm
  <2>3. CASE [OpdNext]_opdVars
    BY <2>2, <2>3, ExitInvKept
  <2>4. CASE WriteBroken /\ UNCHANGED <<session, history>>
    <3>1. UNCHANGED <<sigint, app, gdb_stdin, gdb_stdout, code, exitflag, aborted, trace>>
      BY <2>4 DEF WriteBroken, pipes, gdb, session, history
    <3> QED
      BY <2>2, <3>1 DEF ExitInv, SegFaulted, TellsExit
  <2> QED
    BY <2>1, <2>3, <2>4, BeforeAlarm
<1>3. AlarmInv /\ Inv => AbortsOnTimeout
  BY DEF AlarmInv, OpdTypes, ExitInv, AbortsOnTimeout, SegFaulted
<1> QED
  BY <1>1, <1>2, <1>3, AlarmInvariant, PTL DEF AlarmSpec

----------------------------------------------------------------------------
(* Blame is history: nothing takes it back.                                *)
LEMMA BlameIsKept ==
  ASSUME [Next]_vars \/ (\E c : CallsGdb(c)) \/ blame' = blame
  PROVE  blame \subseteq blame'
BY DEF Next, vars, Send, CallsGdb, gdb_set_arguments, gdb_start_run, gdb_continue, gdb_stepNext,
       gdb_stepFinish, gdb_step, gdb_exit, gdb_setBreakpoint, gdb_setWatchpoint, gdb_query,
       gdb_call, gdb_setPID, gdb_interrupt, WriteBroken, Fire, Ask, Write, Read, ReadEvent,
       gdb_getresponse, ReadValue, gdb_waitforprompt, ReadSigint, gdb_next_event,
       GdbExecute, GdbQuery, GdbInsert, GdbWatch, GdbCall, Resume, ResumeFaulted,
       RefuseResume, GdbExit, Execute, AppRuns, AppHits, AppLeavesScope, AppSteps,
       AppSignalled, AppExits, AppWrites, AppStops

(* Nor does a session with a timeout.                                      *)
LEMMA BlameOfAlarm == ASSUME [AlarmNext]_alarmVars PROVE blame \subseteq blame'
<1>1. CASE GoesOn
  <2>1. CASE EvalGdb
    BY <2>1, BlameIsKept DEF EvalGdb
  <2>2. CASE Await \/ Dispatch \/ opd_exit
    <3>1. Next
      BY <2>2 DEF Await, Dispatch, opd_exit, Next, Read, Send
    <3> QED
      BY <3>1, BlameIsKept
  <2>3. CASE opd_setExit \/ StartLoop \/ db_logMessage
    BY <2>3 DEF opd_setExit, StartLoop, db_logMessage, vars
  <2> QED
    BY <1>1, <2>1, <2>2, <2>3 DEF GoesOn
<1>2. CASE Interrupt \/ Quit \/ PipeBroken
  <2>1. Next
    BY <1>2 DEF Interrupt, Quit, PipeBroken, Next, Send
  <2> QED
    BY <2>1, BlameIsKept
<1>3. CASE Close \/ Return \/ LogRefused \/ ClosedCrashes \/ AlarmStrikes
  BY <1>3 DEF Close, Return, LogRefused, ClosedCrashes, AlarmStrikes, vars
<1>4. CASE GdbStep \/ AppStep
  <2>1. Next
    BY <1>4 DEF GdbStep, AppStep, Next
  <2> QED
    BY <2>1, BlameIsKept
<1>5. CASE UNCHANGED alarmVars
  BY <1>5 DEF alarmVars, opdVars, vars
<1> QED
  BY <1>1, <1>2, <1>3, <1>4, <1>5 DEF AlarmNext, AlarmOpdStep, HandlerStep

(* Until the alarm strikes opd and gdb stay in step, and they do when it   *)
(* strikes main, which awaits no answer.                                   *)
LEMMA InStepBefore ==
  ASSUME AlarmInv, struck = "no", IInv, [AlarmNext]_alarmVars, struck' \in {"no", "none"}
  PROVE  IInv'
<1>1. OpdTypes /\ TypeOK /\ CodeInv
  BY BeforeAlarm DEF OpdTypes
<1>2. CASE AlarmStrikes
  <2>1. wait = "none"
    BY <1>2 DEF AlarmStrikes, InSelect
  <2>2. UNCHANGED vars
    BY <1>2, <2>1 DEF AlarmStrikes, vars, opd
  <2> QED
    BY <1>1, <2>2, StepPreserves
<1>3. CASE [OpdNext]_opdVars
  BY <1>1, <1>3, OpdStepImplements, StepPreserves
<1>4. CASE WriteBroken
  <2>1. Next
    BY <1>4 DEF Next, Send
  <2> QED
    BY <1>1, <2>1, StepPreserves
<1> QED
  BY <1>2, <1>3, <1>4, BeforeAlarm

(* A session that is out of step because of gdb_set_arguments, a refused   *)
(* insertion or a refused resume excepted: what can crash opd is only the  *)
(* use of the database that catch_alarm closed.                            *)
THEOREM CrashesOnlyOnClosed ==
  ASSUME \A p \in Procedures : StepsAwaited(p)
  PROVE  AlarmSpec => [](blame \subseteq {"exit"} => CrashesOnlyClosed)
<1> DEFINE Inv == struck = "no" => IInv /\ StepsInv({})
<1>1. AlarmInit => Inv
  <2>1. OpdInit => IInv
    <3>1. OpdInit => Init
      BY OpdStarts
    <3>2. Init => IInv
      BY DEF Init, IInv, Sync, CommandsInv, AnswersInv, WaitingInv, TablesInv, Inserting, Watched
    <3> QED
      BY <3>1, <3>2
  <2> QED
    BY <2>1, StepsInvInitially DEF AlarmInit
<1>2. AlarmInv /\ Inv /\ [AlarmNext]_alarmVars => Inv'
  <2> SUFFICES ASSUME AlarmInv, Inv, [AlarmNext]_alarmVars, struck' = "no"
               PROVE  IInv' /\ StepsInv({})'
    OBVIOUS
  <2>1. struck = "no"
    <3>1. closed = TRUE \/ closed = FALSE
      BY DEF AlarmInv
    <3> QED
      BY <3>1, InHandler, AfterClose
  <2>2. OpdTypes /\ IInv /\ StepsInv({})
    BY <2>1, BeforeAlarm
  <2>3. IInv'
    BY <2>1, <2>2, InStepBefore
  <2>4. CASE [OpdNext]_opdVars
    BY <2>2, <2>3, <2>4, StepsInvKept DEF IInv, InStep
  <2>5. CASE WriteBroken /\ UNCHANGED <<session, history>>
    <3>1. /\ UNCHANGED <<app, gdb_stdin, gdb_stdout, code, phase, blame, step_function>>
          /\ app = "gone"
      BY <2>5 DEF WriteBroken, pipes, gdb, session
    <3>2. blame # {}
      BY <2>2, <3>1 DEF IInv, Sync, WaitingInv
    <3> QED
      BY <2>2, <2>3, <3>1, <3>2 DEF StepsInv, ExitBlamed, NeverCrashes
  <2> QED
    BY <2>1, <2>3, <2>4, <2>5, BeforeAlarm
<1>3. AlarmInv /\ Inv => (blame \subseteq {"exit"} => CrashesOnlyClosed)
  BY DEF AlarmInv, StepsInv, NeverCrashes, CrashesOnlyClosed
<1> QED
  BY <1>1, <1>2, <1>3, AlarmInvariant, PTL DEF AlarmSpec

----------------------------------------------------------------------------
(* The rows.  While catch_alarm has the stack still to log, opd awaits it  *)
(* or has it - if it was main that the alarm struck.                       *)
RowsOfAlarm ==
  /\ struck = "no" => IInv /\ RowsInv({})
  /\ struck = "none" /\ closed = FALSE =>
       /\ IInv /\ "exit" \notin blame
       /\ blame = {} /\ code = Left3 =>
            wait = "response" \/ (wait = "none" /\ line.id = asked.id)
  /\ blame \subseteq {"exit"} => OtherRowsAreAnswers

(* They are as they should be when the session starts.                     *)
LEMMA RowsOfAlarmInitially ==
  ASSUME \A p \in Procedures : AnswersFollow(p), AlarmInit
  PROVE  RowsOfAlarm
<1>1. OpdInit /\ struck = "no"
  BY DEF AlarmInit
<1>2. IInv
  <2>1. Init
    BY <1>1, OpdStarts
  <2> QED
    BY <2>1 DEF Init, IInv, Sync, CommandsInv, AnswersInv, WaitingInv, TablesInv, Inserting,
                Watched
<1>3. \A i \in DOMAIN log : FALSE
  <2>1. log = <<>>
    BY <1>1 DEF OpdInit
  <2> QED
    BY <2>1
<1> QED
  BY <1>1, <1>2, <1>3, RowsInvInitially DEF RowsOfAlarm, OtherRowsAreAnswers

(* Before the alarm strikes, and when it does.                             *)
LEMMA RowsBefore ==
  ASSUME \A p \in Procedures : AnswersFollow(p), AlarmInv, RowsOfAlarm, [AlarmNext]_alarmVars,
         struck = "no"
  PROVE  RowsOfAlarm'
<1>1. OpdTypes /\ IInv /\ RowsInv({}) /\ closed = FALSE
  BY BeforeAlarm DEF RowsOfAlarm
<1>2. CASE AlarmStrikes /\ struck' # "no" /\ UNCHANGED closed
  <2>1. phase = "loop" /\ code' = Left0 /\ UNCHANGED <<blame, log>>
    BY <1>2, HandlerCode DEF AlarmStrikes
  <2>2. Left0 # Left3
    <3>1. Head(Left0).do # Head(Left3).do
      BY HandlerCode, TimeoutRows
    <3> QED
      BY <3>1
  <2>3. "exit" \notin blame
    BY <1>1, <2>1 DEF RowsInv, ExitBlamed
  <2>4. blame \subseteq {"exit"} => RowsAreAnswers
    BY <1>1 DEF RowsInv
  <2> QED
    BY <1>2, <2>1, <2>2, <2>3, <2>4, InStepBefore
       DEF RowsOfAlarm, RowsAreAnswers, OtherRowsAreAnswers
<1>3. CASE UNCHANGED <<struck, closed>> /\ [OpdNext]_opdVars
  <2>1. IInv' /\ RowsInv({})'
    BY <1>1, <1>3, InStepBefore, RowsInvKept DEF IInv, InStep
  <2> QED
    BY <1>3, <2>1 DEF RowsOfAlarm, RowsInv, RowsAreAnswers, OtherRowsAreAnswers
<1>4. CASE UNCHANGED <<struck, closed>> /\ WriteBroken /\ UNCHANGED <<session, history>>
  <2>1. UNCHANGED <<code, log, line, asked, blame, phase>> /\ app = "gone"
    BY <1>4 DEF WriteBroken, session
  <2>2. blame # {}
    BY <1>1, <2>1 DEF IInv, Sync, WaitingInv
  <2>3. RowsInv({})'
    BY <1>1, <2>1, <2>2 DEF RowsInv, FollowIn, ExitBlamed, RowsAreAnswers
  <2>4. IInv'
    BY <1>1, <1>4, InStepBefore
  <2> QED
    BY <1>4, <2>3, <2>4 DEF RowsOfAlarm, RowsInv, RowsAreAnswers, OtherRowsAreAnswers
<1> QED
  BY <1>2, <1>3, <1>4, BeforeAlarm

(* What opd is in when it has sent a query: it awaits the answer, or has   *)
(* read it.  It stays that until it sends the next command.                *)
LEMMA StackAwaited ==
  ASSUME TypeOK, IInv, [Next]_vars, blame = {},
         Await \/ WriteBroken \/ GdbExecute \/ AppRuns \/ UNCHANGED vars,
         wait = "response" \/ (wait = "none" /\ line.id = asked.id)
  PROVE  wait' = "response" \/ (wait' = "none" /\ line'.id = asked'.id)
<1>1. CASE Await
  <2>1. wait = "response" /\ gdb_getresponse
    BY <1>1 DEF Await, Read, ReadEvent, ReadValue, gdb_waitforprompt, ReadSigint
  <2>2. wait' \in {"none", "response"} /\ asked' = asked
    BY <2>1 DEF gdb_getresponse, gdb_next_event
  <2>3. wait' = "none" => line'.id = asked.id
    BY <2>1, EndsOnOwnAnswer DEF IInv
  <2> QED
    BY <2>2, <2>3
<1>2. CASE WriteBroken
  BY <1>2 DEF WriteBroken, IInv, Sync, WaitingInv
<1>3. CASE GdbExecute
  <2>1. UNCHANGED opd
    BY <1>3 DEF GdbExecute, GdbQuery, GdbInsert, GdbWatch, GdbCall, Resume, ResumeFaulted,
                RefuseResume, GdbExit, Execute
  <2> QED
    BY <2>1 DEF opd
<1>4. CASE AppRuns
  <2>1. UNCHANGED opd
    BY <1>4 DEF AppRuns, AppHits, AppLeavesScope, AppSteps, AppSignalled, AppExits, AppWrites,
                AppStops
  <2> QED
    BY <2>1 DEF opd
<1>5. CASE UNCHANGED vars
  BY <1>5 DEF vars, opd
<1> QED
  BY <1>1, <1>2, <1>3, <1>4, <1>5

(* The next thing catch_alarm does is never what it has just done.         *)
LEMMA HandlerMoves ==
  Left1 # Left3 /\ Left2 # Left3 /\ Left4 # Left3
<1>1. /\ Head(Left2).do # Head(Left3).do
      /\ Head(Left4).do # Head(Left3).do
      /\ Head(Left1).arg[3] = "event" /\ Head(Left3).arg[3] = "answer"
  BY HandlerCode, TimeoutRows
<1> QED
  BY <1>1

(* In catch_alarm, until it closes the database.                           *)
LEMMA RowsInHandler ==
  ASSUME AlarmInv, RowsOfAlarm, [AlarmNext]_alarmVars, struck # "no", closed = FALSE
  PROVE  RowsOfAlarm'
<1>1. /\ TypeOK /\ struck' = struck /\ [Next]_vars /\ blame \subseteq blame'
      /\ log \in Seq(Recorded)
  BY InHandler, BlameOfAlarm DEF AlarmInv
<1>2. struck = "none" => IInv /\ IInv' /\ "exit" \notin blame
  BY <1>1, StepPreserves DEF RowsOfAlarm
<1>3. struck = "none" /\ closed' = FALSE => "exit" \notin blame'
  <2>1. GdbExecute => blame' \subseteq blame \cup {"insert", "exec"}
    BY DEF GdbExecute, GdbQuery, GdbInsert, GdbWatch, GdbCall, Resume, ResumeFaulted,
           RefuseResume, GdbExit
  <2> QED
    BY <1>2, <2>1, InHandler
<1>4. ASSUME struck = "none", closed' = FALSE, blame' = {}, code' = Left3
      PROVE  wait' = "response" \/ (wait' = "none" /\ line'.id = asked'.id)
  <2>1. blame = {}
    BY <1>1, <1>4
  <2>2. \/ wait' = "response"
        \/ /\ code = Left3
           /\ Await \/ WriteBroken \/ GdbExecute \/ AppRuns \/ UNCHANGED vars
    BY <1>4, HandlerMoves, InHandler
  <2>3. code = Left3 => wait = "response" \/ (wait = "none" /\ line.id = asked.id)
    BY <1>4, <2>1 DEF RowsOfAlarm
  <2> QED
    BY <1>1, <1>2, <1>4, <2>1, <2>2, <2>3, StackAwaited
<1>5. ASSUME blame' \subseteq {"exit"} PROVE OtherRowsAreAnswers'
  <2>1. OtherRowsAreAnswers
    BY <1>1, <1>5 DEF RowsOfAlarm
  <2>2. CASE log' = log
    BY <1>1, <2>1, <2>2 DEF OtherRowsAreAnswers
  <2>3. CASE log' # log
    <3>1. /\ db_logMessage
          /\ code = Left1 \/ code = Left3
      BY <2>3, InHandler
    <3>2. Evaluating /\ UNCHANGED vars
      BY <3>1 DEF db_logMessage
    <3>3. wait = "none" /\ blame' = blame
      BY <3>2 DEF Evaluating, vars
    <3>4. PICK row \in Recorded :
            /\ log' = Append(log, row) /\ row.line = line /\ row.asked = asked.id
            /\ \/ row.of = "event"
               \/ code = Left3 /\ row.key = "opd.timeout.stack"
      <4>1. CASE code = Left1
        <5>1. Head(code) = StopRow
          BY <4>1, HandlerCode
        <5> QED
          BY <1>1, <3>1, <5>1, HandlerLogs, TimeoutRows
      <4>2. CASE code = Left3
        <5>1. Head(code) = StackRow
          BY <4>2, HandlerCode
        <5> QED
          BY <1>1, <3>1, <4>2, <5>1, HandlerLogs, TimeoutRows
      <4> QED
        BY <3>1, <4>1, <4>2
    <3>5. row.of = "answer" /\ (row.key = "opd.timeout.stack" => struck = "none")
            => row.line.id = row.asked
      <4> SUFFICES ASSUME row.of = "answer", row.key = "opd.timeout.stack" => struck = "none"
                   PROVE  line.id = asked.id
        BY <3>4
      <4>1. code = Left3 /\ struck = "none"
        BY <3>4
      <4>2. "exit" \notin blame /\ blame = {}
        BY <1>2, <1>5, <3>3, <4>1
      <4> QED
        BY <3>3, <4>1, <4>2 DEF RowsOfAlarm
    <3>6. /\ Len(log') = Len(log) + 1
          /\ \A i \in 1 .. Len(log) : log'[i] = log[i]
          /\ log'[Len(log) + 1] = row
          /\ DOMAIN log = 1 .. Len(log) /\ DOMAIN log' = 1 .. Len(log) + 1
          /\ Len(log) \in Nat
      BY <1>1, <3>4
    <3>7. ASSUME NEW i \in DOMAIN log', log'[i].of = "answer",
                 log'[i].key = "opd.timeout.stack" => struck = "none"
          PROVE  log'[i].line.id = log'[i].asked
      <4>1. CASE i \in 1 .. Len(log)
        BY <2>1, <3>6, <3>7, <4>1 DEF OtherRowsAreAnswers
      <4>2. CASE i = Len(log) + 1
        BY <3>5, <3>6, <3>7, <4>2
      <4> QED
        BY <3>6, <4>1, <4>2
    <3> QED
      BY <1>1, <3>7 DEF OtherRowsAreAnswers
  <2> QED
    BY <2>2, <2>3
<1> QED
  BY <1>1, <1>2, <1>3, <1>4, <1>5 DEF RowsOfAlarm

(* After it.                                                               *)
LEMMA RowsAfter ==
  ASSUME AlarmInv, RowsOfAlarm, [AlarmNext]_alarmVars, struck # "no", closed = TRUE
  PROVE  RowsOfAlarm'
<1>1. closed' = TRUE /\ log' = log /\ struck' = struck /\ blame \subseteq blame'
  BY AfterClose, BlameOfAlarm
<1>2. blame' \subseteq {"exit"} => OtherRowsAreAnswers'
  BY <1>1 DEF RowsOfAlarm, OtherRowsAreAnswers
<1> QED
  BY <1>1, <1>2 DEF RowsOfAlarm

(* The handler reads from the pipes of a procedure, and still the rows of  *)
(* the procedure, and those of a timeout that struck main, hold what they  *)
(* say: for every script that logs as an answer what it has just asked.    *)
THEOREM OtherRowsHoldAnswers ==
  ASSUME \A p \in Procedures : AnswersFollow(p)
  PROVE  AlarmSpec => [](blame \subseteq {"exit"} => OtherRowsAreAnswers)
<1>1. AlarmInit => RowsOfAlarm
  BY RowsOfAlarmInitially
<1>2. AlarmInv /\ RowsOfAlarm /\ [AlarmNext]_alarmVars => RowsOfAlarm'
  <2> SUFFICES ASSUME AlarmInv, RowsOfAlarm, [AlarmNext]_alarmVars PROVE RowsOfAlarm'
    OBVIOUS
  <2>1. closed = TRUE \/ closed = FALSE
    BY DEF AlarmInv
  <2>2. CASE struck = "no"
    BY <2>2, RowsBefore
  <2>3. CASE struck # "no"
    BY <2>1, <2>3, RowsInHandler, RowsAfter
  <2> QED
    BY <2>2, <2>3
<1>3. RowsOfAlarm => (blame \subseteq {"exit"} => OtherRowsAreAnswers)
  BY DEF RowsOfAlarm
<1> QED
  BY <1>1, <1>2, <1>3, AlarmInvariant, PTL DEF AlarmSpec
=============================================================================
