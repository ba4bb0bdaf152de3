--------------------------- MODULE Session_proofs ---------------------------
(***************************************************************************)
(* opd keeps the promise of Session in every session of every script whose *)
(* procedures write a row before they let the application go, let it go    *)
(* once, and leave the end of the session to opd.c.  Nothing is asked of   *)
(* gdb: it may refuse insertions and leave replies behind.                 *)
(***************************************************************************)
EXTENDS Opd_proofs

ScriptsInOrder ==
  /\ \A p \in Procedures : NeverExits(p) /\ ResumesOnce(p)
  /\ \A i \in DOMAIN Setup : Setup[i].do \notin Resumes
  /\ \A f \in Functions : Records(Proc[f])

(***************************************************************************)
(* The application is either held, or about to be let go by the last       *)
(* command sent, or running, or its stop is the last line unread; and      *)
(* while it is not held opd only logs and reads.                           *)
(***************************************************************************)
ExecPending == \E i \in DOMAIN gdb_stdin : gdb_stdin[i].op \in ExecOps
StopUnread  == \E i \in DOMAIN gdb_stdout : IsStop(gdb_stdout[i])
Held        == ~Running /\ ~ExecPending /\ ~StopUnread

FatalKinds == {"SIGSEGV", "signal", "exited"}
LastStop   == trace[Len(trace)]
Survived   == trace # <<>> /\ LastStop.kind \notin FatalKinds
Died       == trace # <<>> /\ LastStop.kind \in FatalKinds

StoppedBy(k) == CASE k = "SIGSEGV" -> "faulted"
                  [] k = "exited"  -> "dead"
                  [] OTHER         -> "stopped"

LettingGo ==
  /\ ~Held => /\ wait = "none" /\ exitflag = 0 /\ phase \in {"setup", "loop"} /\ current = <<>>
              /\ \A i \in DOMAIN code : code[i].do = "log"
  /\ \A i \in DOMAIN gdb_stdin : gdb_stdin[i].op \in ExecOps =>
       /\ i = Len(gdb_stdin) /\ gdb_stdin[i].op # "finish" /\ ~Running /\ ~StopUnread
       /\ IF gdb_stdin[i].op = "run" THEN app = "none" ELSE app = "stopped" /\ Survived
  /\ Running => gdb_stdin = <<>> /\ ~StopUnread /\ app # "finish"
  /\ \A i \in DOMAIN gdb_stdout :
       /\ gdb_stdout[i].kind # "notrunning"
       /\ IsStop(gdb_stdout[i]) =>
            /\ i = Len(gdb_stdout) /\ gdb_stdin = <<>> /\ gdb_stdout[i] \in StopLines
            /\ gdb_stdout[i].kind \notin {"function-finished", "SIGINT"}
            /\ app = StoppedBy(gdb_stdout[i].kind)
            /\ trace = Append(journal, gdb_stdout[i])
  /\ sigint = FALSE
  /\ app = "none" => trace = <<>>

(* What is left to evaluate lets the application go only if it survived    *)
(* its last stop, and tells opd to exit only if it did not.                *)
ToEvaluate ==
  /\ ResumesOnce(code)
  /\ \A i \in DOMAIN code :
       /\ code[i].do \in Resumes =>
            phase = "loop" /\ exitflag = 0 /\ app = "stopped" /\ Survived
       /\ code[i].do = "gdb_start_run" => i = Len(code) /\ phase = "setup" /\ app = "none"
       /\ code[i].do # "gdb_stepFinish"
  /\ exitflag # 0 \/ TellsExit(code) => Held /\ Died /\ phase \in {"loop", "ended"}

(* Every stop read is on record, but for the one whose row is still to be  *)
(* written before the application goes on.                                 *)
OnRecord ==
  /\ current = <<>> /\ ~StopUnread => trace = journal
  /\ current # <<>> => trace = journal \o current /\ Len(current) = 1
                       /\ (phase = "crashed" \/ Records(code))
  /\ phase = "ended" => current = <<>> /\ Held
  /\ trace \in Seq(StopLines)

(* gdb is gone only when the session is over, and no number is larger than *)
(* the number of commands.                                                 *)
Bounded ==
  /\ (app = "gone" \/ \E i \in DOMAIN gdb_stdin : gdb_stdin[i].op = "exit") => phase = "ended"
  /\ Len(bps) + Len(gdb_stdin) <= sent /\ sent <= MaxCommands

SessionInv == LettingGo /\ ToEvaluate /\ OnRecord /\ Bounded

----------------------------------------------------------------------------
(* What a step leaves of the script.                                       *)

(* What is said of the rest of a procedure holds of it after one command.  *)
LEMMA RestEvaluated ==
  ASSUME CodeInv, ToEvaluate, code # <<>>, code' = Tail(code), UNCHANGED <<phase, app, trace>>,
         exitflag' = exitflag \/ TellsExit(code),
         exitflag # 0 \/ TellsExit(code) => Held'
  PROVE  ToEvaluate'
<1>1. /\ code \in Seq(Commands) /\ Len(code) \in Nat \ {0} /\ Len(Tail(code)) = Len(code) - 1
      /\ DOMAIN Tail(code) = 1 .. (Len(code) - 1)
      /\ \A i \in DOMAIN Tail(code) : i + 1 \in DOMAIN code /\ Tail(code)[i] = code[i + 1]
      /\ ResumesOnce(code) => ResumesOnce(Tail(code))
      /\ TellsExit(Tail(code)) => TellsExit(code)
  BY TailFacts, RestOfScript DEF CodeInv
<1>2. exitflag' # 0 \/ TellsExit(code') => exitflag # 0 \/ TellsExit(code)
  BY <1>1
<1>3. exitflag' # 0 \/ TellsExit(code') => Held' /\ Died' /\ phase' \in {"loop", "ended"}
  BY <1>1, <1>2 DEF ToEvaluate, Died, LastStop
<1>4. ASSUME NEW i \in DOMAIN code'
      PROVE  /\ code'[i].do \in Resumes =>
                  phase' = "loop" /\ exitflag' = 0 /\ app' = "stopped" /\ Survived'
             /\ code'[i].do = "gdb_start_run" =>
                  i = Len(code') /\ phase' = "setup" /\ app' = "none"
             /\ code'[i].do # "gdb_stepFinish"
  <2>1. i + 1 \in DOMAIN code /\ code'[i] = code[i + 1]
    BY <1>1
  <2>2. i + 1 = Len(code) => i = Len(code')
    BY <1>1
  <2>3. code[i + 1].do \in Resumes => exitflag' = 0
    <3>1. exitflag' # 0 => exitflag # 0 \/ TellsExit(code)
      BY <1>2
    <3> QED
      BY <2>1, <3>1 DEF ToEvaluate, Survived, Died
  <2> QED
    BY <2>1, <2>2, <2>3 DEF ToEvaluate, Survived, LastStop
<1> QED
  BY <1>1, <1>3, <1>4 DEF ToEvaluate

(* A procedure that still owes a row does not let the application go, and  *)
(* owes it as long as it does not log.                                     *)
LEMMA RestRecords ==
  ASSUME NEW c \in Seq(Commands), Records(c)
  PROVE  /\ c # <<>> /\ Head(c).do \notin Resumes
         /\ Head(c).do # "log" => Records(Tail(c))
<1>1. PICK i \in DOMAIN c : c[i].do = "log" /\ \A k \in 1 .. i : c[k].do \notin Resumes
  BY DEF Records
<1>2. c # <<>>
  <2>1. Len(c) \in Nat /\ DOMAIN c = 1 .. Len(c) /\ (c = <<>> <=> Len(c) = 0)
    BY SeqFacts
  <2> QED
    BY <2>1
<1>3. /\ Len(c) \in Nat \ {0} /\ DOMAIN c = 1 .. Len(c) /\ Head(c) = c[1]
      /\ DOMAIN Tail(c) = 1 .. (Len(c) - 1)
      /\ \A j \in 1 .. (Len(c) - 1) : Tail(c)[j] = c[j + 1]
  BY <1>2, TailFacts
<1>4. Head(c).do \notin Resumes
  <2>1. 1 \in 1 .. i
    BY <1>3
  <2> QED
    BY <1>1, <1>3, <2>1
<1>5. ASSUME Head(c).do # "log"
      PROVE  Records(Tail(c))
  <2>1. i # 1
    BY <1>1, <1>3, <1>5
  <2>2. i - 1 \in DOMAIN Tail(c) /\ Tail(c)[i - 1] = c[i]
    BY <1>3, <2>1
  <2>3. \A k \in 1 .. (i - 1) : Tail(c)[k].do \notin Resumes
    <3> TAKE k \in 1 .. (i - 1)
    <3>1. k \in 1 .. (Len(c) - 1) /\ k + 1 \in 1 .. i
      BY <1>3
    <3> QED
      BY <1>1, <1>3, <3>1
  <2> QED
    BY <1>1, <2>2, <2>3 DEF Records
<1> QED
  BY <1>2, <1>4, <1>5

(* Once the application may go, opd evaluates nothing but rows.            *)
LEMMA OnlyLogsAfter ==
  ASSUME CodeInv, ToEvaluate, code # <<>>, Head(code).do \in Resumes \cup {"gdb_start_run"}
  PROVE  /\ \A i \in DOMAIN Tail(code) : Tail(code)[i].do = "log"
         /\ ~TellsExit(code) /\ exitflag = 0
<1>1. /\ Len(code) \in Nat \ {0} /\ DOMAIN code = 1 .. Len(code) /\ Head(code) = code[1]
      /\ DOMAIN Tail(code) = 1 .. (Len(code) - 1)
      /\ \A i \in 1 .. (Len(code) - 1) : Tail(code)[i] = code[i + 1]
      /\ Tail(code) = <<>> <=> Len(code) = 1
  BY TailFacts DEF CodeInv
<1>2. ~TellsExit(code) /\ exitflag = 0
  <2>1. "setup" \notin {"loop", "ended"} /\ 1 \in DOMAIN code
    BY <1>1
  <2> QED
    BY <1>1, <2>1 DEF ToEvaluate, Survived, Died
<1>3. CASE Head(code).do \in Resumes
  <2> SUFFICES ASSUME NEW i \in DOMAIN Tail(code)
               PROVE  Tail(code)[i].do = "log"
    BY <1>2
  <2>1. i + 1 \in DOMAIN code /\ 1 \in DOMAIN code /\ 1 < i + 1 /\ Tail(code)[i] = code[i + 1]
    BY <1>1
  <2> QED
    BY <1>1, <1>3, <2>1 DEF ToEvaluate, ResumesOnce
<1>4. CASE Head(code).do = "gdb_start_run"
  <2>1. Tail(code) = <<>>
    BY <1>1, <1>4 DEF ToEvaluate
  <2>2. \A i \in DOMAIN Tail(code) : FALSE
    BY <2>1
  <2> QED
    BY <1>2, <2>2
<1> QED
  BY <1>3, <1>4

(* gdb enters at most one breakpoint for a command.                        *)
LEMMA GdbTables ==
  ASSUME TypeOK, GdbExecute
  PROVE  Len(bps') \in Nat /\ Len(bps') <= Len(bps) + 1
<1>1. TypeOK'
  BY TypesKept DEF Next
<1>2. Len(bps') \in Nat /\ Len(bps) \in Nat
  BY <1>1, TypesOfTables, SeqFacts DEF TypeOK
<1>3. CASE bps' = bps
  BY <1>2, <1>3
<1>4. CASE \E k \in {"break", "watch"} : Added(k)
  <2>1. PICK k \in {"break", "watch"} : Added(k)
    BY <1>4
  <2>2. bps' = Append(bps, [kind |-> k, fn |-> Head(gdb_stdin).fn, live |-> TRUE])
    BY <2>1 DEF Added
  <2>3. \A e : Len(Append(bps, e)) = Len(bps) + 1
    BY TypesOfTables
  <2> QED
    BY <1>2, <2>2, <2>3
<1>5. bps' = bps \/ \E k \in {"break", "watch"} : Added(k)
  BY DEF GdbExecute, GdbQuery, GdbInsert, GdbWatch, GdbCall, Resume, ResumeFaulted, RefuseResume,
         GdbExit
<1> QED
  BY <1>3, <1>4, <1>5

(* A procedure of the script writes rows, calls gdbmi.c and does nothing   *)
(* else.                                                                   *)
LEMMA ProcFacts ==
  ASSUME ScriptsInOrder, NEW p \in Procedures
  PROVE  /\ p \in Seq(Commands) /\ ResumesOnce(p) /\ ~TellsExit(p)
         /\ \A i \in DOMAIN p : p[i].do \notin {"gdb_start_run", "gdb_stepFinish", "opd_setExit"}
<1>1. p \in Seq(TclCommands)
  BY ScriptAssumption
<1>2. Len(p) \in Nat /\ DOMAIN p = 1 .. Len(p) /\ \A i \in 1 .. Len(p) : p[i] \in TclCommands
  BY <1>1, SeqFacts
<1>3. \A i \in DOMAIN p : p[i].do # "gdb_start_run"
  BY <1>2 DEF TclCommands, TclNames
<1>4. p \in Seq(Commands)
  BY <1>1 DEF Commands
<1>5. ResumesOnce(p) /\ \A i \in DOMAIN p : p[i].do \notin {"opd_setExit", "gdb_stepFinish"}
  BY DEF ScriptsInOrder, NeverExits
<1> QED
  BY <1>3, <1>4, <1>5 DEF TellsExit

(* opd starts with the setup of the script to evaluate and nothing sent.   *)
LEMMA SessionInvInitially ==
  ASSUME ScriptsInOrder, OpdInit
  PROVE  SessionInv
<1> DEFINE h == IF HasArguments THEN 1 ELSE 0
           n == Len(Setup)
<1>1. /\ Setup \in Procedures /\ n \in Nat /\ DOMAIN Setup = 1 .. n
      /\ Len(code) = h + n + 2 /\ DOMAIN code = 1 .. h + n + 2
      /\ HasArguments => code[1].do = "gdb_set_arguments"
      /\ \A i \in 1 .. n : code[h + i] = Setup[i]
      /\ code[h + n + 1].do = "log" /\ code[h + n + 2].do = "gdb_start_run"
  BY SetupFacts
<1>2. \A i \in 1 .. n : Setup[i].do \notin Resumes \cup {"gdb_start_run", "gdb_stepFinish",
                                                         "opd_setExit"}
  BY <1>1, ProcFacts DEF ScriptsInOrder
<1>3. ASSUME NEW i \in DOMAIN code
      PROVE  /\ code[i].do \notin Resumes \cup {"gdb_stepFinish", "opd_setExit"}
             /\ code[i].do = "gdb_start_run" => i = Len(code)
  <2>1. CASE HasArguments /\ i = 1
    BY <1>1, <2>1 DEF Resumes
  <2>2. CASE i = h + n + 1
    BY <1>1, <2>2 DEF Resumes
  <2>3. CASE i = h + n + 2
    BY <1>1, <2>3 DEF Resumes
  <2>4. CASE i - h \in 1 .. n
    <3>1. h + (i - h) = i
      BY <1>1
    <3>2. code[i] = Setup[i - h]
      BY <1>1, <2>4, <3>1
    <3> QED
      BY <1>2, <2>4, <3>2
  <2>5. \/ HasArguments /\ i = 1
        \/ i = h + n + 1
        \/ i = h + n + 2
        \/ i - h \in 1 .. n
    BY <1>1
  <2> QED
    BY <2>1, <2>2, <2>3, <2>4, <2>5
<1>4. /\ phase = "setup" /\ exitflag = 0 /\ app = "none" /\ wait = "none" /\ sigint = FALSE
      /\ sent = 0
      /\ gdb_stdin = <<>> /\ gdb_stdout = <<>> /\ bps = <<>>
      /\ trace = <<>> /\ current = <<>> /\ journal = <<>>
  BY DEF OpdInit, Init
<1>5. /\ \A i \in DOMAIN gdb_stdin : FALSE
      /\ \A i \in DOMAIN gdb_stdout : FALSE
      /\ Len(bps) = 0 /\ Len(gdb_stdin) = 0
  BY <1>4
<1>6. Held
  BY <1>4, <1>5 DEF Held, Running, ExecPending, StopUnread
<1>7. LettingGo
  BY <1>4, <1>5, <1>6 DEF LettingGo, Running
<1>8. ToEvaluate
  BY <1>3, <1>4 DEF ToEvaluate, ResumesOnce, TellsExit
<1>9. OnRecord
  <2>1. <<>> \in Seq(StopLines)
    OBVIOUS
  <2> QED
    BY <1>4, <1>6, <2>1 DEF OnRecord
<1>10. Bounded
  BY <1>4, <1>5, BoundsAssumption DEF Bounded
<1> QED
  BY <1>7, <1>8, <1>9, <1>10 DEF SessionInv

----------------------------------------------------------------------------
(* Each step keeps the invariant.                                          *)

(* A command of a procedure reaches gdb while the application is held; if  *)
(* it lets the application go, only rows are left to evaluate.             *)
LEMMA EvalKeeps ==
  ASSUME OpdTypes, SessionInv, EvalGdb
  PROVE  SessionInv'
<1> USE DEF SessionInv
<1>1. TypeOK /\ CodeInv
  BY DEF OpdTypes
<1>2. /\ code # <<>> /\ code' = Tail(code) /\ wait = "none" /\ app # "gone"
      /\ Head(code).do \in Asks \cup Calls \cup Resumes \cup {"gdb_set_arguments", "gdb_start_run"}
      /\ sent < MaxCommands /\ sent' = sent + 1 /\ gdb_stdout' = gdb_stdout
      /\ UNCHANGED <<bps, app, sigint, phase, exitflag, trace, current, journal>>
      /\ Sends(Head(code))
  BY <1>1, EvalFacts DEF gdb, history
<1>3. 1 \in DOMAIN code /\ Head(code) = code[1] /\ phase \in {"setup", "loop"}
      /\ DOMAIN code = 1 .. Len(code)
  <2>1. phase \in {"setup", "loop"}
    BY DEF EvalGdb, Evaluating
  <2>2. Len(code) \in Nat \ {0} /\ DOMAIN code = 1 .. Len(code) /\ Head(code) = code[1]
    BY <1>1, <1>2, TailFacts DEF CodeInv
  <2> QED
    BY <2>1, <2>2
<1>4. Held
  <2>1. Head(code).do # "log"
    BY <1>2 DEF Asks, Calls, Resumes
  <2> QED
    BY <1>3, <2>1 DEF LettingGo
<1>5. PICK op \in Ops, c \in Command :
        /\ gdb_stdin' = Append(gdb_stdin, c) /\ c.op = op /\ op # "exit"
        /\ op \in ExecOps => Head(code).do \in Resumes \cup {"gdb_start_run"}
        /\ op \in ExecOps => wait' = "none"
        /\ op = "run" <=> Head(code).do = "gdb_start_run"
        /\ op = "finish" <=> Head(code).do = "gdb_stepFinish"
        /\ Head(code).do \in Resumes => op \in ExecOps
  <2>1. PICK op \in Ops, fn \in Functions \cup {NoFunction} :
          LET new == [op |-> op, fn |-> fn, id |-> sent + 1]
          IN  /\ new \in Command /\ gdb_stdin' = Append(gdb_stdin, new)
              /\ Head(code).do \notin Asks \cup Calls => wait' = "none"
              /\ Head(code).do \notin Asks \cup Calls \cup {"gdb_set_arguments"} => op \in ExecOps
              /\ op \in ExecOps => Head(code).do \in Resumes \cup {"gdb_start_run"}
              /\ op = "run" <=> Head(code).do = "gdb_start_run"
              /\ op = "finish" <=> Head(code).do = "gdb_stepFinish"
              /\ op # "exit"
    BY <1>2 DEF Sends
  <2>2. [op |-> op, fn |-> fn, id |-> sent + 1].op = op
    OBVIOUS
  <2>3. \A do \in Resumes \cup {"gdb_start_run"} : do \notin Asks \cup Calls \cup {"gdb_set_arguments"}
    BY DEF Resumes, Asks, Calls
  <2> QED
    BY <2>1, <2>2, <2>3
<1>6. /\ Len(gdb_stdin') = Len(gdb_stdin) + 1 /\ Len(gdb_stdin) \in Nat
      /\ \A i \in DOMAIN gdb_stdin' :
           \/ i \in DOMAIN gdb_stdin /\ gdb_stdin'[i] = gdb_stdin[i]
           \/ i = Len(gdb_stdin) + 1 /\ gdb_stdin'[i] = c
  BY <1>1, <1>5, CommandSent
<1>7. ~Running' /\ ~StopUnread' /\ ~StopUnread
  BY <1>2, <1>4 DEF Held, Running, StopUnread
<1>8. op \notin ExecOps => Held'
  BY <1>4, <1>5, <1>6, <1>7 DEF Held, ExecPending
<1>9. op \in ExecOps =>
        /\ \A i \in DOMAIN code' : code'[i].do = "log"
        /\ ~TellsExit(code) /\ exitflag = 0
  BY <1>1, <1>2, <1>5, OnlyLogsAfter
<1>10. ToEvaluate'
  <2>1. exitflag # 0 \/ TellsExit(code) => Held'
    BY <1>8, <1>9
  <2> QED
    BY <1>1, <1>2, <2>1, RestEvaluated
<1>11. current # <<>> => op \notin ExecOps /\ Records(code')
  <2> SUFFICES ASSUME current # <<>>
               PROVE  op \notin ExecOps /\ Records(code')
    OBVIOUS
  <2>1. Records(code)
    BY <1>3 DEF OnRecord
  <2>2. Head(code).do \notin Resumes /\ Records(code')
    <3>1. Head(code).do # "log"
      BY <1>2 DEF Asks, Calls, Resumes
    <3> QED
      BY <1>1, <1>2, <2>1, <3>1, RestRecords DEF CodeInv
  <2>3. Head(code).do # "gdb_start_run"
    <3> SUFFICES ASSUME Head(code).do = "gdb_start_run"
                 PROVE  FALSE
      OBVIOUS
    <3>1. Len(code) = 1
      BY <1>3 DEF ToEvaluate
    <3>2. PICK i \in DOMAIN code : code[i].do = "log"
      BY <2>1 DEF Records
    <3>3. i = 1
      BY <1>3, <3>1
    <3> QED
      BY <1>3, <3>2, <3>3
  <2> QED
    BY <1>5, <2>2, <2>3
<1>12. LettingGo'
  <2>1. ~Held' => /\ wait' = "none" /\ exitflag' = 0 /\ phase' \in {"setup", "loop"} /\ current' = <<>>
                  /\ \A i \in DOMAIN code' : code'[i].do = "log"
    BY <1>2, <1>3, <1>5, <1>8, <1>9, <1>11
  <2>2. ASSUME NEW i \in DOMAIN gdb_stdin', gdb_stdin'[i].op \in ExecOps
        PROVE  /\ i = Len(gdb_stdin') /\ gdb_stdin'[i].op # "finish" /\ ~Running' /\ ~StopUnread'
               /\ IF gdb_stdin'[i].op = "run" THEN app' = "none" ELSE app' = "stopped" /\ Survived'
    <3>1. i = Len(gdb_stdin) + 1 /\ gdb_stdin'[i] = c /\ op \in ExecOps
      BY <1>4, <1>5, <1>6, <2>2 DEF Held, ExecPending
    <3>2. op # "finish"
      BY <1>3, <1>5 DEF ToEvaluate
    <3>3. IF op = "run" THEN app = "none" ELSE app = "stopped" /\ Survived
      BY <1>3, <1>5, <3>1 DEF ToEvaluate
    <3> QED
      BY <1>2, <1>5, <1>6, <1>7, <3>1, <3>2, <3>3 DEF Survived, LastStop
  <2> QED
    BY <1>2, <1>7, <2>1, <2>2 DEF LettingGo, StopUnread
<1>13. OnRecord'
  BY <1>2, <1>3, <1>7, <1>11 DEF OnRecord
<1>14. Bounded'
  <2>1. gdb_stdin' = Append(gdb_stdin, c) /\ phase # "ended"
    BY <1>3, <1>5
  <2>2. ~\E i \in DOMAIN gdb_stdin' : gdb_stdin'[i].op = "exit"
    BY <1>5, <1>6, <2>1 DEF Bounded
  <2>3. Len(bps) \in Nat /\ sent \in Nat /\ MaxCommands \in Nat
    BY <1>1, TypesOfTables, BoundsAssumption DEF TypeOK
  <2>4. Len(bps') + Len(gdb_stdin') <= sent' /\ sent' <= MaxCommands
    BY <1>2, <1>6, <2>3 DEF Bounded
  <2> QED
    BY <1>2, <2>2, <2>4 DEF Bounded
<1> QED
  BY <1>10, <1>12, <1>13, <1>14

(* A row is written: the stop being handled is on record.                  *)
LEMMA LogKeeps ==
  ASSUME OpdTypes, SessionInv, db_logMessage
  PROVE  SessionInv'
<1> USE DEF SessionInv
<1>1. /\ code \in Seq(Commands) /\ code # <<>> /\ code' = Tail(code) /\ phase \in {"setup", "loop"}
      /\ journal' = journal \o current /\ current' = <<>>
      /\ UNCHANGED <<gdb_stdin, gdb_stdout, bps, app, sigint, sent, wait, phase, exitflag, trace>>
  BY DEF db_logMessage, Evaluating, OpdTypes, CodeInv, vars, opd, pipes, gdb
<1>2. \A i \in DOMAIN code' : \E j \in DOMAIN code : code'[i] = code[j]
  BY <1>1, TailFacts
<1>3. Held' <=> Held
  BY <1>1 DEF Held, Running, ExecPending, StopUnread
<1>4. StopUnread' <=> StopUnread
  BY <1>1 DEF StopUnread
<1>5. current = <<>> => journal' = journal
  <2>1. journal \in Seq(StopRecords)
    BY DEF OpdTypes
  <2>2. journal \o <<>> = journal
    BY <2>1, ConcatEmptySeq
  <2> QED
    BY <1>1, <2>2
<1>6. ToEvaluate'
  <2>1. exitflag # 0 \/ TellsExit(code) => Held'
    BY <1>3 DEF ToEvaluate
  <2> QED
    BY <1>1, <2>1, RestEvaluated DEF OpdTypes
<1>7. LettingGo'
  <2>1. ~Held' => /\ wait' = "none" /\ exitflag' = 0 /\ phase' \in {"setup", "loop"}
                  /\ \A i \in DOMAIN code' : code'[i].do = "log"
    BY <1>1, <1>2, <1>3 DEF LettingGo
  <2>2. StopUnread => journal' = journal
    BY <1>5 DEF LettingGo, Held
  <2>3. ASSUME NEW i \in DOMAIN gdb_stdout, IsStop(gdb_stdout[i])
        PROVE  trace = Append(journal', gdb_stdout[i])
    BY <2>2, <2>3 DEF LettingGo, StopUnread
  <2> QED
    BY <1>1, <1>4, <2>1, <2>3 DEF LettingGo, Running, Survived, LastStop
<1>8. OnRecord'
  <2>1. ~StopUnread => trace = journal'
    BY <1>1, <1>5 DEF OnRecord
  <2> QED
    BY <1>1, <1>4, <2>1 DEF OnRecord
<1>9. Bounded'
  BY <1>1 DEF Bounded
<1> QED
  BY <1>6, <1>7, <1>8, <1>9

(* opd is told to exit, which only happens while the application is held   *)
(* at a stop it does not survive.                                          *)
LEMMA SetExitKeeps ==
  ASSUME OpdTypes, SessionInv, opd_setExit
  PROVE  SessionInv'
<1> USE DEF SessionInv
<1>1. /\ code \in Seq(Commands) /\ code # <<>> /\ code' = Tail(code) /\ phase \in {"setup", "loop"}
      /\ Head(code).do = "opd_setExit"
      /\ UNCHANGED <<gdb_stdin, gdb_stdout, bps, app, sigint, sent, wait, phase,
                     trace, current, journal>>
  BY DEF opd_setExit, Evaluating, OpdTypes, CodeInv, vars, opd, pipes, gdb, history
<1>2. TellsExit(code)
  BY <1>1, TailFacts DEF TellsExit
<1>3. Held /\ Held'
  BY <1>1, <1>2 DEF ToEvaluate, Held, Running, ExecPending, StopUnread
<1>4. ToEvaluate'
  BY <1>1, <1>2, <1>3, RestEvaluated DEF OpdTypes
<1>5. LettingGo'
  BY <1>1, <1>3 DEF LettingGo, Running, StopUnread, Survived, LastStop
<1>6. OnRecord'
  <2>1. Records(code) => Records(code')
    BY <1>1, RestRecords
  <2> QED
    BY <1>1, <1>3, <2>1 DEF OnRecord, StopUnread
<1>7. Bounded'
  BY <1>1 DEF Bounded
<1> QED
  BY <1>4, <1>5, <1>6, <1>7

(* A reading loop of gdbmi.c meets no stop, for the application is held.   *)
LEMMA AwaitKeeps ==
  ASSUME OpdTypes, SessionInv, Await
  PROVE  SessionInv'
<1> USE DEF SessionInv
<1>1. /\ wait # "none" /\ Read
      /\ UNCHANGED <<code, phase, exitflag, trace, current, journal>>
  BY DEF Await, session, history
<1>2. /\ UNCHANGED <<gdb_stdin, bps, app, sigint, sent>>
      /\ \A i \in DOMAIN gdb_stdout' : \E j \in DOMAIN gdb_stdout : gdb_stdout'[i] = gdb_stdout[j]
  BY <1>1, ReadFrame DEF OpdTypes, gdb
<1>3. Held
  BY <1>1 DEF LettingGo
<1>4. Held' /\ ~StopUnread' /\ ~StopUnread
  BY <1>2, <1>3 DEF Held, Running, ExecPending, StopUnread
<1>5. LettingGo'
  <2>1. \A i \in DOMAIN gdb_stdout' : gdb_stdout'[i].kind # "notrunning" /\ ~IsStop(gdb_stdout'[i])
    BY <1>2, <1>4 DEF LettingGo, StopUnread
  <2>2. \A i \in DOMAIN gdb_stdin' : gdb_stdin'[i].op \notin ExecOps
    BY <1>4 DEF Held, ExecPending
  <2> QED
    BY <1>1, <1>2, <1>4, <2>1, <2>2 DEF LettingGo, Held
<1>6. ToEvaluate'
  BY <1>1, <1>2, <1>4 DEF ToEvaluate, Survived, Died, LastStop
<1>7. OnRecord'
  BY <1>1, <1>4 DEF OnRecord
<1>8. Bounded'
  BY <1>1, <1>2 DEF Bounded
<1> QED
  BY <1>5, <1>6, <1>7, <1>8

(* Nothing of the setup is left when the event loop starts.                *)
LEMMA StartLoopKeeps ==
  ASSUME SessionInv, StartLoop
  PROVE  SessionInv'
<1> USE DEF SessionInv
<1>1. /\ phase = "setup" /\ code = <<>> /\ phase' = "loop" /\ exitflag' = 0
      /\ UNCHANGED <<gdb_stdin, gdb_stdout, bps, app, sigint, sent, wait, code,
                     trace, current, journal>>
  BY DEF StartLoop, vars, opd, pipes, gdb, history
<1>2. \A i \in DOMAIN code : FALSE
  BY <1>1
<1>3. Held' <=> Held
  BY <1>1 DEF Held, Running, ExecPending, StopUnread
<1>4. LettingGo'
  BY <1>1, <1>2, <1>3 DEF LettingGo, Running, StopUnread, Survived, LastStop
<1>5. ToEvaluate'
  BY <1>1, <1>2 DEF ToEvaluate, TellsExit, ResumesOnce
<1>6. OnRecord'
  BY <1>1 DEF OnRecord, StopUnread
<1>7. Bounded'
  BY <1>1 DEF Bounded
<1> QED
  BY <1>4, <1>5, <1>6, <1>7

(* main tells gdb to exit after a stop the application does not survive.   *)
LEMMA ExitKeeps ==
  ASSUME OpdTypes, SessionInv, opd_exit
  PROVE  SessionInv'
<1> USE DEF SessionInv
<1>1. /\ phase = "loop" /\ code = <<>> /\ exitflag # 0 /\ phase' = "ended" /\ sent < MaxCommands
      /\ sent' = sent + 1 /\ app # "gone" /\ wait = "none"
      /\ UNCHANGED <<gdb_stdout, bps, app, sigint, wait, code, exitflag, trace, current, journal>>
  BY DEF opd_exit, gdb_exit, Fire, Write, gdb, history
<1>2. PICK c \in Command : gdb_stdin' = Append(gdb_stdin, c) /\ c.op = "exit"
  <2>1. TypeOK /\ Write("exit", NoFunction) /\ "exit" \in Ops
    BY DEF OpdTypes, opd_exit, gdb_exit, Fire, Ops
  <2>2. [op |-> "exit", fn |-> NoFunction, id |-> sent + 1] \in Command
    BY <2>1, WriteTypes
  <2>3. gdb_stdin' = Append(gdb_stdin, [op |-> "exit", fn |-> NoFunction, id |-> sent + 1])
    BY <2>1 DEF Write
  <2>4. [op |-> "exit", fn |-> NoFunction, id |-> sent + 1].op = "exit"
    OBVIOUS
  <2> QED
    BY <2>2, <2>3, <2>4
<1>3. /\ Len(gdb_stdin') = Len(gdb_stdin) + 1 /\ Len(gdb_stdin) \in Nat
      /\ \A i \in DOMAIN gdb_stdin' :
           \/ i \in DOMAIN gdb_stdin /\ gdb_stdin'[i] = gdb_stdin[i]
           \/ i = Len(gdb_stdin) + 1 /\ gdb_stdin'[i] = c
  BY <1>2, CommandSent DEF OpdTypes
<1>4. \A i \in DOMAIN code : FALSE
  BY <1>1
<1>5. Held /\ Died
  BY <1>1 DEF ToEvaluate
<1>6. Held' /\ ~StopUnread' /\ ~Running'
  BY <1>1, <1>2, <1>3, <1>5 DEF Held, Running, ExecPending, StopUnread, ExecOps
<1>7. LettingGo'
  <2>1. \A i \in DOMAIN gdb_stdin' : gdb_stdin'[i].op \notin ExecOps
    BY <1>6 DEF Held, ExecPending
  <2>2. \A i \in DOMAIN gdb_stdout' : ~IsStop(gdb_stdout'[i])
    BY <1>6 DEF StopUnread
  <2> QED
    BY <1>1, <1>6, <2>1, <2>2 DEF LettingGo
<1>8. ToEvaluate'
  BY <1>1, <1>4, <1>5, <1>6 DEF ToEvaluate, TellsExit, ResumesOnce, Died, LastStop
<1>9. current = <<>>
  <2>1. code \in Seq(Commands)
    BY DEF OpdTypes, CodeInv
  <2> QED
    BY <1>1, <2>1, RestRecords DEF OnRecord
<1>10. OnRecord'
  BY <1>1, <1>5, <1>6, <1>9 DEF OnRecord, Held
<1>11. Bounded'
  <2>1. Len(bps) \in Nat /\ sent \in Nat /\ MaxCommands \in Nat
    BY TypesOfTables, BoundsAssumption DEF OpdTypes, TypeOK
  <2> QED
    BY <1>1, <1>3, <2>1 DEF Bounded
<1> QED
  BY <1>7, <1>8, <1>10, <1>11

(* main reads an event: output, which it writes down, or the stop of the   *)
(* application, whose procedure writes a row before anything else happens. *)
LEMMA DispatchKeeps ==
  ASSUME ScriptsInOrder, OpdTypes, SessionInv, Dispatch
  PROVE  SessionInv'
<1> USE DEF SessionInv
<1> DEFINE l == line'
           k == line'.kind
<1>1. /\ phase = "loop" /\ code = <<>> /\ exitflag = 0 /\ wait = "none" /\ l \in Line
      /\ UNCHANGED <<gdb_stdin, bps, app, sigint, sent, wait, trace, journal>>
      /\ current' = (IF IsStop(l) THEN <<l>> ELSE <<>>)
  BY DispatchIs DEF OpdTypes, gdb
<1>2. app # "gone"
  BY <1>1 DEF Bounded
<1>3. current = <<>>
  <2>1. code \in Seq(Commands)
    BY DEF OpdTypes, CodeInv
  <2> QED
    BY <1>1, <2>1, RestRecords DEF OnRecord
<1>4. \/ l = Plain("stderr") /\ gdb_stdout' = gdb_stdout
      \/ gdb_stdout # <<>> /\ l = Head(gdb_stdout) /\ gdb_stdout' = Tail(gdb_stdout)
  BY <1>2, DispatchIs DEF OpdTypes
<1>5. /\ Len(gdb_stdout) \in Nat /\ DOMAIN gdb_stdout = 1 .. Len(gdb_stdout)
      /\ gdb_stdout \in Seq(Line)
  BY TypesOfPipes DEF OpdTypes
<1>6. ASSUME gdb_stdout # <<>>, l = Head(gdb_stdout), gdb_stdout' = Tail(gdb_stdout)
      PROVE  /\ 1 \in DOMAIN gdb_stdout /\ l = gdb_stdout[1] /\ k # "notrunning"
             /\ \A i \in DOMAIN gdb_stdout' :
                  /\ i + 1 \in DOMAIN gdb_stdout /\ gdb_stdout'[i] = gdb_stdout[i + 1]
                  /\ i + 1 = Len(gdb_stdout) => i = Len(gdb_stdout')
             /\ \A i \in DOMAIN gdb_stdout : i = 1 \/ i - 1 \in DOMAIN gdb_stdout'
             /\ Len(gdb_stdout) = 1 => gdb_stdout' = <<>>
  <2>1. /\ Len(gdb_stdout) \in Nat \ {0} /\ Head(gdb_stdout) = gdb_stdout[1]
        /\ Len(Tail(gdb_stdout)) = Len(gdb_stdout) - 1
        /\ DOMAIN Tail(gdb_stdout) = 1 .. (Len(gdb_stdout) - 1)
        /\ \A i \in 1 .. (Len(gdb_stdout) - 1) : Tail(gdb_stdout)[i] = gdb_stdout[i + 1]
        /\ Tail(gdb_stdout) = <<>> <=> Len(gdb_stdout) = 1
    BY <1>5, <1>6, TailFacts
  <2>2. 1 \in DOMAIN gdb_stdout /\ l = gdb_stdout[1]
    BY <1>5, <1>6, <2>1
  <2>3. k # "notrunning"
    BY <2>2 DEF LettingGo
  <2>4. \A i \in DOMAIN gdb_stdout' :
          /\ i + 1 \in DOMAIN gdb_stdout /\ gdb_stdout'[i] = gdb_stdout[i + 1]
          /\ i + 1 = Len(gdb_stdout) => i = Len(gdb_stdout')
    BY <1>5, <1>6, <2>1
  <2>5. \A i \in DOMAIN gdb_stdout : i = 1 \/ i - 1 \in DOMAIN gdb_stdout'
    BY <1>5, <1>6, <2>1
  <2> QED
    BY <1>6, <2>1, <2>2, <2>3, <2>4, <2>5
<1>7. Bounded'
  <2>1. phase' # "ended" => \A i \in DOMAIN gdb_stdin : gdb_stdin[i].op # "exit"
    BY <1>1 DEF Bounded
  <2> QED
    BY <1>1, <1>2, <2>1 DEF Bounded
<1>8. CASE ~IsStop(l)
  <2>1. /\ code' \in Quiets /\ phase' = "loop" /\ exitflag' = 0 /\ current' = <<>>
    <3>1. current' = <<>>
      BY <1>1, <1>8
    <3>2. CASE l = Plain("stderr") /\ gdb_stdout' = gdb_stdout
      BY <1>2, <3>1, <3>2, DispatchIs DEF OpdTypes
    <3>3. CASE gdb_stdout # <<>> /\ l = Head(gdb_stdout) /\ gdb_stdout' = Tail(gdb_stdout)
      <4>1. k \notin StopKinds /\ k # "notrunning"
        BY <1>6, <1>8, <3>3 DEF IsStop
      <4>2. k \notin Numbered \cup {"end-stepping-range", "SIGSEGV", "function-finished", "SIGINT",
                                   "signal", "exited", "notrunning"}
        BY <4>1 DEF StopKinds, Numbered
      <4> QED
        BY <1>2, <3>1, <4>2, DispatchIs DEF OpdTypes
    <3> QED
      BY <1>4, <3>2, <3>3
  <2>2. \A i \in DOMAIN code' : code'[i].do = "log"
    BY <2>1, QuietFacts
  <2>3. \A i \in DOMAIN gdb_stdout' : \E j \in DOMAIN gdb_stdout :
          gdb_stdout'[i] = gdb_stdout[j] /\ (j = Len(gdb_stdout) => i = Len(gdb_stdout'))
    <3>1. CASE gdb_stdout' = gdb_stdout
      BY <3>1
    <3>2. CASE gdb_stdout # <<>> /\ l = Head(gdb_stdout) /\ gdb_stdout' = Tail(gdb_stdout)
      BY <1>6, <3>2
    <3> QED
      BY <1>4, <3>1, <3>2
  <2>4. StopUnread => StopUnread'
    <3> SUFFICES ASSUME NEW j \in DOMAIN gdb_stdout, IsStop(gdb_stdout[j])
                 PROVE  \E i \in DOMAIN gdb_stdout' : IsStop(gdb_stdout'[i])
      BY DEF StopUnread
    <3>1. CASE gdb_stdout' = gdb_stdout
      BY <3>1
    <3>2. CASE gdb_stdout # <<>> /\ l = Head(gdb_stdout) /\ gdb_stdout' = Tail(gdb_stdout)
      <4>1. j # 1
        BY <1>6, <1>8, <3>2
      <4>2. j - 1 \in DOMAIN gdb_stdout' /\ (j - 1) + 1 = j
        BY <1>5, <1>6, <3>2, <4>1
      <4>3. gdb_stdout'[j - 1] = gdb_stdout[j]
        BY <1>6, <3>2, <4>2
      <4> QED
        BY <4>2, <4>3
    <3> QED
      BY <1>4, <3>1, <3>2
  <2>5. StopUnread' => StopUnread
    BY <2>3 DEF StopUnread
  <2>6. Held' <=> Held
    BY <1>1, <2>4, <2>5 DEF Held, Running, ExecPending
  <2>7. LettingGo'
    <3>1. ~Held' => /\ wait' = "none" /\ exitflag' = 0 /\ phase' \in {"setup", "loop"}
                    /\ current' = <<>> /\ \A i \in DOMAIN code' : code'[i].do = "log"
      BY <1>1, <2>1, <2>2
    <3>2. \A i \in DOMAIN gdb_stdout' :
            /\ gdb_stdout'[i].kind # "notrunning"
            /\ IsStop(gdb_stdout'[i]) =>
                 /\ i = Len(gdb_stdout') /\ gdb_stdin = <<>> /\ gdb_stdout'[i] \in StopLines
                 /\ gdb_stdout'[i].kind \notin {"function-finished", "SIGINT"}
                 /\ app = StoppedBy(gdb_stdout'[i].kind)
                 /\ trace = Append(journal, gdb_stdout'[i])
      BY <2>3 DEF LettingGo
    <3>3. StopUnread' <=> StopUnread
      BY <2>4, <2>5
    <3> QED
      BY <1>1, <3>1, <3>2, <3>3 DEF LettingGo, Running, Survived, LastStop
  <2>8. ToEvaluate'
    BY <1>1, <2>1, <2>2 DEF ToEvaluate, ResumesOnce, TellsExit, Resumes
  <2>9. OnRecord'
    BY <1>1, <1>3, <2>1, <2>4 DEF OnRecord
  <2> QED
    BY <1>7, <2>7, <2>8, <2>9
<1>9. CASE IsStop(l)
  <2>1. gdb_stdout # <<>> /\ l = Head(gdb_stdout) /\ gdb_stdout' = Tail(gdb_stdout)
    <3>1. ~IsStop(Plain("stderr"))
      BY DEF IsStop, Plain, StopKinds
    <3> QED
      BY <1>4, <1>9, <3>1
  <2>2. /\ 1 = Len(gdb_stdout) /\ gdb_stdin = <<>> /\ app = StoppedBy(k)
        /\ k \notin {"function-finished", "SIGINT", "notrunning"} /\ trace = Append(journal, l)
        /\ gdb_stdout' = <<>> /\ l \in StopLines
    <3>1. 1 \in DOMAIN gdb_stdout /\ l = gdb_stdout[1] /\ k # "notrunning"
      BY <1>6, <2>1
    <3>2. /\ 1 = Len(gdb_stdout) /\ gdb_stdin = <<>> /\ app = StoppedBy(k)
          /\ k \notin {"function-finished", "SIGINT"} /\ trace = Append(journal, l)
          /\ l \in StopLines
      BY <1>9, <3>1 DEF LettingGo
    <3> QED
      BY <1>6, <2>1, <3>1, <3>2
  <2>3. /\ \A i \in DOMAIN gdb_stdin : FALSE
        /\ \A i \in DOMAIN gdb_stdout' : FALSE
    BY <2>2
  <2>4. app \in {"faulted", "dead", "stopped"}
    BY <2>2 DEF StoppedBy
  <2>5. Held' /\ ~StopUnread' /\ ~Running'
    BY <1>1, <2>3, <2>4 DEF Held, Running, ExecPending, StopUnread
  <2>6. /\ trace' = trace /\ trace # <<>> /\ LastStop = l /\ LastStop' = l
        /\ trace = journal \o <<l>> /\ Len(<<l>>) = 1 /\ current' = <<l>>
    <3>1. journal \in Seq(StopRecords) /\ l \in StopRecords
      BY <1>1, <1>9 DEF OpdTypes, StopRecords
    <3>2. /\ Append(journal, l) # <<>> /\ Len(Append(journal, l)) = Len(journal) + 1
          /\ Append(journal, l)[Len(journal) + 1] = l
      BY <3>1, AppendFacts
    <3>3. Append(journal, l) = journal \o <<l>>
      BY <3>1, AppendIsConcat
    <3>4. Len(<<l>>) = 1
      OBVIOUS
    <3> QED
      BY <1>1, <1>9, <2>2, <3>2, <3>3, <3>4 DEF LastStop
  <2>7. LettingGo'
    <3>1. app # "none" /\ sigint' = FALSE
      BY <1>1, <2>4 DEF LettingGo
    <3> QED
      BY <1>1, <2>3, <2>5, <3>1 DEF LettingGo
  <2>8. \/ phase' = "crashed" /\ code' = <<>> /\ exitflag' = 0
        \/ /\ phase' = "loop" /\ exitflag' = 0 /\ k \in Numbered \cup {"end-stepping-range"}
           /\ \E f \in Functions : code' = Proc[f]
        \/ phase' = "loop" /\ exitflag' = 0 /\ k = "SIGSEGV" /\ code' = opd_dispatchSigSeg
        \/ phase' = "loop" /\ k \in {"signal", "exited"} /\ code' = opd_dispatchPrgExt
    <3>1. /\ exitflag' = (IF k \in {"signal", "exited", "notrunning"} THEN 2 ELSE 0)
          /\ \/ /\ phase' = "crashed" /\ code' = <<>>
                /\ k \in Numbered \cup {"end-stepping-range"}
             \/ /\ phase' = "loop"
                /\ IF k \in Numbered \cup {"end-stepping-range"}
                     THEN \E f \in Functions : code' = Proc[f]
                     ELSE CASE k = "SIGSEGV" -> code' = opd_dispatchSigSeg
                            [] k \in {"function-finished", "SIGINT"} -> code' = opd_dispatchOther
                            [] k \in {"signal", "exited", "notrunning"} ->
                                 code' = opd_dispatchPrgExt
                            [] OTHER -> code' \in Quiets
      <4>1. l # Plain("stderr")
        BY <1>9 DEF IsStop, Plain, StopKinds
      <4> QED
        BY <1>2, <4>1, DispatchIs DEF OpdTypes
    <3>2. k \in Numbered \cup {"end-stepping-range", "SIGSEGV", "signal", "exited"}
      BY <1>9, <2>2 DEF IsStop, StopKinds, Numbered
    <3>3. k \in Numbered \cup {"end-stepping-range"} => k \notin {"signal", "exited", "notrunning"}
      BY DEF Numbered
    <3> QED
      BY <3>1, <3>2, <3>3 DEF Numbered
  <2>9. ToEvaluate' /\ (phase' = "crashed" \/ Records(code'))
    <3>1. CASE phase' = "crashed" /\ code' = <<>> /\ exitflag' = 0
      <4>1. \A i \in DOMAIN code' : FALSE
        BY <3>1
      <4> QED
        BY <3>1, <4>1 DEF ToEvaluate, ResumesOnce, TellsExit
    <3>2. CASE /\ phase' = "loop" /\ exitflag' = 0 /\ k \in Numbered \cup {"end-stepping-range"}
               /\ \E f \in Functions : code' = Proc[f]
      <4>1. PICK f \in Functions : code' = Proc[f]
        BY <3>2
      <4>2. Proc[f] \in Procedures /\ Records(Proc[f])
        BY DEF Procedures, ScriptsInOrder
      <4>3. /\ ResumesOnce(code') /\ ~TellsExit(code') /\ Records(code')
            /\ \A i \in DOMAIN code' : code'[i].do \notin {"gdb_start_run", "gdb_stepFinish"}
        BY <4>1, <4>2, ProcFacts
      <4>4. app' = "stopped"
        BY <1>1, <2>2, <3>2 DEF StoppedBy, Numbered
      <4>5. Survived'
        BY <2>6, <3>2 DEF Survived, Numbered, FatalKinds
      <4> QED
        BY <3>2, <4>3, <4>4, <4>5 DEF ToEvaluate
    <3>3. CASE phase' = "loop" /\ k \in FatalKinds /\ ResumesOnce(code') /\ Records(code')
               /\ \A i \in DOMAIN code' : code'[i].do \in {"log", "query", "opd_setExit"}
      <4>1. Died'
        BY <2>6, <3>3 DEF Died
      <4>2. \A i \in DOMAIN code' : code'[i].do \notin Resumes \cup {"gdb_start_run", "gdb_stepFinish"}
        BY <3>3 DEF Resumes
      <4> QED
        BY <2>5, <3>3, <4>1, <4>2 DEF ToEvaluate
    <3>4. ASSUME NEW p \in {opd_dispatchSigSeg, opd_dispatchPrgExt}
          PROVE  /\ ResumesOnce(p) /\ Records(p)
                 /\ \A i \in DOMAIN p : p[i].do \in {"log", "query", "opd_setExit"}
      <4>1. /\ ResumesOnce(p)
            /\ \A i \in DOMAIN p : p[i].do \in {"log", "query", "opd_setExit"}
        BY OpdTclScripts DEF Quiets
      <4>2. 1 \in DOMAIN p /\ p[1].do = "log"
        <5>1. CASE p = opd_dispatchSigSeg
          BY <5>1, SigSegFacts
        <5>2. CASE p = opd_dispatchPrgExt
          <6>1. \A c : 1 \in DOMAIN <<c>>
            OBVIOUS
          <6>2. 1 \in DOMAIN p
            BY <5>2, <6>1, Zenon DEF opd_dispatchPrgExt
          <6> QED
            BY <5>2, <6>2, QuietFacts DEF Quiets
        <5> QED
          BY <5>1, <5>2
      <4>3. \A i \in 1 .. 1 : p[i].do \notin Resumes
        BY <4>2 DEF Resumes
      <4> QED
        BY <4>1, <4>2, <4>3 DEF Records
    <3>5. CASE phase' = "loop" /\ k = "SIGSEGV" /\ code' = opd_dispatchSigSeg
      BY <3>3, <3>4, <3>5 DEF FatalKinds
    <3>6. CASE phase' = "loop" /\ k \in {"signal", "exited"} /\ code' = opd_dispatchPrgExt
      BY <3>3, <3>4, <3>6 DEF FatalKinds
    <3> QED
      BY <2>8, <3>1, <3>2, <3>5, <3>6
  <2>10. OnRecord'
    <3>1. phase' # "ended"
      BY <2>8
    <3>2. <<l>> # <<>>
      OBVIOUS
    <3>3. trace' = journal' \o current' /\ Len(current') = 1 /\ current' # <<>>
      BY <1>1, <2>6, <3>2
    <3>4. trace' \in Seq(StopLines)
      BY <2>6 DEF OnRecord
    <3> QED
      BY <2>9, <3>1, <3>3, <3>4 DEF OnRecord
  <2> QED
    BY <1>7, <2>7, <2>9, <2>10
<1> QED
  BY <1>8, <1>9

(* gdb executes a command: it lets the application go, once and while it   *)
(* is held, or leaves it where it is; gdb is gone only after the session.  *)
LEMMA GdbStepIs ==
  ASSUME OpdTypes, SessionInv, GdbStep
  PROVE  /\ UNCHANGED <<code, phase, exitflag, wait, sigint, sent, trace, current, journal>>
         /\ gdb_stdin # <<>> /\ ~Running /\ ~StopUnread /\ ~StopUnread'
         /\ \A i \in DOMAIN gdb_stdout' : gdb_stdout'[i].kind # "notrunning"
         /\ Head(gdb_stdin).op \in ExecOps =>
              /\ gdb_stdin' = <<>> /\ ~Held /\ app \in {"none", "stopped"}
              /\ \/ app' = app
                 \/ app = "none" /\ app' = "continue"
                 \/ app = "stopped" /\ app' \in {"continue", "next", "step"} /\ Survived
         /\ Head(gdb_stdin).op \notin ExecOps =>
              app' = app \/ (app' = "gone" /\ phase = "ended")
<1> USE DEF SessionInv
<1>1. TypeOK /\ GdbExecute /\ Observe
      /\ UNCHANGED <<code, phase, exitflag, current, journal>>
  BY DEF OpdTypes, GdbStep, session
<1> DEFINE c == Head(gdb_stdin)
<1>2. /\ gdb_stdin # <<>> /\ c \in Command /\ gdb_stdin' = Tail(gdb_stdin)
      /\ ~Running /\ app # "gone" /\ UNCHANGED <<opd, sigint, sent>>
      /\ gdb_stdout' \in Seq(Line) /\ Len(gdb_stdout) <= Len(gdb_stdout')
      /\ \A i \in 1 .. Len(gdb_stdout) : gdb_stdout'[i] = gdb_stdout[i]
      /\ \A i \in Len(gdb_stdout) + 1 .. Len(gdb_stdout') :
           /\ IsStop(gdb_stdout'[i]) => app = "faulted" /\ c.op \in ExecOps
           /\ gdb_stdout'[i].kind = "notrunning" =>
                c.op \in ExecOps \ {"run"} /\ app \in {"none", "dead"}
      /\ \/ app' = app
         \/ /\ c.op \in ExecOps /\ app = IF c.op = "run" THEN "none" ELSE "stopped"
            /\ app' = IF c.op = "run" THEN "continue" ELSE c.op
         \/ app = "faulted" /\ app' = "dead" /\ c.op \in ExecOps
         \/ c.op = "exit" /\ app' = "gone"
  BY <1>1, GdbLines DEF IsResumed
<1>3. /\ 1 \in DOMAIN gdb_stdin /\ c = gdb_stdin[1]
      /\ gdb_stdin' = <<>> <=> Len(gdb_stdin) = 1
  BY <1>1, <1>2, CommandExecuted
<1>4. c.op \in ExecOps =>
        /\ Len(gdb_stdin) = 1 /\ c.op # "finish" /\ ~StopUnread
        /\ IF c.op = "run" THEN app = "none" ELSE app = "stopped" /\ Survived
  BY <1>3 DEF LettingGo
<1>5. ~StopUnread
  BY <1>2 DEF LettingGo, StopUnread
<1>6. /\ Len(gdb_stdout) \in Nat /\ DOMAIN gdb_stdout = 1 .. Len(gdb_stdout)
      /\ Len(gdb_stdout') \in Nat /\ DOMAIN gdb_stdout' = 1 .. Len(gdb_stdout')
  <2>1. gdb_stdout \in Seq(Line)
    BY <1>1 DEF TypeOK
  <2> QED
    BY <1>2, <2>1, SeqFacts
<1>7. ASSUME NEW i \in DOMAIN gdb_stdout'
      PROVE  ~IsStop(gdb_stdout'[i]) /\ gdb_stdout'[i].kind # "notrunning"
  <2>1. CASE i \in 1 .. Len(gdb_stdout)
    BY <1>2, <1>5, <1>6, <2>1 DEF StopUnread, LettingGo
  <2>2. CASE i \in Len(gdb_stdout) + 1 .. Len(gdb_stdout')
    BY <1>2, <1>4, <2>2
  <2> QED
    BY <1>6, <2>1, <2>2
<1>8. trace' = trace
  <2>1. Reports => Len(gdb_stdout') \in DOMAIN gdb_stdout'
    BY <1>6 DEF Reports
  <2> QED
    BY <1>1, <1>7, <2>1 DEF Observe, Newest
<1>9. c.op \in ExecOps =>
        /\ gdb_stdin' = <<>> /\ ~Held /\ app \in {"none", "stopped"}
        /\ \/ app' = app
           \/ app = "none" /\ app' = "continue"
           \/ app = "stopped" /\ app' \in {"continue", "next", "step"} /\ Survived
  <2> SUFFICES ASSUME c.op \in ExecOps
               PROVE  /\ gdb_stdin' = <<>> /\ ~Held /\ app \in {"none", "stopped"}
                      /\ \/ app' = app
                         \/ app = "none" /\ app' = "continue"
                         \/ app = "stopped" /\ app' \in {"continue", "next", "step"} /\ Survived
    OBVIOUS
  <2>1. gdb_stdin' = <<>> /\ ~Held
    BY <1>3, <1>4 DEF Held, ExecPending
  <2>2. app \in {"none", "stopped"} /\ c.op # "exit"
    BY <1>4 DEF ExecOps
  <2>3. CASE c.op = "run"
    BY <1>2, <1>4, <2>1, <2>2, <2>3
  <2>4. CASE c.op # "run"
    <3>1. c.op \in {"continue", "next", "step"}
      BY <1>4, <2>4 DEF ExecOps
    <3> QED
      BY <1>2, <1>4, <2>1, <2>2, <2>4, <3>1
  <2> QED
    BY <2>3, <2>4
<1>10. c.op \notin ExecOps => app' = app \/ (app' = "gone" /\ phase = "ended")
  <2>1. c.op = "exit" => phase = "ended"
    BY <1>3 DEF Bounded
  <2> QED
    BY <1>2, <2>1
<1>11. ~StopUnread'
  BY <1>7 DEF StopUnread
<1> QED
  BY <1>1, <1>2, <1>5, <1>7, <1>8, <1>9, <1>10, <1>11 DEF opd

(* A command that gdb executes keeps the invariant: it resumes only an     *)
(* application that stands with its stop on record.                        *)
LEMMA GdbStepKeeps ==
  ASSUME OpdTypes, SessionInv, GdbStep
  PROVE  SessionInv'
<1> USE DEF SessionInv
<1>1. /\ UNCHANGED <<code, phase, exitflag, wait, sigint, sent, trace, current, journal>>
      /\ gdb_stdin # <<>> /\ ~Running /\ ~StopUnread /\ ~StopUnread'
      /\ \A i \in DOMAIN gdb_stdout' : gdb_stdout'[i].kind # "notrunning"
      /\ Head(gdb_stdin).op \in ExecOps =>
           /\ gdb_stdin' = <<>> /\ ~Held /\ app \in {"none", "stopped"}
           /\ \/ app' = app
              \/ app = "none" /\ app' = "continue"
              \/ app = "stopped" /\ app' \in {"continue", "next", "step"} /\ Survived
      /\ Head(gdb_stdin).op \notin ExecOps =>
           app' = app \/ (app' = "gone" /\ phase = "ended")
  BY GdbStepIs
<1>2. /\ Len(gdb_stdin') = Len(gdb_stdin) - 1 /\ Len(gdb_stdin) \in Nat \ {0}
      /\ \A i \in DOMAIN gdb_stdin' :
           i \in Nat /\ i + 1 \in DOMAIN gdb_stdin /\ gdb_stdin'[i] = gdb_stdin[i + 1]
  <2>1. gdb_stdin' = Tail(gdb_stdin)
    BY GdbLines DEF OpdTypes, GdbStep
  <2> QED
    BY <1>1, <2>1, CommandExecuted DEF OpdTypes
<1>3. \A i \in DOMAIN gdb_stdout' : ~IsStop(gdb_stdout'[i])
  BY <1>1 DEF StopUnread
<1>4. Bounded'
  <2>1. Len(bps') \in Nat /\ Len(bps') <= Len(bps) + 1 /\ Len(bps) \in Nat /\ sent \in Nat
    BY GdbTables, TypesOfTables DEF OpdTypes, GdbStep, TypeOK
  <2>2. Len(bps') + Len(gdb_stdin') <= sent' /\ sent' <= MaxCommands
    BY <1>1, <1>2, <2>1 DEF Bounded
  <2>3. app' = "gone" => phase' = "ended"
    BY <1>1 DEF Bounded
  <2>4. (\E i \in DOMAIN gdb_stdin' : gdb_stdin'[i].op = "exit") => phase' = "ended"
    BY <1>1, <1>2 DEF Bounded
  <2> QED
    BY <2>2, <2>3, <2>4 DEF Bounded
<1>5. CASE Head(gdb_stdin).op \in ExecOps
  <2>1. /\ wait = "none" /\ exitflag = 0 /\ phase \in {"setup", "loop"} /\ current = <<>>
        /\ \A i \in DOMAIN code : code[i].do = "log"
    BY <1>1, <1>5 DEF LettingGo
  <2>2. \A i \in DOMAIN gdb_stdin' : FALSE
    BY <1>1, <1>5
  <2>3. app' # "finish" /\ (app' = "none" => app = "none")
    BY <1>1, <1>5
  <2>4. LettingGo'
    BY <1>1, <1>3, <1>5, <2>1, <2>2, <2>3 DEF LettingGo
  <2>5. ToEvaluate'
    BY <1>1, <2>1 DEF ToEvaluate, ResumesOnce, TellsExit, Resumes
  <2>6. OnRecord'
    BY <1>1, <2>1 DEF OnRecord
  <2> QED
    BY <1>4, <2>4, <2>5, <2>6
<1>6. CASE Head(gdb_stdin).op \notin ExecOps
  <2>1. app' = app \/ (app' = "gone" /\ phase = "ended")
    BY <1>1, <1>6
  <2>2. ~Running' /\ (ExecPending' => ExecPending)
    BY <1>1, <1>2, <2>1 DEF Running, ExecPending
  <2>3. Held' <=> ~ExecPending'
    BY <1>1, <2>2 DEF Held
  <2>4. ~Held' => ~Held
    BY <2>2, <2>3 DEF Held
  <2>5. LettingGo'
    <3>1. ~Held' => /\ wait' = "none" /\ exitflag' = 0 /\ phase' \in {"setup", "loop"}
                    /\ current' = <<>> /\ \A i \in DOMAIN code' : code'[i].do = "log"
      BY <1>1, <2>4 DEF LettingGo
    <3>2. ASSUME NEW i \in DOMAIN gdb_stdin', gdb_stdin'[i].op \in ExecOps
          PROVE  /\ i = Len(gdb_stdin') /\ gdb_stdin'[i].op # "finish" /\ ~Running' /\ ~StopUnread'
                 /\ IF gdb_stdin'[i].op = "run" THEN app' = "none" ELSE app' = "stopped" /\ Survived'
      <4>1. /\ i + 1 = Len(gdb_stdin) /\ gdb_stdin'[i].op # "finish"
            /\ IF gdb_stdin'[i].op = "run" THEN app = "none" ELSE app = "stopped" /\ Survived
        BY <1>2, <3>2 DEF LettingGo
      <4>2. i = Len(gdb_stdin')
        BY <1>2, <4>1
      <4>3. app' = app
        <5>1. ~Held
          BY <2>4, <3>2 DEF Held, ExecPending
        <5> QED
          BY <2>1, <5>1 DEF LettingGo
      <4> QED
        BY <1>1, <2>2, <4>1, <4>2, <4>3 DEF Survived, LastStop
    <3>3. app' = "none" => app = "none"
      BY <2>1
    <3> QED
      BY <1>1, <1>3, <2>2, <3>1, <3>2, <3>3 DEF LettingGo
  <2>6. ToEvaluate'
    <3>1. exitflag # 0 \/ TellsExit(code) => Held'
      BY <2>4 DEF ToEvaluate
    <3>2. ASSUME NEW i \in DOMAIN code, code[i].do \in Resumes \cup {"gdb_start_run"}
          PROVE  app' = app
      <4>1. phase # "ended"
        BY <3>2 DEF ToEvaluate
      <4> QED
        BY <2>1, <4>1
    <3> QED
      BY <1>1, <3>1, <3>2 DEF ToEvaluate, Survived, Died, LastStop
  <2>7. OnRecord'
    BY <1>1, <2>4 DEF OnRecord
  <2> QED
    BY <1>4, <2>5, <2>6, <2>7
<1> QED
  BY <1>5, <1>6

(* The application writes, or stops: at most once after it was let go, and *)
(* with everything before the stop on record.                              *)
LEMMA AppStepIs ==
  ASSUME OpdTypes, SessionInv, AppStep
  PROVE  /\ UNCHANGED <<code, phase, exitflag, wait, gdb_stdin, sent, current, journal>>
         /\ Len(bps') = Len(bps) /\ sigint' = FALSE
         /\ \/ app' = app /\ gdb_stdout' = gdb_stdout /\ trace' = trace
            \/ \E l \in Line :
                 /\ Running /\ gdb_stdout' = Append(gdb_stdout, l)
                 /\ IF IsStop(l)
                      THEN /\ l \in StopLines /\ app' = StoppedBy(l.kind)
                           /\ l.kind \notin {"function-finished", "SIGINT"}
                           /\ trace = journal /\ trace' = Append(trace, l)
                      ELSE /\ l.kind \in {"output", "console"} /\ app' = app
                           /\ trace' = trace
<1> USE DEF SessionInv
<1>1. /\ TypeOK /\ AppRuns /\ Observe
      /\ UNCHANGED <<code, phase, exitflag, current, journal>>
  BY DEF OpdTypes, AppStep, session
<1>2. /\ UNCHANGED <<opd, gdb_stdin, sent>> /\ Len(bps') = Len(bps)
      /\ sigint = FALSE => sigint' = FALSE
      /\ \/ app' = app /\ gdb_stdout' = gdb_stdout
         \/ \E l \in Line :
              /\ gdb_stdout' = Append(gdb_stdout, l) /\ Running
              /\ IF IsStop(l)
                   THEN /\ app' = CASE l.kind = "SIGSEGV" -> "faulted"
                                    [] l.kind = "exited"  -> "dead"
                                    [] OTHER              -> "stopped"
                        /\ l.id = 0
                   ELSE app' = app /\ l.kind \in {"output", "console"}
              /\ IF l.kind \in Numbered THEN l.no \in 1 .. Len(bps) ELSE l.no = 0
              /\ l.kind = "function-finished" => app = "finish"
              /\ l.kind = "SIGINT" => sigint
  BY <1>1, AppLines
<1>3. sigint = FALSE
  BY DEF LettingGo
<1>4. /\ Len(gdb_stdout) \in Nat /\ gdb_stdout \in Seq(Line)
  BY <1>1, TypesOfPipes
<1>5. CASE app' = app /\ gdb_stdout' = gdb_stdout
  <2>1. ~Reports
    BY <1>4, <1>5 DEF Reports
  <2>2. trace' = trace
    BY <1>1, <2>1 DEF Observe
  <2> QED
    BY <1>1, <1>2, <1>3, <1>5, <2>2 DEF opd
<1>6. ASSUME NEW l \in Line, gdb_stdout' = Append(gdb_stdout, l), Running,
             IF IsStop(l)
               THEN /\ app' = CASE l.kind = "SIGSEGV" -> "faulted"
                                [] l.kind = "exited"  -> "dead"
                                [] OTHER              -> "stopped"
                    /\ l.id = 0
               ELSE app' = app /\ l.kind \in {"output", "console"},
             IF l.kind \in Numbered THEN l.no \in 1 .. Len(bps) ELSE l.no = 0,
             l.kind = "function-finished" => app = "finish",
             l.kind = "SIGINT" => sigint
      PROVE  IF IsStop(l)
               THEN /\ l \in StopLines /\ app' = StoppedBy(l.kind)
                    /\ l.kind \notin {"function-finished", "SIGINT"}
                    /\ trace = journal /\ trace' = Append(trace, l)
               ELSE /\ l.kind \in {"output", "console"} /\ app' = app
                    /\ trace' = trace
  <2>1. Reports /\ Newest = l
    <3>1. Len(gdb_stdout') = Len(gdb_stdout) + 1 /\ gdb_stdout'[Len(gdb_stdout) + 1] = l
      BY <1>4, <1>6, AppendFacts
    <3> QED
      BY <1>4, <3>1 DEF Reports, Newest
  <2>2. CASE ~IsStop(l)
    BY <1>1, <1>6, <2>1, <2>2 DEF Observe
  <2>3. CASE IsStop(l)
    <3>1. trace' = Append(trace, l)
      BY <1>1, <2>1, <2>3 DEF Observe
    <3>2. trace = journal
      <4>1. ~Held /\ ~StopUnread
        BY <1>6 DEF Held, LettingGo
      <4> QED
        BY <4>1 DEF LettingGo, OnRecord
    <3>3. l \in StopLines
      <4>1. Len(bps) \in Nat /\ Len(gdb_stdin) \in Nat /\ sent \in Nat /\ MaxCommands \in Nat
        BY <1>1, TypesOfPipes, TypesOfTables, BoundsAssumption DEF TypeOK
      <4>2. Len(bps) <= MaxCommands
        BY <4>1 DEF Bounded
      <4>3. l.no \in 0 .. MaxCommands
        BY <1>6, <4>1, <4>2
      <4>4. l.id = 0 /\ l.kind \in StopKinds
        BY <1>6, <2>3 DEF IsStop
      <4>5. l = [kind |-> l.kind, id |-> l.id, no |-> l.no]
        BY DEF Line
      <4> QED
        BY <4>3, <4>4, <4>5 DEF StopLines
    <3>4. l.kind \notin {"function-finished", "SIGINT"}
      BY <1>3, <1>6 DEF LettingGo
    <3>5. app' = StoppedBy(l.kind)
      BY <1>6, <2>3 DEF StoppedBy
    <3> QED
      BY <2>3, <3>1, <3>2, <3>3, <3>4, <3>5
  <2> QED
    BY <2>2, <2>3
<1>7. CASE \E l \in Line :
              /\ gdb_stdout' = Append(gdb_stdout, l) /\ Running
              /\ IF IsStop(l)
                   THEN /\ app' = CASE l.kind = "SIGSEGV" -> "faulted"
                                    [] l.kind = "exited"  -> "dead"
                                    [] OTHER              -> "stopped"
                        /\ l.id = 0
                   ELSE app' = app /\ l.kind \in {"output", "console"}
              /\ IF l.kind \in Numbered THEN l.no \in 1 .. Len(bps) ELSE l.no = 0
              /\ l.kind = "function-finished" => app = "finish"
              /\ l.kind = "SIGINT" => sigint
  <2>1. \E l \in Line :
          /\ Running /\ gdb_stdout' = Append(gdb_stdout, l)
          /\ IF IsStop(l)
               THEN /\ l \in StopLines /\ app' = StoppedBy(l.kind)
                    /\ l.kind \notin {"function-finished", "SIGINT"}
                    /\ trace = journal /\ trace' = Append(trace, l)
               ELSE /\ l.kind \in {"output", "console"} /\ app' = app
                    /\ trace' = trace
    BY <1>6, <1>7
  <2> QED
    BY <1>1, <1>2, <1>3, <2>1 DEF opd
<1> QED
  BY <1>2, <1>5, <1>7

(* A stop of the application keeps the invariant: it runs only when the    *)
(* stop before has been recorded.                                          *)
LEMMA AppStepKeeps ==
  ASSUME OpdTypes, SessionInv, AppStep
  PROVE  SessionInv'
<1> USE DEF SessionInv
<1>1. /\ UNCHANGED <<code, phase, exitflag, wait, gdb_stdin, sent, current, journal>>
      /\ Len(bps') = Len(bps) /\ sigint' = FALSE
  BY AppStepIs
<1>2. CASE app' = app /\ gdb_stdout' = gdb_stdout /\ trace' = trace
  <2>1. /\ Held' <=> Held
        /\ StopUnread' <=> StopUnread
        /\ Running' <=> Running
    BY <1>1, <1>2 DEF Held, Running, ExecPending, StopUnread
  <2>2. LettingGo'
    BY <1>1, <1>2, <2>1 DEF LettingGo, Survived, LastStop
  <2>3. ToEvaluate'
    BY <1>1, <1>2, <2>1 DEF ToEvaluate, Survived, Died, LastStop
  <2>4. OnRecord'
    BY <1>1, <1>2, <2>1 DEF OnRecord
  <2>5. Bounded'
    BY <1>1, <1>2 DEF Bounded
  <2> QED
    BY <2>2, <2>3, <2>4, <2>5
<1>3. ASSUME NEW l \in Line, Running, gdb_stdout' = Append(gdb_stdout, l),
             IF IsStop(l)
               THEN /\ l \in StopLines /\ app' = StoppedBy(l.kind)
                    /\ l.kind \notin {"function-finished", "SIGINT"}
                    /\ trace = journal /\ trace' = Append(trace, l)
               ELSE /\ l.kind \in {"output", "console"} /\ app' = app
                    /\ trace' = trace
      PROVE  SessionInv'
  <2>1. ~Held /\ gdb_stdin = <<>> /\ ~StopUnread /\ app # "finish" /\ app # "none"
    BY <1>3 DEF Held, LettingGo, Running
  <2>2. /\ wait = "none" /\ exitflag = 0 /\ phase \in {"setup", "loop"} /\ current = <<>>
        /\ \A i \in DOMAIN code : code[i].do = "log"
    BY <2>1 DEF LettingGo
  <2>3. /\ Len(gdb_stdout') = Len(gdb_stdout) + 1 /\ Len(gdb_stdout) \in Nat
        /\ \A i \in DOMAIN gdb_stdout' :
             \/ i \in DOMAIN gdb_stdout /\ gdb_stdout'[i] = gdb_stdout[i]
             \/ i = Len(gdb_stdout') /\ gdb_stdout'[i] = l
    <3>1. gdb_stdout \in Seq(Line)
      BY DEF OpdTypes, TypeOK
    <3>2. /\ Len(gdb_stdout) \in Nat /\ Len(gdb_stdout') = Len(gdb_stdout) + 1
          /\ DOMAIN gdb_stdout = 1 .. Len(gdb_stdout)
          /\ DOMAIN gdb_stdout' = 1 .. (Len(gdb_stdout) + 1)
          /\ \A i \in 1 .. Len(gdb_stdout) : gdb_stdout'[i] = gdb_stdout[i]
          /\ gdb_stdout'[Len(gdb_stdout) + 1] = l
      BY <1>3, <3>1, AppendFacts
    <3> QED
      BY <3>2
  <2>4. \A i \in DOMAIN gdb_stdin' : FALSE
    BY <1>1, <2>1
  <2>5. ToEvaluate'
    BY <1>1, <2>2 DEF ToEvaluate, ResumesOnce, TellsExit, Resumes
  <2>6. app' \notin {"gone", "none", "finish"}
    BY <1>3, <2>1 DEF StoppedBy, Running
  <2>7. Bounded'
    BY <1>1, <2>4, <2>6 DEF Bounded
  <2>8. \A i \in DOMAIN gdb_stdout' : IsStop(gdb_stdout'[i]) =>
          i = Len(gdb_stdout') /\ gdb_stdout'[i] = l
    BY <2>1, <2>3 DEF StopUnread
  <2>9. CASE ~IsStop(l)
    <3>1. ~StopUnread'
      BY <2>8, <2>9 DEF StopUnread
    <3>2. \A i \in DOMAIN gdb_stdout' : gdb_stdout'[i].kind # "notrunning"
      BY <1>3, <2>3, <2>9 DEF LettingGo
    <3>3. LettingGo'
      BY <1>1, <2>2, <2>1, <2>4, <2>6, <3>1, <3>2 DEF LettingGo, StopUnread
    <3>4. OnRecord'
      BY <1>1, <1>3, <2>1, <2>2, <2>9 DEF OnRecord
    <3> QED
      BY <2>5, <2>7, <3>3, <3>4
  <2>10. CASE IsStop(l)
    <3>1. ~Running'
      BY <1>3, <2>10 DEF StoppedBy, Running
    <3>2. \A i \in DOMAIN gdb_stdout' : gdb_stdout'[i].kind # "notrunning"
      BY <1>3, <2>3, <2>10 DEF LettingGo, IsStop, StopKinds
    <3>3. LettingGo'
      BY <1>1, <1>3, <2>1, <2>2, <2>4, <2>6, <2>8, <2>10, <3>1, <3>2 DEF LettingGo
    <3>4. StopUnread'
      <4>1. Len(gdb_stdout') \in DOMAIN gdb_stdout' /\ gdb_stdout'[Len(gdb_stdout')] = l
        <5>1. gdb_stdout \in Seq(Line)
          BY DEF OpdTypes, TypeOK
        <5>2. /\ Len(gdb_stdout) \in Nat /\ Len(gdb_stdout') = Len(gdb_stdout) + 1
              /\ DOMAIN gdb_stdout' = 1 .. (Len(gdb_stdout) + 1)
              /\ gdb_stdout'[Len(gdb_stdout) + 1] = l
          BY <1>3, <5>1, AppendFacts
        <5> QED
          BY <5>2
      <4> QED
        BY <2>10, <4>1 DEF StopUnread
    <3>5. trace' \in Seq(StopLines)
      <4>1. trace \in Seq(StopLines) /\ l \in StopLines /\ trace' = Append(trace, l)
        BY <1>3, <2>10 DEF OnRecord
      <4> QED
        BY <4>1, AppendFacts
    <3>6. OnRecord'
      BY <1>1, <2>2, <3>4, <3>5 DEF OnRecord
    <3> QED
      BY <2>5, <2>7, <3>3, <3>6
  <2> QED
    BY <2>9, <2>10
<1> QED
  <2>1. \/ app' = app /\ gdb_stdout' = gdb_stdout /\ trace' = trace
        \/ \E l \in Line :
             /\ Running /\ gdb_stdout' = Append(gdb_stdout, l)
             /\ IF IsStop(l)
                  THEN /\ l \in StopLines /\ app' = StoppedBy(l.kind)
                       /\ l.kind \notin {"function-finished", "SIGINT"}
                       /\ trace = journal /\ trace' = Append(trace, l)
                  ELSE /\ l.kind \in {"output", "console"} /\ app' = app
                       /\ trace' = trace
    BY AppStepIs
  <2> QED
    BY <1>2, <1>3, <2>1

(* Every step keeps the invariant.                                         *)
LEMMA SessionInvKept ==
  ASSUME ScriptsInOrder, OpdTypes, SessionInv, [OpdNext]_opdVars
  PROVE  SessionInv'
<1>1. CASE UNCHANGED opdVars
  BY <1>1 DEF opdVars, vars, opd, pipes, gdb, session, history, SessionInv, LettingGo, ToEvaluate,
     OnRecord, Bounded, Held, Running, ExecPending, StopUnread, Survived, Died, LastStop
<1>2. CASE EvalGdb
  BY <1>2, EvalKeeps
<1>3. CASE db_logMessage
  BY <1>3, LogKeeps
<1>4. CASE opd_setExit
  BY <1>4, SetExitKeeps
<1>5. CASE Await
  BY <1>5, AwaitKeeps
<1>6. CASE StartLoop
  BY <1>6, StartLoopKeeps
<1>7. CASE Dispatch
  BY <1>7, DispatchKeeps
<1>8. CASE opd_exit
  BY <1>8, ExitKeeps
<1>9. CASE GdbStep
  BY <1>9, GdbStepKeeps
<1>10. CASE AppStep
  BY <1>10, AppStepKeeps
<1> QED
  BY <1>1, <1>2, <1>3, <1>4, <1>5, <1>6, <1>7, <1>8, <1>9, <1>10 DEF OpdNext, OpdStep

(* In every session of such a script the application is let go once after  *)
(* every stop, and only with the stop on record.                           *)
LEMMA SessionInvariant ==
  ASSUME ScriptsInOrder
  PROVE  OpdSpec => [](OpdTypes /\ SessionInv)
<1>1. OpdInit => OpdTypes /\ SessionInv
  BY OpdTypesInitially, SessionInvInitially
<1>2. OpdTypes /\ SessionInv /\ [OpdNext]_opdVars => (OpdTypes /\ SessionInv)'
  BY OpdTypesKept, SessionInvKept
<1> QED
  BY <1>1, <1>2, PTL DEF OpdSpec

----------------------------------------------------------------------------
(* opd keeps the promise of Session.                                       *)

(* A command, a row, a line read: nothing changes but the journal, which   *)
(* gets the stop that is its turn.                                         *)
LEMMA OpdRecords ==
  ASSUME ScriptsInOrder, OpdTypes, SessionInv,
         EvalGdb \/ db_logMessage \/ opd_setExit \/ Await \/ StartLoop \/ Dispatch
  PROVE  [Promise!Next]_(Promise!vars)
<1> USE DEF SessionInv
<1>1. /\ app' = app /\ trace' = trace
      /\ phase' = "ended" <=> phase = "ended"
      /\ journal' = journal \/ db_logMessage
  <2>1. CASE EvalGdb
    BY <2>1, EvalFacts DEF OpdTypes, gdb, history
  <2>2. CASE db_logMessage
    BY <2>2 DEF db_logMessage, vars, gdb
  <2>3. CASE opd_setExit
    BY <2>3 DEF opd_setExit, vars, gdb, history
  <2>4. CASE Await
    BY <2>4, ReadFrame DEF Await, session, history, OpdTypes, gdb
  <2>5. CASE StartLoop
    BY <2>5 DEF StartLoop, vars, gdb, history
  <2>6. CASE Dispatch
    <3>1. phase = "loop" /\ phase' \in {"loop", "crashed"}
      BY <2>6 DEF Dispatch
    <3> QED
      BY <2>6, <3>1, DispatchIs DEF OpdTypes, gdb
  <2> QED
    BY <2>1, <2>2, <2>3, <2>4, <2>5, <2>6
<1>2. CASE journal' = journal
  BY <1>1, <1>2 DEF Promise!vars, Running
<1>3. CASE db_logMessage /\ current # <<>>
  <2>1. trace = journal \o current /\ Len(current) = 1 /\ journal' = trace
    BY <1>3 DEF OnRecord, db_logMessage
  <2>2. journal \in Seq(StopRecords) /\ current \in Seq(StopRecords)
    BY DEF OpdTypes
  <2>3. /\ Len(journal) \in Nat /\ Len(trace) = Len(journal) + 1
        /\ trace = Append(journal, trace[Len(journal) + 1])
    <3>1. Len(journal) \in Nat /\ current[1] \in StopRecords
      <4>1. 1 \in 1 .. Len(current)
        BY <2>1
      <4> QED
        BY <2>2, <4>1, SeqFacts
    <3>2. current = <<current[1]>>
      BY <2>1, <2>2
    <3>3. trace = Append(journal, current[1])
      BY <2>1, <2>2, <3>1, <3>2, AppendIsConcat
    <3> QED
      BY <2>2, <3>1, <3>3, AppendFacts
  <2>4. Promise!Record
    BY <1>1, <2>1, <2>3 DEF Promise!Record, Running
  <2> QED
    BY <2>4 DEF Promise!Next
<1>4. db_logMessage /\ current = <<>> => journal' = journal
  BY ConcatEmptySeq DEF OpdTypes, db_logMessage
<1> QED
  BY <1>1, <1>2, <1>3, <1>4

(* Each step of a session is a step of its promise, or none.               *)
LEMMA OpdStepKeepsPromise ==
  ASSUME ScriptsInOrder, OpdTypes, SessionInv, [OpdNext]_opdVars
  PROVE  [Promise!Next]_(Promise!vars)
<1> USE DEF SessionInv
<1>1. CASE UNCHANGED opdVars
  BY <1>1 DEF opdVars, vars, gdb, session, history, Promise!vars, Running
<1>2. CASE EvalGdb \/ db_logMessage \/ opd_setExit \/ Await \/ StartLoop \/ Dispatch
  BY <1>2, OpdRecords
<1>3. CASE opd_exit
  <2>1. /\ phase = "loop" /\ code = <<>> /\ exitflag # 0 /\ phase' = "ended"
        /\ UNCHANGED <<trace, journal>>
    BY <1>3 DEF opd_exit, history
  <2>2. Held /\ Died
    BY <2>1 DEF ToEvaluate
  <2>3. current = <<>>
    <3>1. code \in Seq(Commands)
      BY DEF OpdTypes, CodeInv
    <3> QED
      BY <2>1, <3>1, RestRecords DEF OnRecord
  <2>4. trace = journal /\ app # "none" /\ ~Running
    BY <2>2, <2>3 DEF OnRecord, Held, Died, LettingGo
  <2>5. trace[Len(trace)] \in {l \in StopLines : l.kind \in {"SIGSEGV", "signal", "exited"}}
    <3>1. trace \in Seq(StopLines) /\ trace # <<>>
      BY <2>2 DEF OnRecord, Died
    <3>2. trace[Len(trace)] \in StopLines
      BY <3>1, SeqFacts
    <3> QED
      BY <2>2, <3>2 DEF Died, LastStop, FatalKinds
  <2>6. Promise!End
    BY <2>1, <2>4, <2>5 DEF Promise!End, Promise!Recorded, Promise!Survived
  <2> QED
    BY <2>6 DEF Promise!Next
<1>4. CASE GdbStep
  <2>1. /\ UNCHANGED <<phase, trace, journal>> /\ ~Running /\ ~StopUnread
        /\ Head(gdb_stdin).op \in ExecOps =>
             /\ ~Held
             /\ \/ app' = app
                \/ app = "none" /\ app' = "continue"
                \/ app = "stopped" /\ app' \in {"continue", "next", "step"} /\ Survived
        /\ Head(gdb_stdin).op \notin ExecOps =>
             app' = app \/ (app' = "gone" /\ phase = "ended")
    BY <1>4, GdbStepIs
  <2>2. CASE app' = app \/ (app' = "gone" /\ phase = "ended")
    BY <2>1, <2>2 DEF Promise!vars, Running
  <2>3. CASE ~Held /\ app = "none" /\ app' = "continue"
    <3>1. phase # "ended"
      BY <2>3 DEF LettingGo
    <3>2. Promise!Start
      BY <2>1, <2>3, <3>1 DEF Promise!Start, Running
    <3> QED
      BY <3>2 DEF Promise!Next
  <2>4. CASE ~Held /\ app = "stopped" /\ app' \in {"continue", "next", "step"} /\ Survived
    <3>1. phase # "ended" /\ current = <<>>
      BY <2>4 DEF LettingGo
    <3>2. trace = journal
      BY <2>1, <3>1 DEF OnRecord
    <3>3. trace[Len(trace)] \notin {l \in StopLines : l.kind \in {"SIGSEGV", "signal", "exited"}}
      BY <2>4 DEF Survived, LastStop, FatalKinds
    <3>4. Promise!Resume
      BY <2>1, <2>4, <3>1, <3>2, <3>3 DEF Promise!Resume, Promise!Recorded, Promise!Survived, Running
    <3> QED
      BY <3>4 DEF Promise!Next
  <2> QED
    BY <2>1, <2>2, <2>3, <2>4
<1>5. CASE AppStep
  <2>1. /\ UNCHANGED <<phase, journal>>
        /\ \/ app' = app /\ trace' = trace
           \/ \E l \in StopLines : Running /\ app' = StoppedBy(l.kind) /\ trace' = Append(trace, l)
    BY <1>5, AppStepIs
  <2>2. CASE app' = app /\ trace' = trace
    BY <2>1, <2>2 DEF Promise!vars, Running
  <2>3. ASSUME NEW l \in StopLines, Running, app' = StoppedBy(l.kind), trace' = Append(trace, l)
        PROVE  Promise!Stop
    <3>1. phase # "ended" /\ app # "none"
      BY <2>3 DEF LettingGo, Held, Running
    <3>2. app' \notin {"none", "continue", "next", "step", "finish"}
      BY <2>3 DEF StoppedBy
    <3> QED
      BY <2>1, <2>3, <3>1, <3>2 DEF Promise!Stop, Running
  <2> QED
    BY <2>1, <2>2, <2>3 DEF Promise!Next
<1> QED
  BY <1>1, <1>2, <1>3, <1>4, <1>5 DEF OpdNext, OpdStep

(* opd implements Session, but for its liveness: in every session of a     *)
(* script whose procedures record before they resume, every stop is on     *)
(* record, in order, before the application runs again, and the session    *)
(* ends only on a stop that the application does not survive.              *)
THEOREM OpdKeepsPromise ==
  ASSUME ScriptsInOrder
  PROVE  OpdSpec => Promise!Init /\ [][Promise!Next]_(Promise!vars)
<1>1. OpdInit => Promise!Init
  BY DEF OpdInit, Init, Promise!Init
<1>2. OpdTypes /\ SessionInv /\ [OpdNext]_opdVars => [Promise!Next]_(Promise!vars)
  BY OpdStepKeepsPromise
<1> QED
  BY <1>1, <1>2, SessionInvariant, PTL DEF OpdSpec

----------------------------------------------------------------------------
(* What segreport prints was taken at the fault.                           *)

(* A row of the fault is left to be written only while the fault lasts.    *)
FaultInv == \A i \in DOMAIN code : IsFaultRow(code[i]) => app = "faulted" /\ phase = "loop"

(* The setup has no row of a fault.                                        *)
LEMMA FaultInvInitially ==
  ASSUME \A p \in Procedures : NoFaultRows(p), OpdInit
  PROVE  FaultInv
<1> DEFINE h == IF HasArguments THEN 1 ELSE 0
           n == Len(Setup)
<1>1. /\ Setup \in Procedures /\ n \in Nat /\ DOMAIN Setup = 1 .. n
      /\ Len(code) = h + n + 2 /\ DOMAIN code = 1 .. h + n + 2
      /\ HasArguments => code[1].do = "gdb_set_arguments"
      /\ \A i \in 1 .. n : code[h + i] = Setup[i]
      /\ code[h + n + 1].arg[1] # "opd.SEGFAULT" /\ code[h + n + 2].do = "gdb_start_run"
  BY SetupFacts
<1>2. ASSUME NEW i \in DOMAIN code
      PROVE  ~IsFaultRow(code[i])
  <2>1. CASE HasArguments /\ i = 1
    BY <1>1, <2>1 DEF IsFaultRow
  <2>2. CASE i = h + n + 1
    BY <1>1, <2>2 DEF IsFaultRow
  <2>3. CASE i = h + n + 2
    BY <1>1, <2>3 DEF IsFaultRow
  <2>4. CASE i - h \in 1 .. n
    <3>1. h + (i - h) = i
      BY <1>1
    <3>2. code[i] = Setup[i - h]
      BY <1>1, <2>4, <3>1
    <3> QED
      BY <1>1, <2>4, <3>2 DEF NoFaultRows, IsFaultRow
  <2>5. \/ HasArguments /\ i = 1
        \/ i = h + n + 1
        \/ i = h + n + 2
        \/ i - h \in 1 .. n
    BY <1>1
  <2> QED
    BY <2>1, <2>2, <2>3, <2>4, <2>5
<1> QED
  BY <1>2 DEF FaultInv

(* Only opd_dispatchSigSeg brings such rows, and it lets nothing go while  *)
(* they last.                                                              *)
LEMMA FaultInvKept ==
  ASSUME ScriptsInOrder, \A p \in Procedures : NoFaultRows(p), OpdTypes, SessionInv, FaultInv,
         [OpdNext]_opdVars
  PROVE  FaultInv'
<1> USE DEF SessionInv
<1>1. CASE UNCHANGED <<code, app, phase>>
  BY <1>1 DEF FaultInv
<1>2. CASE code # <<>> /\ code' = Tail(code) /\ UNCHANGED <<app, phase>>
  <2>1. \A i \in DOMAIN code' : i + 1 \in DOMAIN code /\ code'[i] = code[i + 1]
    BY <1>2, RestOfScript DEF OpdTypes, CodeInv
  <2> QED
    BY <1>2, <2>1 DEF FaultInv
<1>3. CASE code' = <<>>
  <2>1. \A i \in DOMAIN code' : FALSE
    BY <1>3
  <2> QED
    BY <2>1 DEF FaultInv
<1>4. CASE EvalGdb
  BY <1>2, <1>4, EvalFacts DEF OpdTypes, gdb
<1>5. CASE db_logMessage \/ opd_setExit
  BY <1>2, <1>5 DEF db_logMessage, opd_setExit, Evaluating, vars, gdb
<1>6. CASE Await
  BY <1>1, <1>6, ReadFrame DEF Await, session, OpdTypes, gdb
<1>7. CASE StartLoop \/ opd_exit
  BY <1>3, <1>7 DEF StartLoop, opd_exit
<1>8. CASE Dispatch
  <2>1. /\ phase = "loop" /\ app' = app /\ app # "gone"
        /\ phase' = "loop" \/ code' = <<>>
    BY <1>8 DEF Dispatch, Bounded, ReadEvent, gdb_next_event, gdb
  <2>2. CASE code' \in Quiets
    BY <2>2, QuietFacts DEF FaultInv, IsFaultRow
  <2>3. CASE \E f \in Functions : code' = Proc[f]
    BY <2>3 DEF FaultInv, NoFaultRows, Procedures
  <2>4. CASE line'.kind = "SIGSEGV" /\ gdb_stdout # <<>> /\ line' = Head(gdb_stdout)
    <3>1. 1 \in DOMAIN gdb_stdout /\ line' = gdb_stdout[1]
      BY <2>4, TailFacts, TypesOfPipes DEF OpdTypes
    <3>2. app = "faulted"
      BY <2>4, <3>1 DEF LettingGo, IsStop, StopKinds, StoppedBy
    <3> QED
      BY <1>3, <2>1, <3>2 DEF FaultInv
  <2>5. CASE code' = opd_dispatchOther
    <3>1. \A i \in DOMAIN code' : i = 1 \/ i = 2
      BY <2>5, OtherFacts
    <3> QED
      BY <2>5, <3>1, OtherFacts DEF FaultInv, IsFaultRow
  <2> QED
    <3>1. \/ code' \in Quiets
          \/ code' = <<>>
          \/ \E f \in Functions : code' = Proc[f]
          \/ code' = opd_dispatchOther
          \/ code' = opd_dispatchPrgExt
          \/ line'.kind = "SIGSEGV" /\ gdb_stdout # <<>> /\ line' = Head(gdb_stdout)
      BY <1>8, <2>1, DispatchIs DEF OpdTypes
    <3> QED
      BY <1>3, <2>2, <2>3, <2>4, <2>5, <3>1 DEF Quiets
<1>9. CASE GdbStep
  <2>1. /\ code' = code /\ phase' = phase
        /\ app # "faulted" \/ app' = app \/ phase = "ended"
    BY <1>9, GdbStepIs
  <2>2. \A i \in DOMAIN code : IsFaultRow(code[i]) => app' = "faulted" /\ phase = "loop"
    BY <2>1 DEF FaultInv
  <2> QED
    BY <2>1, <2>2 DEF FaultInv
<1>10. CASE AppStep
  <2>1. /\ code' = code /\ phase' = phase
        /\ app # "faulted" \/ app' = app
    BY <1>10, AppStepIs DEF Running
  <2> QED
    BY <2>1 DEF FaultInv
<1>11. CASE UNCHANGED opdVars
  BY <1>1, <1>11 DEF opdVars, vars, gdb, session
<1> QED
  BY <1>4, <1>5, <1>6, <1>7, <1>8, <1>9, <1>10, <1>11 DEF OpdNext, OpdStep

(* Every row of opd.SEGFAULT is written while gdb holds the application at *)
(* its fault, in every session of a script whose procedures record before  *)
(* they resume and leave that key to opd.tcl.                              *)
THEOREM FaultRowsInTime ==
  ASSUME ScriptsInOrder, \A p \in Procedures : NoFaultRows(p)
  PROVE  OpdSpec => RowsOfFault
<1>1. OpdInit => FaultInv
  BY FaultInvInitially
<1>2. OpdTypes /\ SessionInv /\ FaultInv /\ [OpdNext]_opdVars => FaultInv'
  BY FaultInvKept
<1>3. OpdTypes /\ SessionInv /\ FaultInv /\ [OpdNext]_opdVars
        => [log' # log /\ log'[Len(log')].key = "opd.SEGFAULT" => app = "faulted"]_opdVars
  <2> SUFFICES ASSUME OpdTypes, FaultInv, [OpdNext]_opdVars,
                      log' # log, log'[Len(log')].key = "opd.SEGFAULT"
               PROVE  app = "faulted"
    OBVIOUS
  <2>1. db_logMessage
    <3>1. EvalGdb => log' = log
      BY DEF EvalGdb
    <3> QED
      BY <3>1 DEF OpdNext, OpdStep, opd_setExit, Await, StartLoop, Dispatch, opd_exit, GdbStep,
         AppStep, opdVars, session
  <2>2. PICK row \in Rows : log' = Append(log, row) /\ row.key = Head(code).arg[1]
    BY <2>1, LogsRow DEF OpdTypes
  <2>3. log'[Len(log')] = row
    <3>1. log \in Seq(Rows)
      BY DEF OpdTypes
    <3>2. Len(log') = Len(log) + 1 /\ log'[Len(log) + 1] = row
      BY <2>2, <3>1, AppendFacts
    <3> QED
      BY <3>2
  <2>4. 1 \in DOMAIN code /\ Head(code) = code[1] /\ code[1].do = "log"
    <3>1. code \in Seq(Commands) /\ code # <<>> /\ Head(code).do = "log"
      BY <2>1 DEF OpdTypes, CodeInv, db_logMessage, Evaluating
    <3> QED
      BY <3>1, TailFacts
  <2> QED
    BY <2>2, <2>3, <2>4 DEF FaultInv, IsFaultRow
<1> QED
  BY <1>1, <1>2, <1>3, SessionInvariant, PTL DEF OpdSpec, RowsOfFault

----------------------------------------------------------------------------
(* gdb_set_arguments leaves an answer on the pipe, so that with opd -a     *)
(* every gdb_getresponse of the setup returns on the answer to the command *)
(* before its own, until main reads the answer left over.  This harms no   *)
(* session whose setup binds breakpoints and logs no answer: when the      *)
(* first stop is read, opd and gdb are in step.                            *)

SetupBinds ==
  \A i \in DOMAIN Setup :
    Setup[i].do = "gdb_setBreakpoint" \/ (Setup[i].do = "log" /\ ~IsAnswer(Setup[i]))

(* Before the first stop is read.  gdb's table lacks the breakpoints that  *)
(* are still on the pipe, which are all it holds but for the arguments in  *)
(* front and the start of the application at the end.                      *)
ArgumentsAhead ==
  IF gdb_stdin # <<>> /\ gdb_stdin[1].op = "arguments" THEN 1 ELSE 0

RunBehind ==
  IF gdb_stdin # <<>> /\ gdb_stdin[Len(gdb_stdin)].op = "run" THEN 1 ELSE 0

StartCommands == {"log", "gdb_setBreakpoint", "gdb_set_arguments", "gdb_start_run"}

StartTables ==
  /\ Len(breakpoints) = Len(bps) + Len(gdb_stdin) - ArgumentsAhead - RunBehind
  /\ \A n \in 1 .. Len(bps) : breakpoints[n] = bps[n].fn
  /\ \A i \in DOMAIN gdb_stdin :
       /\ gdb_stdin[i].op \in {"arguments", "break", "run"}
       /\ gdb_stdin[i].op = "arguments" => i = 1
       /\ gdb_stdin[i].op = "break" =>
            breakpoints[Len(bps) + i - ArgumentsAhead] = gdb_stdin[i].fn

Starting ==
  /\ app \in {"none", "continue", "stopped", "faulted", "dead"}
  /\ wait \in {"none", "response"} /\ (wait = "response" => asked.op = "break")
  /\ \A i \in DOMAIN code :
       /\ code[i].do \in StartCommands /\ ~IsAnswer(code[i])
       /\ code[i].do # "log" => app = "none"
       /\ code[i].do = "gdb_set_arguments" => i = 1 /\ gdb_stdin = <<>>
  /\ StartTables
  /\ \A i \in DOMAIN gdb_stdout :
       gdb_stdout[i].no <= Len(bps) /\ gdb_stdout[i].kind # "end-stepping-range"

(* Behind it: the arguments are not sent a second time.                    *)
Started == Sync /\ \A i \in DOMAIN code : code[i].do # "gdb_set_arguments"

StartInv == blame \subseteq {"arguments"} => Starting \/ Started

----------------------------------------------------------------------------
(* StartInv holds in every session.                                        *)

(* The arguments in front and the start of the application behind are on   *)
(* the pipe, and they are two commands.                                    *)
LEMMA PipeEnds ==
  ASSUME TypeOK
  PROVE  /\ ArgumentsAhead \in {0, 1} /\ RunBehind \in {0, 1}
         /\ ArgumentsAhead + RunBehind <= Len(gdb_stdin)
<1>1. Len(gdb_stdin) \in Nat /\ (gdb_stdin = <<>> <=> Len(gdb_stdin) = 0)
  BY TypesOfPipes
<1>2. Len(gdb_stdin) = 1 => ArgumentsAhead + RunBehind <= 1
  BY <1>1 DEF ArgumentsAhead, RunBehind
<1>3. ArgumentsAhead \in {0, 1} /\ RunBehind \in {0, 1}
      /\ (Len(gdb_stdin) = 0 => ArgumentsAhead = 0 /\ RunBehind = 0)
  BY <1>1 DEF ArgumentsAhead, RunBehind
<1>4. \A a, r \in {0, 1}, n \in Nat :
        (n = 0 => a = 0 /\ r = 0) /\ (n = 1 => a + r <= 1) => a + r <= n
  OBVIOUS
<1> QED
  BY <1>1, <1>2, <1>3, <1>4

(* A command of the setup and the entry of opd's table it makes.           *)
LEMMA SetupSends ==
  ASSUME TypeOK, CodeInv, EvalGdb, Head(code).do \in StartCommands
  PROVE  \E c \in Command :
           /\ gdb_stdin' = Append(gdb_stdin, c)
           /\ \/ /\ c.op = "break" /\ c.fn \in Functions
                 /\ breakpoints' = Append(breakpoints, c.fn)
                 /\ wait' = "response" /\ asked' = c
              \/ /\ c.op = "arguments" /\ Head(code).do = "gdb_set_arguments"
                 /\ breakpoints' = breakpoints /\ wait' = "none"
              \/ /\ c.op = "run" /\ Head(code).do = "gdb_start_run"
                 /\ breakpoints' = breakpoints /\ wait' = "none"
<1> DEFINE h == Head(code)
           New(op, fn) == [op |-> op, fn |-> fn, id |-> sent + 1]
<1>1. CallsGdb(h) /\ h \in Commands /\ wait = "none"
  BY DEF EvalGdb, Evaluating, CodeInv
<1>2. h.do \in BindOps => h.arg \in Functions
  BY <1>1, BindsFunctions
<1>3. \A op, fn : New(op, fn).op = op /\ New(op, fn).fn = fn
  OBVIOUS
<1>4. ASSUME NEW op \in Ops, NEW fn, Write(op, fn),
             IF op \in {"break", "watch"} THEN fn \in Functions ELSE fn = NoFunction
      PROVE  New(op, fn) \in Command /\ gdb_stdin' = Append(gdb_stdin, New(op, fn))
  BY <1>4, WriteTypes DEF Write
<1> HIDE DEF h
<1>5. CASE h.do = "gdb_setBreakpoint"
  <2>1. gdb_setBreakpoint(h.arg) /\ h.arg \in Functions
    BY <1>1, <1>2, <1>5 DEF CallsGdb, BindOps
  <2>2. /\ Write("break", h.arg) /\ breakpoints' = Append(breakpoints, h.arg)
        /\ wait' = "response" /\ asked' = New("break", h.arg)
    BY <2>1 DEF gdb_setBreakpoint, Ask
  <2>3. New("break", h.arg) \in Command /\ gdb_stdin' = Append(gdb_stdin, New("break", h.arg))
    BY <1>4, <2>1, <2>2 DEF Ops, AskOps
  <2> HIDE DEF New
  <2> QED
    BY <1>3, <2>1, <2>2, <2>3
<1>6. CASE h.do = "gdb_set_arguments"
  <2>1. Write("arguments", NoFunction) /\ breakpoints' = breakpoints /\ wait' = wait
    BY <1>1, <1>6 DEF CallsGdb, gdb_set_arguments, Fire
  <2>2. New("arguments", NoFunction) \in Command
        /\ gdb_stdin' = Append(gdb_stdin, New("arguments", NoFunction))
    BY <1>4, <2>1 DEF Ops
  <2> HIDE DEF New
  <2> QED
    BY <1>1, <1>3, <1>6, <2>1, <2>2 DEF h
<1>7. CASE h.do = "gdb_start_run"
  <2>1. Write("run", NoFunction) /\ breakpoints' = breakpoints /\ wait' = wait
    BY <1>1, <1>7 DEF CallsGdb, gdb_start_run, Fire
  <2>2. New("run", NoFunction) \in Command
        /\ gdb_stdin' = Append(gdb_stdin, New("run", NoFunction))
    BY <1>4, <2>1 DEF Ops, ExecOps
  <2> HIDE DEF New
  <2> QED
    BY <1>1, <1>3, <1>7, <2>1, <2>2 DEF h
<1>8. h.do # "log"
  BY EvalFacts DEF h, Asks, Calls, Resumes
<1> QED
  BY <1>5, <1>6, <1>7, <1>8 DEF StartCommands, h

(* A command of the setup is sent while gdb's table lacks exactly what is  *)
(* still on the pipe.                                                      *)
LEMMA StartingSends ==
  ASSUME OpdTypes, SessionInv, Starting, EvalGdb
  PROVE  Starting'
<1>1. TypeOK /\ CodeInv /\ TypeOK'
  <2>1. OpdTypes'
    BY OpdTypesKept DEF OpdNext, OpdStep
  <2> QED
    BY <2>1 DEF OpdTypes
<1>2. /\ code # <<>> /\ code' = Tail(code) /\ wait = "none"
      /\ Head(code).do \in Asks \cup Calls \cup Resumes \cup {"gdb_set_arguments", "gdb_start_run"}
      /\ UNCHANGED <<gdb_stdout, bps, app>>
  BY <1>1, EvalFacts DEF gdb
<1>3. /\ 1 \in DOMAIN code /\ Head(code) = code[1]
      /\ \A i \in DOMAIN code' : i + 1 \in DOMAIN code /\ code'[i] = code[i + 1] /\ i + 1 # 1
  <2>1. /\ Len(code) \in Nat \ {0} /\ DOMAIN code = 1 .. Len(code) /\ Head(code) = code[1]
        /\ DOMAIN code' = 1 .. (Len(code) - 1)
        /\ \A i \in 1 .. (Len(code) - 1) : code'[i] = code[i + 1]
    BY <1>1, <1>2, TailFacts DEF CodeInv
  <2> QED
    BY <2>1
<1>4. /\ Head(code).do \in StartCommands /\ Head(code).do # "log"
      /\ Head(code).do = "gdb_set_arguments" => gdb_stdin = <<>>
  BY <1>2, <1>3 DEF Starting, Asks, Calls, Resumes
<1>5. RunBehind = 0
  <2>1. Held
    BY <1>3, <1>4 DEF SessionInv, LettingGo
  <2>2. gdb_stdin # <<>> => Len(gdb_stdin) \in DOMAIN gdb_stdin
    BY <1>1, TypesOfPipes
  <2> QED
    BY <2>1, <2>2 DEF Held, ExecPending, RunBehind, ExecOps
<1>6. PICK c \in Command :
        /\ gdb_stdin' = Append(gdb_stdin, c)
        /\ \/ /\ c.op = "break" /\ c.fn \in Functions
              /\ breakpoints' = Append(breakpoints, c.fn)
              /\ wait' = "response" /\ asked' = c
           \/ /\ c.op = "arguments" /\ Head(code).do = "gdb_set_arguments"
              /\ breakpoints' = breakpoints /\ wait' = "none"
           \/ /\ c.op = "run" /\ Head(code).do = "gdb_start_run"
              /\ breakpoints' = breakpoints /\ wait' = "none"
  BY <1>1, <1>4, SetupSends
<1> DEFINE n == Len(gdb_stdin)
           b == Len(breakpoints)
<1>7. /\ n \in Nat /\ Len(gdb_stdin') = n + 1 /\ DOMAIN gdb_stdin = 1 .. n
      /\ DOMAIN gdb_stdin' = 1 .. n + 1 /\ gdb_stdin' # <<>>
      /\ gdb_stdin = <<>> <=> n = 0
      /\ gdb_stdin'[n + 1] = c /\ \A i \in 1 .. n : gdb_stdin'[i] = gdb_stdin[i]
  BY <1>1, <1>6, TypesOfPipes, AppendFacts
<1>8. /\ b \in Nat /\ Len(bps) \in Nat
      /\ c.op = "break" =>
           /\ Len(breakpoints') = b + 1 /\ breakpoints'[b + 1] = c.fn
           /\ \A i \in 1 .. b : breakpoints'[i] = breakpoints[i]
  BY <1>1, <1>6, TypesOfTables, AppendFacts
<1>9. /\ b = Len(bps) + n - ArgumentsAhead
      /\ ArgumentsAhead \in {0, 1} /\ ArgumentsAhead <= n
  BY <1>1, <1>5, <1>7, <1>8, PipeEnds DEF Starting, StartTables
<1>10. /\ RunBehind' = (IF c.op = "run" THEN 1 ELSE 0)
       /\ ArgumentsAhead' = (IF n = 0 /\ c.op = "arguments" THEN 1 ELSE ArgumentsAhead)
  <2>1. RunBehind' = (IF c.op = "run" THEN 1 ELSE 0)
    BY <1>7 DEF RunBehind
  <2>2. CASE n = 0
    <3>1. gdb_stdin'[1] = c
      BY <1>7, <2>2
    <3>2. ArgumentsAhead' = (IF c.op = "arguments" THEN 1 ELSE 0)
      BY <1>7, <3>1 DEF ArgumentsAhead
    <3>3. ArgumentsAhead = 0
      BY <1>7, <2>2 DEF ArgumentsAhead
    <3> QED
      BY <2>1, <2>2, <3>2, <3>3
  <2>3. CASE n # 0
    <3>1. gdb_stdin'[1] = gdb_stdin[1] /\ gdb_stdin # <<>>
      BY <1>7, <2>3
    <3> QED
      BY <1>7, <2>1, <2>3, <3>1 DEF ArgumentsAhead
  <2> QED
    BY <2>2, <2>3
<1>11. c.op = "arguments" => n = 0 /\ ArgumentsAhead = 0
  BY <1>4, <1>6, <1>7, <1>9
<1> HIDE DEF n, b
<1>12. Len(breakpoints') = Len(bps') + Len(gdb_stdin') - ArgumentsAhead' - RunBehind'
  <2>1. \A d, m, a \in Int : /\ (d + (m - a)) + 1 = d + (((m + 1) - a) - 0)
                             /\ d + (m - a) = d + (((m + 1) - a) - 1)
                             /\ d + (m - 0) = d + (((m + 1) - 1) - 0)
    OBVIOUS
  <2>2. b = Len(bps) + (n - ArgumentsAhead)
    BY <1>9
  <2>3. CASE c.op = "break"
    <3>1. RunBehind' = 0 /\ ArgumentsAhead' = ArgumentsAhead
      BY <1>10, <2>3
    <3> QED
      BY <1>2, <1>7, <1>8, <1>9, <2>1, <2>2, <2>3, <3>1
  <2>4. CASE c.op = "run"
    <3>1. RunBehind' = 1 /\ ArgumentsAhead' = ArgumentsAhead /\ breakpoints' = breakpoints
      BY <1>6, <1>10, <2>4
    <3> QED
      BY <1>2, <1>7, <1>8, <1>9, <2>1, <2>2, <2>4, <3>1 DEF b
  <2>5. CASE c.op = "arguments"
    <3>1. RunBehind' = 0 /\ ArgumentsAhead' = 1 /\ breakpoints' = breakpoints /\ ArgumentsAhead = 0
      BY <1>6, <1>10, <1>11, <2>5
    <3> QED
      BY <1>2, <1>7, <1>8, <1>9, <2>1, <2>2, <2>5, <3>1 DEF b
  <2> QED
    BY <1>6, <2>3, <2>4, <2>5
<1>13. \A i \in 1 .. b : breakpoints'[i] = breakpoints[i]
  BY <1>6, <1>8
<1>14. \A i \in 1 .. Len(bps') : breakpoints'[i] = bps'[i].fn
  <2>1. \A i \in 1 .. Len(bps) : i \in 1 .. b
    BY <1>7, <1>8, <1>9
  <2> QED
    BY <1>2, <1>13, <2>1 DEF Starting, StartTables
<1>15. ASSUME NEW i \in DOMAIN gdb_stdin'
       PROVE  /\ gdb_stdin'[i].op \in {"arguments", "break", "run"}
              /\ gdb_stdin'[i].op = "arguments" => i = 1
              /\ gdb_stdin'[i].op = "break" =>
                   breakpoints'[Len(bps') + i - ArgumentsAhead'] = gdb_stdin'[i].fn
  <2>1. CASE i = n + 1
    <3>1. c.op = "break" => Len(bps') + i - ArgumentsAhead' = b + 1
      BY <1>2, <1>7, <1>8, <1>9, <1>10, <2>1
    <3> QED
      BY <1>6, <1>7, <1>8, <1>11, <2>1, <3>1
  <2>2. CASE i # n + 1
    <3>1. i \in 1 .. n /\ i \in DOMAIN gdb_stdin /\ gdb_stdin'[i] = gdb_stdin[i] /\ n # 0
      BY <1>7, <2>2
    <3>2. /\ gdb_stdin[i].op \in {"arguments", "break", "run"}
          /\ gdb_stdin[i].op = "arguments" => i = 1
          /\ gdb_stdin[i].op = "break" =>
               breakpoints[Len(bps) + i - ArgumentsAhead] = gdb_stdin[i].fn
      BY <3>1 DEF Starting, StartTables
    <3>3. ArgumentsAhead' = ArgumentsAhead /\ Len(bps') = Len(bps)
      BY <1>2, <1>10, <3>1
    <3>4. gdb_stdin[i].op = "break" => Len(bps) + i - ArgumentsAhead \in 1 .. b
      <4> SUFFICES ASSUME gdb_stdin[i].op = "break"
                   PROVE  Len(bps) + i - ArgumentsAhead \in 1 .. b
        OBVIOUS
      <4>1. i = 1 => ArgumentsAhead = 0
        BY DEF ArgumentsAhead
      <4> QED
        BY <1>7, <1>8, <1>9, <3>1, <4>1
    <3> QED
      BY <1>13, <3>1, <3>2, <3>3, <3>4
  <2> QED
    BY <2>1, <2>2
<1>16. /\ app' \in {"none", "continue", "stopped", "faulted", "dead"}
       /\ wait' \in {"none", "response"} /\ (wait' = "response" => asked'.op = "break")
       /\ \A i \in DOMAIN gdb_stdout' :
            gdb_stdout'[i].no <= Len(bps') /\ gdb_stdout'[i].kind # "end-stepping-range"
  BY <1>2, <1>6 DEF Starting
<1>17. \A i \in DOMAIN code' :
         /\ code'[i].do \in StartCommands /\ ~IsAnswer(code'[i])
         /\ code'[i].do # "log" => app' = "none"
         /\ code'[i].do # "gdb_set_arguments"
  BY <1>2, <1>3 DEF Starting
<1> QED
  BY <1>12, <1>14, <1>15, <1>16, <1>17 DEF Starting, StartTables

(* gdb takes the arguments, enters the next breakpoint of the setup under  *)
(* the number opd's table has for it, or starts the application.           *)
LEMMA StartingExecutes ==
  ASSUME OpdTypes, SessionInv, Starting, GdbStep, blame' \subseteq {"arguments"}
  PROVE  Starting'
<1>1. TypeOK /\ GdbExecute /\ UNCHANGED <<code, wait, asked, breakpoints>>
  <2>1. TypeOK /\ GdbExecute /\ UNCHANGED code
    BY DEF OpdTypes, GdbStep, session
  <2> QED
    BY <2>1, GdbLines DEF opd
<1> DEFINE c == Head(gdb_stdin)
           n == Len(gdb_stdin)
<1>2. /\ gdb_stdin # <<>> /\ c \in Command /\ gdb_stdin' = Tail(gdb_stdin)
      /\ gdb_stdout' \in Seq(Line) /\ Len(gdb_stdout) <= Len(gdb_stdout')
      /\ \A i \in 1 .. Len(gdb_stdout) : gdb_stdout'[i] = gdb_stdout[i]
      /\ \A i \in Len(gdb_stdout) + 1 .. Len(gdb_stdout') :
           /\ gdb_stdout'[i].no = 0
           /\ IsStop(gdb_stdout'[i]) => gdb_stdout'[i].kind = "SIGSEGV"
      /\ \/ app' = app
         \/ c.op \in ExecOps /\ app' = IF c.op = "run" THEN "continue" ELSE c.op
         \/ app = "faulted" /\ app' = "dead" /\ c.op \in ExecOps
         \/ c.op = "exit" /\ app' = "gone"
  BY <1>1, GdbLines DEF IsResumed
<1>3. /\ 1 \in DOMAIN gdb_stdin /\ c = gdb_stdin[1] /\ n \in Nat \ {0}
      /\ DOMAIN gdb_stdin = 1 .. n
      /\ Len(gdb_stdin') = n - 1 /\ DOMAIN gdb_stdin' = 1 .. (n - 1)
      /\ gdb_stdin' = <<>> <=> n = 1
      /\ \A i \in 1 .. (n - 1) : gdb_stdin'[i] = gdb_stdin[i + 1]
  BY <1>1, <1>2, TypesOfPipes, TailFacts
<1>4. /\ c.op \in {"arguments", "break", "run"}
      /\ Len(breakpoints) \in Nat /\ Len(bps) \in Nat
      /\ \A e : Len(Append(bps, e)) = Len(bps) + 1 /\ Append(bps, e)[Len(bps) + 1] = e
                /\ \A i \in 1 .. Len(bps) : Append(bps, e)[i] = bps[i]
  BY <1>1, <1>3, TypesOfTables DEF Starting, StartTables
<1>5. /\ c.op = "break" => bps' = Append(bps, [kind |-> "break", fn |-> c.fn, live |-> TRUE])
      /\ c.op # "break" => bps' = bps
  BY <1>1, <1>4
     DEF GdbExecute, GdbQuery, GdbInsert, GdbWatch, GdbCall, Resume, ResumeFaulted, RefuseResume,
         GdbExit, Execute, Added, CallOps, ExecOps
<1> HIDE DEF c, n
<1>6. c.op = "run" => n = 1
  <2>1. c.op = "run" => 1 = n
    BY <1>3 DEF SessionInv, LettingGo, ExecOps, n
  <2> QED
    BY <2>1
<1>7. /\ ArgumentsAhead = (IF c.op = "arguments" THEN 1 ELSE 0) /\ ArgumentsAhead' = 0
      /\ RunBehind = (IF c.op = "run" THEN 1 ELSE RunBehind') /\ (c.op = "run" => RunBehind' = 0)
      /\ RunBehind' \in {0, 1} /\ (n = 1 => RunBehind' = 0)
  <2>1. ArgumentsAhead = (IF c.op = "arguments" THEN 1 ELSE 0)
    BY <1>2, <1>3 DEF ArgumentsAhead
  <2>2. CASE n = 1
    <3>1. ArgumentsAhead' = 0 /\ RunBehind' = 0
      BY <1>3, <2>2 DEF ArgumentsAhead, RunBehind
    <3>2. RunBehind = (IF c.op = "run" THEN 1 ELSE 0)
      BY <1>2, <1>3, <2>2 DEF RunBehind, n
    <3> QED
      BY <2>1, <3>1, <3>2
  <2>3. CASE n # 1
    <3>1. /\ 1 \in 1 .. (n - 1) /\ n - 1 \in 1 .. (n - 1) /\ 1 + 1 = 2 /\ (n - 1) + 1 = n
          /\ 2 \in 1 .. n /\ gdb_stdin' # <<>>
      BY <1>3, <2>3
    <3>2. gdb_stdin'[1] = gdb_stdin[2] /\ gdb_stdin'[n - 1] = gdb_stdin[n]
      BY <1>3, <3>1
    <3>3. gdb_stdin[2].op # "arguments"
      BY <1>3, <3>1 DEF Starting, StartTables
    <3>4. ArgumentsAhead' = 0
      BY <3>1, <3>2, <3>3 DEF ArgumentsAhead
    <3>5. RunBehind' = RunBehind /\ RunBehind \in {0, 1}
      BY <1>2, <1>3, <3>1, <3>2 DEF RunBehind, n
    <3> QED
      BY <1>6, <2>1, <2>3, <3>4, <3>5
  <2> QED
    BY <2>2, <2>3
<1>8. Len(breakpoints) = Len(bps) + (n - ArgumentsAhead - RunBehind)
  BY DEF Starting, StartTables, n
<1>9. Len(bps') = (IF c.op = "break" THEN Len(bps) + 1 ELSE Len(bps))
      /\ \A i \in 1 .. Len(bps) : bps'[i] = bps[i]
  BY <1>4, <1>5
<1>10. Len(breakpoints) = Len(bps') + (n - 1 - RunBehind')
  <2>1. \A d, m, r \in Int : /\ d + (m - 1 - r) = d + (m - 1 - r)
                             /\ d + (m - 0 - r) = (d + 1) + (m - 1 - r)
                             /\ d + (m - 0 - 1) = d + (m - 1 - 0)
    OBVIOUS
  <2>2. CASE c.op = "break"
    <3>1. ArgumentsAhead = 0 /\ RunBehind' = RunBehind /\ Len(bps') = Len(bps) + 1
      BY <1>7, <1>9, <2>2
    <3> QED
      BY <1>3, <1>4, <1>7, <1>8, <2>1, <3>1
  <2>3. CASE c.op = "run"
    <3>1. ArgumentsAhead = 0 /\ RunBehind' = 0 /\ RunBehind = 1 /\ Len(bps') = Len(bps)
      BY <1>7, <1>9, <2>3
    <3> QED
      BY <1>3, <1>4, <1>8, <2>1, <3>1
  <2>4. CASE c.op = "arguments"
    <3>1. ArgumentsAhead = 1 /\ RunBehind' = RunBehind /\ Len(bps') = Len(bps)
      BY <1>7, <1>9, <2>4
    <3> QED
      BY <1>3, <1>4, <1>7, <1>8, <2>1, <3>1
  <2> QED
    BY <1>4, <2>2, <2>3, <2>4
<1>11. \A i \in 1 .. Len(bps') : breakpoints[i] = bps'[i].fn
  <2>1. \A i \in 1 .. Len(bps) : breakpoints[i] = bps'[i].fn
    BY <1>9 DEF Starting, StartTables
  <2>2. c.op = "break" => breakpoints[Len(bps) + 1] = bps'[Len(bps) + 1].fn
    <3> SUFFICES ASSUME c.op = "break"
                 PROVE  breakpoints[Len(bps) + 1] = bps'[Len(bps) + 1].fn
      OBVIOUS
    <3>1. breakpoints[Len(bps) + 1 - ArgumentsAhead] = c.fn
      BY <1>3 DEF Starting, StartTables
    <3>2. Len(bps) + 1 - ArgumentsAhead = Len(bps) + 1
      BY <1>4, <1>7
    <3>3. bps'[Len(bps) + 1].fn = c.fn
      BY <1>4, <1>5
    <3> QED
      BY <3>1, <3>2, <3>3
  <2>3. \A i \in 1 .. Len(bps') : i \in 1 .. Len(bps) \/ (c.op = "break" /\ i = Len(bps) + 1)
    BY <1>4, <1>9
  <2> QED
    BY <2>1, <2>2, <2>3
<1>12. ASSUME NEW i \in DOMAIN gdb_stdin'
       PROVE  /\ gdb_stdin'[i].op \in {"break", "run"}
              /\ gdb_stdin'[i].op = "break" =>
                   breakpoints[Len(bps') + i - ArgumentsAhead'] = gdb_stdin'[i].fn
  <2>1. i + 1 \in DOMAIN gdb_stdin /\ gdb_stdin'[i] = gdb_stdin[i + 1] /\ i \in 1 .. (n - 1)
        /\ i + 1 # 1
    BY <1>3
  <2>2. /\ gdb_stdin[i + 1].op \in {"break", "run"}
        /\ gdb_stdin[i + 1].op = "break" =>
             breakpoints[Len(bps) + (i + 1) - ArgumentsAhead] = gdb_stdin[i + 1].fn
    BY <2>1 DEF Starting, StartTables
  <2>3. c.op # "run" => Len(bps) + (i + 1) - ArgumentsAhead = Len(bps') + i - ArgumentsAhead'
    <3>1. \A d, k \in Int : /\ d + ((k + 1) - 0) = (d + 1) + (k - 0)
                            /\ d + ((k + 1) - 1) = d + (k - 0)
      OBVIOUS
    <3>2. i \in Int /\ Len(bps) \in Int
      BY <1>3, <1>4, <2>1
    <3>3. CASE c.op = "break"
      <4>1. ArgumentsAhead = 0 /\ ArgumentsAhead' = 0 /\ Len(bps') = Len(bps) + 1
        BY <1>7, <1>9, <3>3
      <4> QED
        BY <3>1, <3>2, <4>1
    <3>4. CASE c.op = "arguments"
      <4>1. ArgumentsAhead = 1 /\ ArgumentsAhead' = 0 /\ Len(bps') = Len(bps)
        BY <1>7, <1>9, <3>4
      <4> QED
        BY <3>1, <3>2, <4>1
    <3> QED
      BY <1>4, <3>3, <3>4
  <2>4. c.op # "run"
    BY <1>3, <1>6, <2>1
  <2> QED
    BY <2>1, <2>2, <2>3, <2>4
<1>13. StartTables'
  BY <1>1, <1>3, <1>7, <1>10, <1>11, <1>12 DEF StartTables
<1>14. app' \in {"none", "continue", "stopped", "faulted", "dead"}
  BY <1>2, <1>4 DEF Starting, ExecOps
<1>15. \A i \in DOMAIN gdb_stdout' :
         gdb_stdout'[i].no <= Len(bps') /\ gdb_stdout'[i].kind # "end-stepping-range"
  <2>1. /\ Len(gdb_stdout) \in Nat /\ DOMAIN gdb_stdout = 1 .. Len(gdb_stdout)
        /\ DOMAIN gdb_stdout' = 1 .. Len(gdb_stdout') /\ Len(gdb_stdout') \in Nat
        /\ Len(bps') \in Nat /\ Len(bps) <= Len(bps')
        /\ \A i \in DOMAIN gdb_stdout : gdb_stdout[i].no \in Nat
    <3>1. \A i \in DOMAIN gdb_stdout : gdb_stdout[i] \in Line
      BY <1>1, TypesOfPipes
    <3> QED
      BY <1>1, <1>2, <1>4, <1>9, <3>1, TypesOfPipes, SeqFacts DEF Line
  <2>2. ASSUME NEW i \in 1 .. Len(gdb_stdout)
        PROVE  gdb_stdout'[i].no <= Len(bps') /\ gdb_stdout'[i].kind # "end-stepping-range"
    <3>1. /\ i \in DOMAIN gdb_stdout /\ gdb_stdout'[i] = gdb_stdout[i]
          /\ gdb_stdout[i].no <= Len(bps) /\ gdb_stdout[i].kind # "end-stepping-range"
      BY <1>2, <2>1 DEF Starting
    <3> QED
      BY <1>4, <2>1, <3>1
  <2>3. ASSUME NEW i \in Len(gdb_stdout) + 1 .. Len(gdb_stdout')
        PROVE  gdb_stdout'[i].no <= Len(bps') /\ gdb_stdout'[i].kind # "end-stepping-range"
    <3>1. /\ gdb_stdout'[i].no = 0
          /\ IsStop(gdb_stdout'[i]) => gdb_stdout'[i].kind = "SIGSEGV"
      BY <1>2
    <3> QED
      BY <2>1, <3>1 DEF IsStop, StopKinds
  <2>4. \A i \in DOMAIN gdb_stdout' : \/ i \in 1 .. Len(gdb_stdout)
                                      \/ i \in Len(gdb_stdout) + 1 .. Len(gdb_stdout')
    BY <2>1
  <2> QED
    BY <2>2, <2>3, <2>4
<1>16. \A i \in DOMAIN code' :
         /\ code'[i].do \in StartCommands /\ ~IsAnswer(code'[i])
         /\ code'[i].do # "log" => app' = "none"
         /\ code'[i].do # "gdb_set_arguments"
  <2>1. c.op = "run" => \A i \in DOMAIN code : code[i].do = "log"
    <3>1. c.op = "run" => ~Held
      BY <1>3 DEF Held, ExecPending, ExecOps
    <3> QED
      BY <3>1 DEF SessionInv, LettingGo
  <2>2. c.op # "run" => app' = app
    BY <1>2, <1>4 DEF ExecOps
  <2> QED
    BY <1>1, <1>2, <2>1, <2>2 DEF Starting
<1> QED
  BY <1>1, <1>13, <1>14, <1>15, <1>16 DEF Starting

(* The application runs after the setup; what it says has a number of      *)
(* gdb's table.                                                            *)
LEMMA StartingRuns ==
  ASSUME OpdTypes, SessionInv, Starting, AppStep
  PROVE  Starting'
<1>1. TypeOK /\ AppRuns /\ UNCHANGED <<code, wait, asked, breakpoints, gdb_stdin>>
  <2>1. TypeOK /\ AppRuns /\ UNCHANGED code
    BY DEF OpdTypes, AppStep, session
  <2> QED
    BY <2>1, AppLines DEF opd
<1>2. /\ Len(bps') = Len(bps) /\ Len(bps) \in Nat
      /\ \A i \in 1 .. Len(bps) : bps'[i].fn = bps[i].fn
  <2>1. /\ bps \in Seq([kind : {"break", "watch"}, fn : Functions, live : BOOLEAN])
        /\ Len(bps) \in Nat /\ DOMAIN bps = 1 .. Len(bps)
    BY <1>1, TypesOfTables
  <2>2. \/ bps' = bps
        \/ \E n \in DOMAIN bps : bps' = [bps EXCEPT ![n].live = FALSE]
    BY <1>1 DEF AppRuns, AppHits, AppLeavesScope, AppSteps, AppSignalled, AppExits, AppWrites,
                AppStops, Armed, gdb
  <2>3. Len(bps') = Len(bps)
    BY <1>1, AppLines
  <2>4. \A i \in 1 .. Len(bps) : bps[i] \in [kind : {"break", "watch"}, fn : Functions, live : BOOLEAN]
    BY <2>1, SeqFacts
  <2>5. \A i \in 1 .. Len(bps) : bps'[i].fn = bps[i].fn
    BY <2>1, <2>2, <2>4
  <2> QED
    BY <2>1, <2>3, <2>5
<1>3. StartTables'
  <2>1. ArgumentsAhead' = ArgumentsAhead /\ RunBehind' = RunBehind
    BY <1>1 DEF ArgumentsAhead, RunBehind
  <2> QED
    BY <1>1, <1>2, <2>1 DEF Starting, StartTables
<1>4. CASE app' = app /\ gdb_stdout' = gdb_stdout
  BY <1>1, <1>2, <1>3, <1>4 DEF Starting
<1>5. ASSUME NEW l \in Line, gdb_stdout' = Append(gdb_stdout, l), Running,
             app' = app \/ app' \in {"stopped", "faulted", "dead"},
             l.no <= Len(bps), l.kind = "end-stepping-range" => app \in {"next", "step"}
      PROVE  Starting'
  <2>1. \A i \in DOMAIN code : code[i].do = "log"
    BY <1>5 DEF SessionInv, LettingGo, Held
  <2>2. \A i \in DOMAIN gdb_stdout' : \/ i \in DOMAIN gdb_stdout /\ gdb_stdout'[i] = gdb_stdout[i]
                                      \/ gdb_stdout'[i] = l
    BY <1>1, <1>5, TypesOfPipes, AppendFacts
  <2>3. l.kind # "end-stepping-range" /\ app' \in {"none", "continue", "stopped", "faulted", "dead"}
    BY <1>5 DEF Starting
  <2>4. \A i \in DOMAIN gdb_stdout' :
          gdb_stdout'[i].no <= Len(bps') /\ gdb_stdout'[i].kind # "end-stepping-range"
    BY <1>2, <1>5, <2>2, <2>3 DEF Starting
  <2> QED
    BY <1>1, <1>3, <2>1, <2>3, <2>4 DEF Starting
<1>6. \/ app' = app /\ gdb_stdout' = gdb_stdout
      \/ \E l \in Line :
           /\ gdb_stdout' = Append(gdb_stdout, l) /\ Running
           /\ app' = app \/ app' \in {"stopped", "faulted", "dead"}
           /\ l.no <= Len(bps) /\ (l.kind = "end-stepping-range" => app \in {"next", "step"})
  <2>1. \A l : l.no \in 1 .. Len(bps) \/ l.no = 0 => l.no <= Len(bps)
    BY <1>2
  <2> QED
    BY <1>1, <2>1, AppLines
<1> QED
  BY <1>4, <1>5, <1>6

(* What main evaluates for a line does not send the arguments.             *)
LEMMA HandlersSendNone ==
  ASSUME ScriptsInOrder, OpdTypes, Dispatch
  PROVE  \A i \in DOMAIN code' : code'[i].do # "gdb_set_arguments"
<1>1. \A f \in Functions : \A i \in DOMAIN Proc[f] : Proc[f][i].do # "gdb_set_arguments"
  <2> SUFFICES ASSUME NEW f \in Functions, NEW i \in DOMAIN Proc[f]
               PROVE  Proc[f][i].do # "gdb_set_arguments"
    OBVIOUS
  <2>1. Proc[f] \in Seq(TclCommands)
    BY ScriptAssumption DEF Procedures
  <2>2. Proc[f][i] \in TclCommands
    BY <2>1, SeqFacts
  <2> QED
    BY <2>2 DEF TclCommands, TclNames
<1>2. \A p \in Quiets \cup {opd_dispatchSigSeg, opd_dispatchOther} :
        \A i \in DOMAIN p : p[i].do # "gdb_set_arguments"
  <2>1. \A do \in {"log", "query", "opd_setExit"} : do # "gdb_set_arguments"
    OBVIOUS
  <2> QED
    BY <2>1, OpdTclScripts
<1>3. \/ code' \in Quiets \cup {opd_dispatchSigSeg, opd_dispatchOther}
      \/ \E f \in Functions : code' = Proc[f]
  BY DispatchIs DEF Quiets, OpdTypes
<1> QED
  BY <1>1, <1>2, <1>3

(* main reads while the setup is under way or the application runs: up to  *)
(* the first stop it has nothing to evaluate but rows, and at the first    *)
(* stop no answer is left and the tables agree.                            *)
LEMMA StartingReads ==
  ASSUME ScriptsInOrder, OpdTypes, SessionInv, Starting, Dispatch
  PROVE  Starting' \/ Started'
<1>1. TypeOK
  BY DEF OpdTypes
<1>2. /\ wait = "none" /\ wait' = wait
      /\ UNCHANGED <<breakpoints, asked, gdb_stdin, bps, app>>
  BY <1>1, DispatchIs DEF gdb
<1>3. ASSUME code' \in Quiets,
             gdb_stdout' = gdb_stdout \/ (gdb_stdout # <<>> /\ gdb_stdout' = Tail(gdb_stdout))
      PROVE  Starting'
  <2>1. StartTables'
    BY <1>2 DEF Starting, StartTables, ArgumentsAhead, RunBehind
  <2>2. \A i \in DOMAIN gdb_stdout' : \E j \in DOMAIN gdb_stdout : gdb_stdout'[i] = gdb_stdout[j]
    <3>1. Read
      BY DEF Dispatch, Read
    <3> QED
      BY <1>1, <3>1, ReadFrame
  <2>3. \A i \in DOMAIN gdb_stdout' :
          gdb_stdout'[i].no <= Len(bps') /\ gdb_stdout'[i].kind # "end-stepping-range"
    BY <1>2, <2>2 DEF Starting
  <2>4. \A i \in DOMAIN code' : code'[i].do = "log" /\ ~IsAnswer(code'[i])
    BY <1>3, QuietFacts
  <2> QED
    BY <1>2, <2>1, <2>3, <2>4 DEF Starting, StartCommands
<1>4. ASSUME gdb_stdout # <<>>, line' = Head(gdb_stdout), gdb_stdout' = Tail(gdb_stdout),
             IsStop(line'), \A i \in DOMAIN code' : code'[i].do # "gdb_set_arguments"
      PROVE  Started'
  <2>1. 1 \in DOMAIN gdb_stdout /\ line' = gdb_stdout[1] /\ (Len(gdb_stdout) = 1 => gdb_stdout' = <<>>)
    BY <1>1, <1>4, TypesOfPipes, TailFacts
  <2>2. gdb_stdin' = <<>> /\ gdb_stdout' = <<>>
    BY <1>2, <1>4, <2>1 DEF SessionInv, LettingGo
  <2>3. \A i : i \notin DOMAIN gdb_stdin' /\ i \notin DOMAIN gdb_stdout'
    BY <2>2
  <2>4. Len(breakpoints') = Len(bps') /\ \A i \in 1 .. Len(bps) : breakpoints[i] = bps[i].fn
    <3>1. ArgumentsAhead = 0 /\ RunBehind = 0 /\ Len(gdb_stdin) = 0
      BY <1>2, <2>2 DEF ArgumentsAhead, RunBehind
    <3>2. Len(bps) \in Nat
      BY <1>1, TypesOfTables
    <3> QED
      BY <1>2, <3>1, <3>2 DEF Starting, StartTables
  <2>5. app' # "gone" /\ wait' = "none"
    BY <1>2 DEF Starting
  <2>6. TablesInv'
    <3>1. Len(bps') \in Nat
      BY <1>1, <1>2, TypesOfTables
    <3> QED
      BY <1>2, <2>3, <2>4, <2>5, <3>1 DEF TablesInv, Inserting, Watched
  <2>7. CommandsInv' /\ AnswersInv' /\ WaitingInv'
    BY <2>3, <2>5 DEF CommandsInv, AnswersInv, WaitingInv
  <2> QED
    BY <1>4, <2>6, <2>7 DEF Started, Sync
<1>5. \A i \in DOMAIN code' : code'[i].do # "gdb_set_arguments"
  BY HandlersSendNone
<1>6. gdb_stdout # <<>> /\ line' = Head(gdb_stdout) =>
        line'.kind \notin {"notrunning", "end-stepping-range"}
  <2>1. gdb_stdout # <<>> => 1 \in DOMAIN gdb_stdout /\ Head(gdb_stdout) = gdb_stdout[1]
    BY <1>1, TypesOfPipes, TailFacts
  <2> QED
    BY <2>1 DEF SessionInv, LettingGo, Starting
<1>7. CASE code' \in Quiets /\ gdb_stdout' = gdb_stdout
  BY <1>3, <1>7
<1>8. CASE gdb_stdout # <<>> /\ line' = Head(gdb_stdout) /\ gdb_stdout' = Tail(gdb_stdout)
  <2>1. CASE code' \in Quiets
    BY <1>3, <1>8, <2>1
  <2>2. CASE IsStop(line')
    BY <1>4, <1>5, <1>8, <2>2
  <2>3. code' \in Quiets \/ IsStop(line')
    <3>1. \A k \in Numbered \cup {"end-stepping-range", "SIGSEGV", "function-finished", "SIGINT",
                                  "signal", "exited"} : k \in StopKinds
      BY DEF Numbered, StopKinds
    <3>2. \/ code' \in Quiets
          \/ code' = <<>>
          \/ line'.kind \in Numbered \cup {"end-stepping-range", "SIGSEGV", "function-finished",
                                           "SIGINT", "signal", "exited", "notrunning"}
      BY <1>1, DispatchIs
    <3> QED
      BY <1>6, <1>8, <3>1, <3>2 DEF IsStop, Quiets
  <2> QED
    BY <2>1, <2>2, <2>3
<1> QED
  BY <1>1, <1>7, <1>8, DispatchIs

(* Every other step before the first stop leaves the tables as they are.   *)
LEMMA StartingKept ==
  ASSUME ScriptsInOrder, OpdTypes, SessionInv, Starting, [OpdNext]_opdVars,
         blame' \subseteq {"arguments"}
  PROVE  Starting' \/ Started'
<1>1. TypeOK /\ CodeInv
  BY DEF OpdTypes
<1>2. CASE EvalGdb
  BY <1>2, StartingSends
<1>3. CASE db_logMessage \/ opd_setExit
  <2>1. /\ code # <<>> /\ code' = Tail(code)
        /\ UNCHANGED <<breakpoints, asked, wait, gdb_stdin, gdb_stdout, bps, app>>
    BY <1>3 DEF db_logMessage, opd_setExit, Evaluating, vars, opd, pipes, gdb
  <2>2. \A i \in DOMAIN code' : i + 1 \in DOMAIN code /\ code'[i] = code[i + 1] /\ i + 1 # 1
    <3>1. /\ Len(code) \in Nat \ {0} /\ DOMAIN code = 1 .. Len(code)
          /\ DOMAIN code' = 1 .. (Len(code) - 1)
          /\ \A i \in 1 .. (Len(code) - 1) : code'[i] = code[i + 1]
      BY <1>1, <2>1, TailFacts DEF CodeInv
    <3> QED
      BY <3>1
  <2>3. StartTables'
    BY <2>1 DEF Starting, StartTables, ArgumentsAhead, RunBehind
  <2> QED
    BY <2>1, <2>2, <2>3 DEF Starting
<1>4. CASE StartLoop \/ UNCHANGED opdVars
  <2>1. UNCHANGED <<code, breakpoints, asked, wait, gdb_stdin, gdb_stdout, bps, app>>
    BY <1>4 DEF StartLoop, opdVars, session, vars, opd, pipes, gdb
  <2>2. StartTables'
    BY <2>1 DEF Starting, StartTables, ArgumentsAhead, RunBehind
  <2> QED
    BY <2>1, <2>2 DEF Starting
<1>5. CASE Await
  <2>1. /\ gdb_getresponse /\ asked.op = "break" /\ UNCHANGED <<code, asked, gdb_stdin, bps, app>>
        /\ \A i \in DOMAIN gdb_stdout' : \E j \in DOMAIN gdb_stdout : gdb_stdout'[i] = gdb_stdout[j]
    <3>1. Read /\ wait = "response" /\ asked.op = "break" /\ code' = code
      BY <1>5 DEF Await, Starting, session
    <3>2. gdb_getresponse
      BY <3>1 DEF Read, ReadEvent, ReadValue, gdb_waitforprompt, ReadSigint
    <3> QED
      BY <1>1, <3>1, <3>2, ReadFrame DEF gdb
  <2>2. breakpoints' = breakpoints /\ wait' \in {"none", "response"}
    BY <2>1 DEF gdb_getresponse, AddOnDone
  <2>3. StartTables'
    BY <2>1, <2>2 DEF Starting, StartTables, ArgumentsAhead, RunBehind
  <2>4. \A i \in DOMAIN gdb_stdout' :
          gdb_stdout'[i].no <= Len(bps') /\ gdb_stdout'[i].kind # "end-stepping-range"
    BY <2>1 DEF Starting
  <2> QED
    BY <2>1, <2>2, <2>3, <2>4 DEF Starting
<1>6. CASE Dispatch
  BY <1>6, StartingReads
<1>7. CASE opd_exit
  <2>1. "exit" \in blame'
    BY <1>7 DEF opd_exit, gdb_exit
  <2> QED
    BY <2>1
<1>8. CASE GdbStep
  BY <1>8, StartingExecutes
<1>9. CASE AppStep
  BY <1>9, StartingRuns
<1> QED
  BY <1>2, <1>3, <1>4, <1>5, <1>6, <1>7, <1>8, <1>9 DEF OpdNext, OpdStep

(* Behind the first stop opd and gdb stay in step.                         *)
LEMMA StartedKept ==
  ASSUME ScriptsInOrder, OpdTypes, SessionInv, Started, [OpdNext]_opdVars,
         blame' \subseteq {"arguments"}
  PROVE  Started'
<1>1. TypeOK /\ CodeInv /\ Sync /\ \A i \in DOMAIN code : code[i].do # "gdb_set_arguments"
  BY DEF OpdTypes, Started
<1>2. ASSUME code # <<>>, code' = Tail(code)
      PROVE  \A i \in DOMAIN code' : code'[i].do # "gdb_set_arguments"
  BY <1>1, <1>2, RestOfScript DEF CodeInv
<1>3. CASE EvalGdb
  <2>1. /\ code # <<>> /\ code' = Tail(code) /\ CallsGdb(Head(code)) /\ Head(code) \in Commands
        /\ Head(code).do # "gdb_set_arguments"
    <3>1. code # <<>> /\ code' = Tail(code) /\ CallsGdb(Head(code))
      BY <1>3 DEF EvalGdb, Evaluating
    <3>2. 1 \in DOMAIN code /\ Head(code) = code[1] /\ Head(code) \in Commands
      BY <1>1, <3>1, TailFacts, SeqFacts DEF CodeInv
    <3> QED
      BY <1>1, <3>1, <3>2
  <2>2. Head(code).do \in BindOps => Head(code).arg \in Functions
    BY <2>1, BindsFunctions
  <2>3. SendInStep
    BY <2>1, <2>2 DEF CallsGdb, SendInStep, BindOps
  <2> QED
    BY <1>1, <1>2, <2>1, <2>3, SendPreserves DEF Started
<1>4. CASE db_logMessage \/ opd_setExit
  <2>1. code # <<>> /\ code' = Tail(code) /\ UNCHANGED vars
    BY <1>4 DEF db_logMessage, opd_setExit, Evaluating
  <2>2. UNCHANGED <<breakpoints, asked, wait, gdb_stdin, gdb_stdout, gdb>>
    BY <2>1 DEF vars, opd, pipes
  <2> QED
    BY <1>1, <1>2, <2>1, <2>2, SkipPreserves DEF Started
<1>5. CASE StartLoop \/ UNCHANGED opdVars
  <2>1. UNCHANGED <<code, breakpoints, asked, wait, gdb_stdin, gdb_stdout, gdb>>
    BY <1>5 DEF StartLoop, opdVars, session, vars, opd, pipes, gdb
  <2> QED
    BY <1>1, <2>1, SkipPreserves DEF Started
<1>6. CASE Await
  BY <1>1, <1>6, ReadPreserves DEF Await, session, Started
<1>7. CASE Dispatch
  <2>1. Sync'
    BY <1>1, <1>7, ReadPreserves DEF Dispatch, Read
  <2> QED
    BY <1>7, <2>1, HandlersSendNone DEF Started
<1>8. CASE opd_exit
  <2>1. "exit" \in blame'
    BY <1>8 DEF opd_exit, gdb_exit
  <2> QED
    BY <2>1
<1>9. CASE GdbStep
  BY <1>1, <1>9, ExecutePreserves DEF GdbStep, session, Started
<1>10. CASE AppStep
  BY <1>1, <1>10, AppPreserves DEF AppStep, session, Started
<1> QED
  BY <1>3, <1>4, <1>5, <1>6, <1>7, <1>8, <1>9, <1>10 DEF OpdNext, OpdStep

(* opd starts with an empty table and nothing sent.                        *)
LEMMA StartInvInitially ==
  ASSUME SetupBinds, OpdInit
  PROVE  StartInv
<1> DEFINE h == IF HasArguments THEN 1 ELSE 0
           n == Len(Setup)
<1>1. /\ n \in Nat /\ DOMAIN Setup = 1 .. n
      /\ DOMAIN code = 1 .. h + n + 2
      /\ HasArguments => code[1].do = "gdb_set_arguments"
      /\ \A i \in 1 .. n : code[h + i] = Setup[i]
      /\ code[h + n + 1].do = "log" /\ ~IsAnswer(code[h + n + 1])
      /\ code[h + n + 2].do = "gdb_start_run"
  BY SetupFacts
<1>2. h \in {0, 1} /\ (h = 1 => HasArguments)
  OBVIOUS
<1> HIDE DEF h, n
<1>3. /\ app = "none" /\ wait = "none" /\ gdb_stdin = <<>> /\ gdb_stdout = <<>> /\ bps = <<>>
      /\ breakpoints = <<>>
  <2>1. Init
    BY OpdStarts
  <2> QED
    BY <2>1 DEF Init
<1>4. ASSUME NEW i \in DOMAIN code
      PROVE  /\ code[i].do \in StartCommands /\ ~IsAnswer(code[i])
             /\ code[i].do = "gdb_set_arguments" => i = 1
  <2>1. \/ i = 1 /\ h = 1
        \/ i = h + n + 1 \/ i = h + n + 2
        \/ i - h \in 1 .. n /\ h + (i - h) = i
    BY <1>1, <1>2
  <2>2. CASE (i = 1 /\ h = 1) \/ i = h + n + 1 \/ i = h + n + 2
    BY <1>1, <1>2, <2>2 DEF StartCommands, IsAnswer
  <2>3. CASE i - h \in 1 .. n /\ h + (i - h) = i
    <3>1. code[i] = Setup[i - h] /\ i - h \in DOMAIN Setup
      BY <1>1, <2>3
    <3>2. Setup[i - h].do = "gdb_setBreakpoint"
          \/ (Setup[i - h].do = "log" /\ ~IsAnswer(Setup[i - h]))
      BY <3>1 DEF SetupBinds
    <3> QED
      BY <3>1, <3>2 DEF StartCommands, IsAnswer
  <2> QED
    BY <2>1, <2>2, <2>3
<1>5. StartTables
  <2>1. /\ Len(breakpoints) = 0 /\ Len(bps) = 0 /\ Len(gdb_stdin) = 0
        /\ ArgumentsAhead = 0 /\ RunBehind = 0
        /\ \A i \in DOMAIN gdb_stdin : FALSE
    BY <1>3 DEF ArgumentsAhead, RunBehind
  <2> QED
    BY <2>1 DEF StartTables
<1>6. \A i \in DOMAIN gdb_stdout : FALSE
  BY <1>3
<1>7. \A i \in DOMAIN code :
        /\ code[i].do \in StartCommands /\ ~IsAnswer(code[i])
        /\ code[i].do # "log" => app = "none"
        /\ code[i].do = "gdb_set_arguments" => i = 1 /\ gdb_stdin = <<>>
  BY <1>3, <1>4
<1>8. \A i \in DOMAIN gdb_stdout :
        gdb_stdout[i].no <= Len(bps) /\ gdb_stdout[i].kind # "end-stepping-range"
  BY <1>6
<1>9. app \in {"none", "continue", "stopped", "faulted", "dead"} /\ wait \in {"none", "response"}
      /\ wait # "response"
  BY <1>3
<1> QED
  BY <1>5, <1>7, <1>8, <1>9 DEF StartInv, Starting

(* A session that finds every location is never out of step for a command  *)
(* gdb refuses: neither an insertion nor a resumption fails.               *)
LEMMA NothingRefused ==
  ASSUME Unknown = {}, OpdTypes, SessionInv, GdbStep
  PROVE  blame' = blame
<1>1. TypeOK /\ GdbExecute
  BY DEF OpdTypes, GdbStep
<1>2. /\ gdb_stdin # <<>> /\ 1 \in DOMAIN gdb_stdin /\ Head(gdb_stdin) = gdb_stdin[1]
  <2>1. gdb_stdin # <<>> /\ gdb_stdin' = Tail(gdb_stdin)
    BY <1>1, GdbLines
  <2> QED
    BY <1>1, <2>1, CommandExecuted
<1>3. ~RefuseResume
  <2> SUFFICES ASSUME RefuseResume PROVE FALSE
    OBVIOUS
  <2>1. Head(gdb_stdin).op \in ExecOps \ {"run"}
    BY DEF RefuseResume, Execute
  <2>2. app = "stopped" /\ Head(gdb_stdin).op # "finish"
    BY <1>2, <2>1 DEF SessionInv, LettingGo
  <2> QED
    BY <2>2 DEF RefuseResume
<1>4. GdbInsert => blame' = blame
  <2> SUFFICES ASSUME GdbInsert PROVE blame' = blame
    OBVIOUS
  <2>1. Head(gdb_stdin).op = "break" /\ bps' # bps
    <3>1. Head(gdb_stdin).op = "break"
      BY DEF GdbInsert, Execute
    <3> QED
      BY <3>1 DEF GdbStep
  <2> QED
    BY <2>1 DEF GdbInsert
<1> QED
  BY <1>1, <1>3, <1>4
     DEF GdbExecute, GdbQuery, GdbWatch, GdbCall, Resume, ResumeFaulted, GdbExit

(* Every line with a number is a stop at a breakpoint or a watchpoint.     *)
NumbersInv ==
  \A i \in DOMAIN gdb_stdout : gdb_stdout[i].no # 0 => gdb_stdout[i].kind \in Numbered

(* The invariant of a session in which gdb finds every location: only -a   *)
(* and the exit put opd and gdb out of step, and -a only until main reads  *)
(* the first stop.                                                         *)
FoundInv == StartInv /\ NumbersInv /\ ExitBlamed /\ blame \subseteq {"arguments", "exit"}

(* It holds before the first command.                                      *)
LEMMA FoundInvInitially ==
  ASSUME SetupBinds, OpdInit
  PROVE  FoundInv
<1>1. blame = {} /\ gdb_stdout = <<>>
  BY OpdStarts DEF Init
<1>2. \A i \in DOMAIN gdb_stdout : FALSE
  BY <1>1
<1> QED
  BY <1>1, <1>2, StartInvInitially DEF FoundInv, NumbersInv, ExitBlamed

(* Every step keeps it.                                                    *)
LEMMA FoundInvKept ==
  ASSUME ScriptsInOrder, Unknown = {}, OpdTypes, SessionInv, FoundInv, [OpdNext]_opdVars
  PROVE  FoundInv'
<1>1. TypeOK /\ CodeInv
  BY DEF OpdTypes
<1>2. blame \subseteq blame' /\ ExitBlamed'
  BY <1>1, BlameGrows DEF FoundInv
<1>3. StartInv'
  <2> SUFFICES ASSUME blame' \subseteq {"arguments"} PROVE Starting' \/ Started'
    BY DEF StartInv
  <2>1. Starting \/ Started
    BY <1>2 DEF FoundInv, StartInv
  <2> QED
    BY <2>1, StartingKept, StartedKept
<1>4. NumbersInv' /\ blame' \subseteq {"arguments", "exit"}
  <2>1. CASE EvalGdb
    BY <1>1, <2>1, EvalFacts DEF FoundInv, NumbersInv
  <2>2. CASE db_logMessage \/ opd_setExit \/ StartLoop \/ UNCHANGED opdVars
    BY <2>2 DEF db_logMessage, opd_setExit, StartLoop, opdVars, vars, pipes, FoundInv, NumbersInv
  <2>3. CASE Await \/ Dispatch
    <3>1. Read
      BY <2>3 DEF Await, Dispatch, Read
    <3>2. /\ \A i \in DOMAIN gdb_stdout' :
               \E j \in DOMAIN gdb_stdout : gdb_stdout'[i] = gdb_stdout[j]
          /\ blame' = blame
      BY <1>1, <3>1, ReadFrame
    <3> QED
      BY <3>2 DEF FoundInv, NumbersInv
  <2>4. CASE opd_exit
    BY <2>4 DEF opd_exit, gdb_exit, Fire, Write, FoundInv, NumbersInv
  <2>5. CASE GdbStep
    <3>1. GdbExecute /\ blame' = blame
      BY <2>5, NothingRefused DEF GdbStep
    <3>2. /\ Len(gdb_stdout) <= Len(gdb_stdout') /\ gdb_stdout' \in Seq(Line)
          /\ \A i \in 1 .. Len(gdb_stdout) : gdb_stdout'[i] = gdb_stdout[i]
          /\ \A i \in Len(gdb_stdout) + 1 .. Len(gdb_stdout') : gdb_stdout'[i].no = 0
      BY <1>1, <3>1, GdbLines
    <3>3. /\ Len(gdb_stdout) \in Nat /\ DOMAIN gdb_stdout = 1 .. Len(gdb_stdout)
          /\ Len(gdb_stdout') \in Nat /\ DOMAIN gdb_stdout' = 1 .. Len(gdb_stdout')
      BY <1>1, <3>2, TypesOfPipes, SeqFacts
    <3>4. \A i \in DOMAIN gdb_stdout' : \/ i \in 1 .. Len(gdb_stdout)
                                        \/ i \in Len(gdb_stdout) + 1 .. Len(gdb_stdout')
      BY <3>3
    <3> QED
      BY <3>1, <3>2, <3>3, <3>4 DEF FoundInv, NumbersInv
  <2>6. CASE AppStep
    <3>1. /\ blame' = blame
          /\ \/ gdb_stdout' = gdb_stdout
             \/ \E l \in Line : /\ gdb_stdout' = Append(gdb_stdout, l)
                                /\ l.kind \notin Numbered => l.no = 0
      BY <1>1, <2>6, AppLines DEF AppStep
    <3>2. ASSUME NEW l \in Line, gdb_stdout' = Append(gdb_stdout, l), l.no # 0 => l.kind \in Numbered
          PROVE  NumbersInv'
      <4>1. \A i \in DOMAIN gdb_stdout' :
              \/ i \in DOMAIN gdb_stdout /\ gdb_stdout'[i] = gdb_stdout[i]
              \/ gdb_stdout'[i] = l
        BY <1>1, <3>2, TypesOfPipes, AppendFacts
      <4> QED
        BY <3>2, <4>1 DEF FoundInv, NumbersInv
    <3> QED
      BY <3>1, <3>2 DEF FoundInv, NumbersInv
  <2> QED
    BY <2>1, <2>2, <2>3, <2>4, <2>5, <2>6 DEF OpdNext, OpdStep
<1> QED
  BY <1>2, <1>3, <1>4 DEF FoundInv

(* Before the first stop nothing is at hand to tell that opd and gdb are   *)
(* out of step: no answer to log, no step, and every number is in opd's    *)
(* table.                                                                  *)
LEMMA FoundInStep ==
  ASSUME OpdTypes, FoundInv
  PROVE  InStep({"arguments"})
<1> SUFFICES ASSUME Starting PROVE Loose
  BY DEF FoundInv, StartInv, Started, InStep
<1>1. TypeOK
  BY DEF OpdTypes
<1>2. Len(bps) <= Len(breakpoints)
  <2>1. \A d, k, a, r \in Nat : a + r <= k => d <= d + (k - a - r)
    OBVIOUS
  <2>2. ArgumentsAhead \in Nat /\ RunBehind \in Nat /\ Len(gdb_stdin) \in Nat /\ Len(bps) \in Nat
    BY <1>1, PipeEnds, TypesOfPipes, TypesOfTables
  <2>3. Len(breakpoints) = Len(bps) + (Len(gdb_stdin) - ArgumentsAhead - RunBehind)
    BY DEF Starting, StartTables
  <2>4. ArgumentsAhead + RunBehind <= Len(gdb_stdin)
    BY <1>1, PipeEnds
  <2> QED
    BY <2>1, <2>2, <2>3, <2>4
<1>3. ASSUME NEW i \in DOMAIN gdb_stdout
      PROVE  gdb_stdout[i].no <= Len(breakpoints)
  <2>1. gdb_stdout[i].no <= Len(bps) /\ gdb_stdout[i] \in Line
    BY <1>1, TypesOfPipes DEF Starting
  <2>2. gdb_stdout[i].no \in Nat /\ Len(bps) \in Nat /\ Len(breakpoints) \in Nat
    BY <1>1, <2>1, TypesOfTables DEF Line
  <2> QED
    BY <1>2, <2>1, <2>2
<1>4. ~StepPending
  BY DEF Starting, StartTables, StepPending
<1> QED
  BY <1>3, <1>4 DEF Loose, Starting

(* opd's table has the function of every stop that is unread: in step with *)
(* gdb, before the first stop, and when the session is over, since then    *)
(* none is.                                                                *)
LEMMA FoundAsBound ==
  ASSUME OpdTypes, SessionInv, FoundInv
  PROVE  /\ CalledAsBound
         /\ \A i \in DOMAIN gdb_stdout : gdb_stdout[i].no # 0 => gdb_stdout[i].no \in DOMAIN bps
<1> SUFFICES ASSUME NEW i \in DOMAIN gdb_stdout, gdb_stdout[i].no # 0
             PROVE  /\ gdb_stdout[i].no \in DOMAIN bps
                    /\ gdb_stdout[i].no \in DOMAIN breakpoints
                    /\ breakpoints[gdb_stdout[i].no] = bps[gdb_stdout[i].no].fn
  BY DEF CalledAsBound
<1> DEFINE n == gdb_stdout[i].no
<1>1. TypeOK
  BY DEF OpdTypes
<1>2. IsStop(gdb_stdout[i])
  BY DEF FoundInv, NumbersInv, Numbered, IsStop, StopKinds
<1>3. n \in Nat
  <2>1. gdb_stdout[i] \in Line
    BY <1>1, TypesOfPipes
  <2> QED
    BY <2>1 DEF Line
<1>4. "exit" \notin blame
  BY <1>2 DEF FoundInv, ExitBlamed, SessionInv, OnRecord, Held, StopUnread
<1>5. /\ Len(bps) \in Nat /\ Len(breakpoints) \in Nat
      /\ DOMAIN breakpoints = 1 .. Len(breakpoints) /\ DOMAIN bps = 1 .. Len(bps)
  BY <1>1, TypesOfTables
<1> HIDE DEF n
<1>6. CASE Started
  <2>1. n <= Len(breakpoints) /\ n <= Len(bps)
    BY <1>6 DEF Started, Sync, TablesInv, n
  <2>2. \A k \in 1 .. Len(breakpoints) : k <= Len(bps) => breakpoints[k] = bps[k].fn
    BY <1>6 DEF Started, Sync, TablesInv
  <2>3. n # 0
    BY DEF n
  <2>4. n \in 1 .. Len(breakpoints) /\ n \in 1 .. Len(bps)
    BY <1>3, <1>5, <2>1, <2>3
  <2> QED
    BY <1>5, <2>1, <2>2, <2>4 DEF n
<1>7. CASE Starting
  <2>1. n <= Len(bps) /\ n # 0
    BY <1>7 DEF Starting, n
  <2>2. n \in 1 .. Len(bps)
    BY <1>3, <1>5, <2>1
  <2>3. breakpoints[n] = bps[n].fn
    BY <1>7, <2>2 DEF Starting, StartTables
  <2>4. gdb_stdin = <<>> /\ Len(gdb_stdin) = 0
    BY <1>2 DEF SessionInv, LettingGo
  <2>5. ArgumentsAhead = 0 /\ RunBehind = 0
    BY <2>4 DEF ArgumentsAhead, RunBehind
  <2>6. Len(breakpoints) = Len(bps)
    BY <1>5, <1>7, <2>4, <2>5 DEF Starting, StartTables
  <2> QED
    BY <1>5, <2>2, <2>3, <2>6 DEF n
<1> QED
  BY <1>4, <1>6, <1>7 DEF FoundInv, StartInv

(* FoundInv in every session.                                              *)
LEMMA FoundInvariant ==
  ASSUME ScriptsInOrder, SetupBinds, Unknown = {}
  PROVE  OpdSpec => []FoundInv
<1>1. OpdInit => FoundInv
  BY FoundInvInitially
<1>2. OpdTypes /\ SessionInv /\ FoundInv /\ [OpdNext]_opdVars => FoundInv'
  BY FoundInvKept
<1> QED
  BY <1>1, <1>2, SessionInvariant, PTL DEF OpdSpec

(* With opd -a or without it, main calls the procedure that was bound to   *)
(* the breakpoint gdb reports, in every session of a script whose          *)
(* procedures write a row and let the application go once, whose setup     *)
(* binds breakpoints, and whose locations gdb finds.                       *)
THEOREM AlwaysCalledAsBound ==
  ASSUME ScriptsInOrder, SetupBinds, Unknown = {}
  PROVE  OpdSpec => []CalledAsBound
<1>1. OpdTypes /\ SessionInv /\ FoundInv => CalledAsBound
  BY FoundAsBound
<1> QED
  BY <1>1, SessionInvariant, FoundInvariant, PTL

(* Every row such a session writes as an answer holds the line with which  *)
(* gdb answered the command before it.                                     *)
THEOREM RowsAlwaysAnswers ==
  ASSUME ScriptsInOrder, SetupBinds, Unknown = {}, \A p \in Procedures : AnswersFollow(p)
  PROVE  OpdSpec => []RowsAreAnswers
<1> DEFINE B == {"arguments"}
<1>0. "exit" \notin B
  OBVIOUS
<1>1. OpdInit => RowsInv(B)
  BY RowsInvInitially
<1>2. OpdTypes /\ InStep(B) /\ RowsInv(B) /\ [OpdNext]_opdVars => RowsInv(B)'
  BY <1>0, RowsInvKept
<1>3. OpdTypes /\ FoundInv => InStep(B)
  BY FoundInStep
<1>4. FoundInv /\ RowsInv(B) => RowsAreAnswers
  BY DEF FoundInv, RowsInv
<1> HIDE DEF B
<1> QED
  BY <1>1, <1>2, <1>3, <1>4, OpdTypesInvariant, FoundInvariant, PTL DEF OpdSpec

(* And main never dereferences NULL in it.                                 *)
THEOREM AlwaysDispatches ==
  ASSUME ScriptsInOrder, SetupBinds, Unknown = {}, \A p \in Procedures : StepsAwaited(p)
  PROVE  OpdSpec => []NeverCrashes
<1> DEFINE B == {"arguments"}
<1>0. "exit" \notin B
  OBVIOUS
<1>1. OpdInit => StepsInv(B)
  BY StepsInvInitially
<1>2. OpdTypes /\ InStep(B) /\ StepsInv(B) /\ [OpdNext]_opdVars => StepsInv(B)'
  BY <1>0, StepsInvKept
<1>3. OpdTypes /\ FoundInv => InStep(B)
  BY FoundInStep
<1>4. FoundInv /\ StepsInv(B) => NeverCrashes
  BY DEF FoundInv, StepsInv
<1> HIDE DEF B
<1> QED
  BY <1>1, <1>2, <1>3, <1>4, OpdTypesInvariant, FoundInvariant, PTL DEF OpdSpec
=============================================================================
