------------------------------- MODULE OpdTcl -------------------------------
(***************************************************************************)
(* The Tcl side of opd: the commands opd.c gives its interpreter, and the  *)
(* procedures of src/share/opd.tcl as sequences of those commands.         *)
(*                                                                         *)
(* A procedure is written as what it makes gdbmi.c and dblog.c do, in      *)
(* order; "set output [gdb_lastOutput]; db_logMessage key $output" is one  *)
(* "log" of the last line read.  Its last argument says what the author of *)
(* the procedure logs: the line that was dispatched ("event"), the answer  *)
(* to the command before ("answer") or a text of his own ("text").         *)
(***************************************************************************)
EXTENDS Integers, Sequences

Cmd(do, arg) == [do |-> do, arg |-> arg]

Log(key, x, of)   == Cmd("log", <<key, x, of>>)
Break(proc, x)    == Cmd("gdb_setBreakpoint", <<proc, x>>)
Watch(proc, x)    == Cmd("gdb_setWatchpoint", <<proc, x>>)
Step(proc, x)     == Cmd("gdb_step", <<proc, x>>)
Query(what, x)    == Cmd("query", <<what, x>>)
Do(command)       == Cmd(command, <<"", "">>)

opd_dispatchStdErr == <<Log("opd.stdErr", "", "event")>>

opd_dispatchGDB == <<Log("opd.gdb", "", "event")>>

opd_dispatchStdOut == <<Log("opd.stdOut", "", "event")>>

opd_dispatchOther == <<Log("opd.Unknwn", "", "event"), Do("opd_setExit")>>

(* Mutants: the application is let go before the stack is taken; opd is    *)
(* not told to exit.                                                       *)
opd_dispatchSigSegResumes == <<Log("opd.SEGFAULT", "", "event"), Do("gdb_continue"),
                               Query("stack", ""), Log("opd.SEGFAULT", "stack", "answer"),
                               Do("opd_setExit")>>
opd_dispatchSigSegStays == <<Log("opd.SEGFAULT", "", "event"),
                             Query("stack", ""), Log("opd.SEGFAULT", "stack", "answer"),
                             Query("locals", ""), Log("opd.SEGFAULT", "locals", "answer")>>

opd_dispatchSigSeg == <<Log("opd.SEGFAULT", "", "event"),
                        Query("stack", ""), Log("opd.SEGFAULT", "stack", "answer"),
                        Query("locals", ""), Log("opd.SEGFAULT", "locals", "answer"),
                        Do("opd_setExit")>>

opd_dispatchPrgExt == <<Log("opd.PrgExt", "", "event")>>

NoLocation == ""

(* Bound to a breakpoint at main, before the application is started.       *)
opd_processscript == <<Break("opd_breakscript", NoLocation)>>

----------------------------------------------------------------------------
(* opd_readscript reads a debugging specification: lines                   *)
(*   [kind |-> "bp",    at |-> a location, items |-> its expressions]      *)
(*   [kind |-> "watch", at |-> a location, items |-> <<a variable>>]       *)
(*   [kind |-> "item",  at |-> "",         items |-> <<an expression>>]    *)
(* where a blank line is an item whose expression is empty; comments do    *)
(* nothing and are left out.  Reading keeps the expressions of every       *)
(* location, the location the next item belongs to, and what was done; an  *)
(* item before the first @bp is a Tcl error, which ends opd_readscript     *)
(* and opd_breakscript where they are.  An empty value is not logged.      *)

OnRank0(rank, commands) == IF rank = 0 THEN commands ELSE <<>>

ReadStart(locations) ==
  [items |-> [x \in locations |-> <<>>], watched |-> [x \in locations |-> ""],
   last |-> NoLocation, done |-> <<>>, failed |-> FALSE]

ReadBp(r, l, rank) ==
  [r EXCEPT !.items[l.at] = l.items,
            !.last = l.at,
            !.done = @ \o OnRank0(rank, <<Log("opd.spec.breakpoint.set", l.at, "text")>>)
                       \o OnRank0(rank, [i \in DOMAIN l.items |->
                                           Log("opd.spec.breakpoint.set.item",
                                               <<l.at, l.items[i]>>, "text")])
                       \o <<Break("script_bp", l.at), Log("opd.breakpoint.set", l.at, "answer")>>]

ReadWatch(r, l, rank) ==
  [r EXCEPT !.watched[l.at] = l.items[1],
            !.done = @ \o <<Break("script_bp_wa", l.at)>>
                       \o OnRank0(rank, <<Log("opd.spec.watchpoint.set", l.at, "text")>>)]

ReadItem(r, l, rank) ==
  IF r.last = NoLocation
    THEN [r EXCEPT !.failed = TRUE]
    ELSE [r EXCEPT !.items[r.last] = @ \o l.items,
                   !.done = @ \o IF l.items = <<"">> THEN <<>> ELSE OnRank0(rank,
                                    <<Log("opd.spec.breakpoint.set.item",
                                          <<r.last, l.items[1]>>, "text")>>)]

ReadLine(r, l, rank) ==
  IF r.failed THEN r
  ELSE CASE l.kind = "bp"    -> ReadBp(r, l, rank)
         [] l.kind = "watch" -> ReadWatch(r, l, rank)
         [] l.kind = "item"  -> ReadItem(r, l, rank)

opd_readscript(spec, rank) ==
  LET locations == {spec[i].at : i \in DOMAIN spec}
      read[i \in 0 .. Len(spec)] ==
        IF i = 0 THEN ReadStart(locations) ELSE ReadLine(read[i - 1], spec[i], rank)
  IN  read[Len(spec)]

opd_breakscript(spec, rank) ==
  LET r == opd_readscript(spec, rank)
  IN  IF r.failed THEN r.done
      ELSE r.done \o <<Log("opd.spec.done", "", "text"), Do("gdb_continue")>>

----------------------------------------------------------------------------
(* What the breakpoints and watchpoints of the specification are bound to. *)

script_bp(x, items) ==
  <<Log("opd.spec.breakpoint", x, "event"),
    Query("stack", ""), Log("opd.spec.breakpoint", x, "answer")>>
    \o [i \in 1 .. 2 * Len(items) |->
          IF i % 2 = 1 THEN Query("eval", items[(i + 1) \div 2])
                       ELSE Log("opd.spec.breakpoint.item", <<x, items[i \div 2]>>, "answer")]
    \o <<Do("gdb_continue")>>

script_bp_wa(x) ==
  <<Watch("script_wa_up", x), Log("opd.spec.watchpoint.start", x, "text"), Do("gdb_continue")>>

(* Mutants: no gdb_continue; gdb_continue before the row.                  *)
script_wa_upStays(x, item) == <<Log("opd.spec.watchpoint", <<x, item>>, "event")>>
script_wa_upHurries(x, item) ==
  <<Do("gdb_continue"), Log("opd.spec.watchpoint", <<x, item>>, "event")>>

script_wa_up(x, item) ==
  <<Log("opd.spec.watchpoint", <<x, item>>, "event"), Do("gdb_continue")>>

(* The procedures a specification makes opd call, and their names.         *)
SpecFunctions(spec) ==
  {<<"opd_breakscript", NoLocation>>}
    \cup {<<p, spec[i].at>> : p \in {"script_bp"},
                              i \in {j \in DOMAIN spec : spec[j].kind = "bp"}}
    \cup {<<p, spec[i].at>> : p \in {"script_bp_wa", "script_wa_up"},
                              i \in {j \in DOMAIN spec : spec[j].kind = "watch"}}

SpecProc(spec, rank) ==
  [f \in SpecFunctions(spec) |->
    CASE f[1] = "opd_breakscript" -> opd_breakscript(spec, rank)
      [] f[1] = "script_bp"       -> script_bp(f[2], opd_readscript(spec, rank).items[f[2]])
      [] f[1] = "script_bp_wa"    -> script_bp_wa(f[2])
      [] f[1] = "script_wa_up"    -> script_wa_up(f[2], opd_readscript(spec, rank).watched[f[2]])]

----------------------------------------------------------------------------
(* What the theorems about sessions ask of a procedure p.  opd.c checks    *)
(* none of it: it evaluates whatever a script says.                        *)

Asks    == {"query", "gdb_setBreakpoint", "gdb_setWatchpoint"}
Resumes == {"gdb_continue", "gdb_stepNext", "gdb_step", "gdb_stepFinish"}

IsAnswer(c) == c.do = "log" /\ c.arg[3] = "answer"

(* What p logs as an answer is the last thing it asked for.                *)
AnswersFollow(p) ==
  \A i \in DOMAIN p : IsAnswer(p[i]) =>
    i > 1 /\ (p[i - 1].do \in Asks \/ IsAnswer(p[i - 1]))

(* p asks for something after gdb_stepNext, and so reads over the stop.    *)
StepsAwaited(p) ==
  \A i \in DOMAIN p : p[i].do = "gdb_stepNext" =>
    i < Len(p) /\ p[i + 1].do \in Asks \cup {"gdb_call", "gdb_setPID"}

(* p does not end the session, nor use gdb_stepFinish: its stop is one of  *)
(* those for which main has opd_dispatchOther only, which ends it.         *)
NeverExits(p) == \A i \in DOMAIN p : p[i].do \notin {"opd_setExit", "gdb_stepFinish"}

(* p lets the application go at most once, and then only logs.             *)
ResumesOnce(p) ==
  \A i, k \in DOMAIN p : p[i].do \in Resumes /\ i < k => p[k].do = "log"

(* p writes a row, and before it lets the application go.                  *)
Records(p) ==
  \E i \in DOMAIN p : p[i].do = "log" /\ \A k \in 1 .. i : p[k].do \notin Resumes

(* p leaves the rows of segreport to opd_dispatchSigSeg.                   *)
IsFaultRow(c)   == c.do = "log" /\ c.arg[1] = "opd.SEGFAULT"
NoFaultRows(p)  == \A i \in DOMAIN p : ~IsFaultRow(p[i])
============================================================================
