# GDBase: a verification project

GDBase is an offline parallel debugger. Every process of an MPI job runs under
a small driver, `opd`, which runs the application under gdb, evaluates a Tcl
script at its stops and writes what it learns to a local SQLite file. When the
job is over, `dbmerge` copies the files of all processes into a PostgreSQL
database, and Python analyses read the database.

This directory holds TLA+ models of that program, the TLC configurations that
check them on small instances, and TLAPS proofs that hold for every script,
every debugging specification, every environment and jobs of any size.
`PROJECT.json` lists runs, mutants, the source lines behind every definition,
findings, hazards and theorems.

To check: `tlc -config X.cfg M` for the pairs below, `tlapm M_proofs.tla` for
each of the modules of proofs.

## 1. The system

| component | source | state | operations |
|---|---|---|---|
| gdbmi | `src/src/gdbmi.c` | table of breakpoint functions, `step_function`, `child_pid`, the last line, three pipes | one function per gdb command; the reading loops `gdb_getresponse`, `gdb_call`, `gdb_waitforEvent`; `gdb_next_event` |
| opd | `src/src/opd.c` | options, rank and size, `exitflag`, the Tcl interpreter | set-up, the event loop, `opd_exit`, the alarm handler |
| opd.tcl | `src/share/opd.tcl` | the parsed debugging specification | one procedure per kind of event; `opd_readscript`, `script_bp`, `script_bp_wa`, `script_wa_up` |
| agents | `src/share/*.tcl` | counters | scripts for `opd -s` |
| dblog | `src/src/dblog.c` | the file `gdblog-App.RANK` | open, `db_logMessage`, close |
| vector | `src/src/vector.c` | a growable array | add, get, find, grow |
| dbmerge | `src/src/dbmerge.c` | one transaction | connect, begin, read every file, commit or roll back |
| baseexec | `src/bin/baseexec` | none | mpiexec, dbmerge, rm, gdbase |
| gdbase and the analyses | `src/bin/gdbase`, `src/share/*.py` | cursors over the messages of a job | parse records, iterate over breakpoints and watchpoints, match messages, report |
| findexec | `src/src/findexec.c` | none | look for a program in PATH; follow its links to the installation |

How they interact. opd forks gdb and talks to it over three pipes: commands to
gdb's standard input, records and the application's output from its standard
output, and both programs' errors from its standard error. opd has one thread:
`main` reads one event, evaluates the Tcl procedure for it, and reads the next
one; with `-t` the signal of an alarm suspends it and runs `catch_alarm`, which
reads from the same pipes. A procedure calls back into gdbmi.c. Some of these calls write a command
and return (`gdb_continue`, `gdb_stepNext`, ...); others stay in a loop that
reads lines until the answer is there, and throw the other lines away. The
processes of a job share the working directory from the start, where each
removes and creates a file under the rank it believes to be its own, and meet
again at the end: an `abort()` of one ends the job, and dbmerge reads the files
one rank after the other.

What is hard about it:

* **three processes, no framing.** opd recognises an answer by text in a line,
  not by the number of the command. A reply nobody reads is taken for the
  answer to a later command; a stop that arrives while a loop waits is lost to
  the main loop.
* **two tables that must agree.** gdb numbers breakpoints and watchpoints as
  they are inserted; opd finds the Tcl function of a stop by indexing its own
  table with gdb's number.
* **a second thread of control.** The alarm strikes main or a reading loop; its
  handler takes lines the suspended loop was waiting for, closes what it was
  writing to, and returns into it.
* **waiting for ever.** Whether opd ends depends on every procedure resuming the
  application, on every command being answered, and on an error in a procedure
  not skipping its `gdb_continue`.
* **failure halfway.** A fault is three rows and two round trips to gdb; the
  abort of one process can cut those of another short; a merge can fail at any
  row; files outlive the run they belong to.

What makes each component correct:

* *gdbmi*: a stop leads to the function bound to it; an answer is paired with its
  command; no reply is left over; a reading loop returns.
* *opd and opd.tcl*: every stop is recorded before the application runs again, in
  order; a fault is reported with the stack and the locals taken at the fault;
  the session ends, and aborts the job only after a crash.
* *the alarm*: a timeout leaves the stop and the stack behind and ends opd, and
  disturbs no other row.
* *the start of a job*: the processes agree on the job and on its files.
* *agents and scripts*: rows hold the answers they are meant to hold.
* *dbmerge*: a job is whole or absent, ordered by rank and by time; it holds the
  rows of its own processes.
* *analyses*: the rows they combine belong together; what they read back are the
  stops that were logged.

## 2. The modules

| module | models |
|---|---|
| `GdbMI` | gdbmi.c with the most general caller; gdb and the application as its environment |
| `OpdTcl` | the procedures of opd.tcl as sequences of commands; reading a debugging specification |
| `Opd` | opd.c's main: EXTENDS `GdbMI` and `OpdTcl`, evaluates the procedures of a script, and restricts the caller of `GdbMI` to them |
| `OpdAlarm` | `Opd` with `-t`: the alarm and its handler, which suspend a session and return into it |
| `Session` | the abstract promise of a debugging session, which `Opd` is checked to implement |
| `Agents` | the agents `single_step` and `deadlock`, and the example script of docs/USAGE |
| `MessageLog` | gdbase.py's iterators over the rows of a specification; EXTENDS `Opd`, whose log they read |
| `Vector`, `Table` | vector.c; `GdbMI` with its breakpoints in a vector |
| `FindExec`, `Startup` | findexec.c; opd.c's main up to the opening of the log, in all processes of a job |
| `Pipeline` | the processes of a job and their files, the shell (baseexec or by hand), dbmerge, and what segreport reads |
| `GdbMI_proofs`, `Table_proofs` | proofs about gdbmi.c and vector.c |
| `Opd_proofs`, `Session_proofs`, `OpdTcl_proofs`, `OpdAlarm_proofs` | proofs about sessions of any script: what opd does to gdbmi.c, its rows and its end; the refinement of `Session`; debugging specifications; sessions with `-t` |
| `Startup_proofs`, `Pipeline_proofs` | proofs about the start of a job and about its merge |
| `MCSpecFile`, `MCAgents`, `MCAlarm`, `MCStartup`, `MCPipeline` | the instances TLC checks |

### GdbMI

The variables are the code's globals (`breakpoints`, `step_function`,
`child_pid`, the `line` buffer, the last `event`), the three pipes, and gdb's
and the application's state. `wait` says which reading loop opd is in: a
function that reads its answer is split into the write (`Ask`) and one step per
`gdb_next_event` (`gdb_getresponse`, `ReadValue`, `gdb_waitforprompt`,
`ReadSigint`), so gdb and the application move between any two lines. Functions
that only write are `Fire`.

A line is reduced to its kind, the id of the command it answers (0 for none) and
the breakpoint number in it. `EventOfKind` is the chain of `strstr` tests of
`gdb_next_event`. gdb prints "(gdb)" after a group of records; the model reads it
with the record before it, because only `gdb_call`'s last loop looks at prompts.
The code looks for these texts anywhere in a line: `gdb_getresponse` ends on
whatever contains `^done` or `^error`, and `gdb_call` takes any line with a
" = " for its value (gdbmi.c:125), the application's own output included. In the
model a line has one kind, and an `output` line is no record and has no value.
So `OwnAnswer`, and what rests on it, assumes an application that writes no such
line while a procedure waits for an answer.
gdb is the synchronous gdb 6.8 the code was written for: it reads no command
while the application runs. gdb may refuse an insertion or a resumption, and the
application may stop, be signalled, write or exit at any time it runs.

`blame` is history: it collects what the code does not handle and which puts opd
and gdb out of step - a location gdb refuses (`insert`), a resumption gdb refuses
(`exec`), the unread reply to `-exec-arguments` (`arguments`), and `-gdb-exit`
(`exit`). The properties of `GdbMI` hold while `blame` is empty; the runs named
after the findings show what happens when it is not.

### OpdTcl, Opd, Agents

A Tcl procedure is the sequence of the gdbmi.c and dblog.c calls it makes. The
step `EvalGdb` runs the next call of the procedure under evaluation through the
action of `GdbMI` with the same name; `db_logMessage` appends a row that
remembers the line it holds (`line`) and the command last asked (`asked`), which
is what "this row is the answer to that command" means. `Dispatch` is one turn
of the event loop up to the evaluation, with the switch as `Handler`; a NULL
function or a missing table entry leads to the phase `crashed`. `opd_exit`
closes, tells gdb to exit and aborts when `exitflag` is 1.

`opd_readscript` is a recursive function over the lines of the specification,
which yields both the commands it issues and the items of every breakpoint; a
Tcl error stops it, and with it `opd_breakscript` before its `gdb_continue`.

opd.c evaluates whatever a script says. What the theorems about sessions ask of
a procedure is defined at the end of `OpdTcl`: an answer is logged behind its
question (`AnswersFollow`); something is asked after a `gdb_stepNext`, so that
its stop does not reach main (`StepsAwaited`); the session is not ended
(`NeverExits`); the application is let go at most once, and only rows follow
(`ResumesOnce`); a row is written before that (`Records`); and the rows of a
fault are left to opd.tcl (`NoFaultRows`).

An agent's counters and the values it logs are left out.

### OpdAlarm

`AlarmStrikes` suspends opd in a `select` with nothing to read: in main, or in
any reading loop a procedure has entered. It pushes the frame of what was
interrupted and evaluates `catch_alarm`: the interrupt, the procedure
`opd_dispatchInterrupt`, `db_close`, `gdb_exit`, and `return`. `Return` restores
the frame, and the interrupted `select` returns -1: main takes that for an event
without a case, `gdb_getresponse` looks at the line as the handler left it, and
`gdb_call`'s loops go on. What opd then does to the closed database may fail or
crash (`LogRefused`, `ClosedCrashes`: sqlite looks at freed memory), and a
command to a gdb that is gone breaks the pipe (`PipeBroken`). A timeout is at
least a second, and opd spends its seconds in that `select`; the model follows
the first alarm of a session.

### MessageLog

A row of the log of `Opd` is known to an analysis by its key, a sequence of
parts separated by dots: a location or an expression with a dot in it is several
parts (`Parts`), and the database compares beginnings (`Begins`). `Breakpoints`
reads the description that rank 0 logged, then, for a row of a stop, one row for
every expression of its location, and goes on behind the last; an unknown
location is a KeyError and a missing row a TypeError (`Raised`). `Watchpoints`
skips two kinds of rows and returns what it has seen of each of the others
(`Seen`): the row's gdb record, and as variable and location the two last parts
of its key, so `g.c:10` comes back as `c:10`. The rows are those of one rank, in the order of their
ids. That an underscore is a wildcard of LIKE is left out. `KeysAssumption` says
what a key is: its last name has a part, if an empty one, and "breakpoint" is no
beginning of "watchpoint". `ToldApart` is what an analysis of changes asks of a
specification: that no watched place is taken for the rows of the setup.

### Vector and Table

`Vector` is the array as allocated: `cap` words, of which `size` are in use.
`Table` adds to `GdbMI` a vector that is filled where `GdbMI` appends to its
sequence, and looks a stop up in it with gdb's number (`gdb_dispatch`).

### FindExec and Startup

One environment `env` for the job (a command line and variables, the
directories of PATH and what they hold), one program counter per process, and
the files of the working directory as the process that made each. A path name is
reduced to its directory; PATH is searched one element per step, and an empty
element, which the code never steps over, is a state without an action.
`CopyGarbage` and `FollowLink` have the outcomes of a buffer that was never
written or not ended: a crash, or a name that leads to no file (`Nowhere`), which
the code then follows for ever. `LinkAssumption` says that these names are not
directories with links of their own. `Installed` is the reference definition of
what that search should find: the directory, closed under the links that lead
from the first opd of PATH, in which a file and no link lies.
`identify` finds rank and size as the code does: the first variable of each list
that is set, and the one the switch names only if none is. `exists`, `remove`
and `db_open` are separate steps, so processes interleave between them.

### Session

`state`, `trace` (stops as reported) and `journal` (stops as recorded). Its one
rule is that the application is resumed only when the journal has caught up with
the trace and the last stop was not fatal. `Opd` implements it with `trace` as a
history of gdb's output and `journal` as the stops whose handler has written its
first row.

### Pipeline

One variable per rank for the opd process and for its file, the remaining
commands of the shell, dbmerge's program counter and the uncommitted rows
`staged`. A process may end before it touches its file (`opd_refuses`), after
removing it (`opd_open`), or be killed between any two rows. dbmerge takes one
step per file and per row and can fail at each; any result of `sqlite3_step` but
a row ends the file, as in the code. baseexec calls opd without `-e`, so its opd
always refuses; by hand, the third command of docs/USAGE does not match the
files' names. Both are modelled as the commands really behave. `Contents` is the
reference definition of what a merge should commit: the files one behind the
other, up to the first rank without one. The histories `misread` and
`failed` are what `LosesOnlyUnmerged` excepts.

## 3. The runs

| run | module, cfg | shows |
|---|---|---|
| `mi` | Table, Table.cfg | dispatch is sound, by gdb's number and through the vector, answers are own, nothing is stale, `gdb_getresponse` returns; 3 commands, 2 events, two functions |
| `spec_file` | MCSpecFile, MCSpecFile.cfg | a debugging specification with a breakpoint, two expressions and two watchpoints, one of them at a line of a file, with `-a`: implements `Session`, reports faults, ends, dispatches as bound, and is read back by gdbase.py's iterators; 4 events |
| `steps` | MCAgents, MCSteps.cfg | `single_step.tcl` and a method with `gdb_stepFinish`; 4 events |
| `alarm` | MCAlarm, MCAlarm.cfg | `deadlock.tcl` with two call types and `-t`, in an application that may run for ever: a timeout is reported and ends opd, other rows stay answers; 3 events |
| `startup` | MCStartup, MCStartup.cfg | three processes in 33 environments: a file of their own; agreement on the job, or rank 0 differs for want of the size; the installation of the first opd of PATH; and an end in running, refusing or a named dead end (`DeadEnd`) |
| `pipeline` | MCPipeline, MCPipeline.cfg | two jobs of up to two processes, baseexec and by hand, any failure: merges are whole, reports are of one fault, and the removal of the files loses only what failed to be merged |
| `blank_line` | MCSpecFile, MCSpecFileBlank.cfg | finding: a blank line before the first `@bp` |
| `unknown_location` | MCSpecFile, MCSpecFileUnknown.cfg | finding: the tables drift apart |
| `deadlock_fault` | MCAgents, MCDeadlockFault.cfg | finding: a fault swallowed by a query |
| `step_finish` | MCAgents, MCUserFinish.cfg | finding: a finished step aborts the job |
| `stale_files` | MCPipeline, MCPipelineStale.cfg | finding: rows of an earlier job |
| `two_faults` | MCPipeline, MCPipelineTwoFaults.cfg | finding: segreport mixes two faults |

Bounds. `MaxCommands` caps the commands of a behaviour and `MaxEvents` the lines
and stops the application adds. In `mi`, three commands are enough for an
insertion, a resumption and a query whose reply and stop cross, and for the
vector to grow twice; two events are a stop and a line on standard error;
`GdbMI_proofs` and `Table_proofs` cover the rest. In the sessions `MaxCommands`
(40 or 60) is above what any behaviour sends, so it never stops a procedure, and
3 or 4 events are enough for the stop at main, two stops at which the procedure
of interest runs, and an event that crosses its queries. Of the two watchpoints of
`spec_file` the place of one has a dot, so that a place is told from the last part
of its name. Of the two expressions
of `spec_file` the second begins with the first, so that only their order tells
their keys apart. In `alarm` the alarm may strike any select of the session. In
`startup`, three processes let one be overtaken twice between asking for its
file and opening it; the environments set each list's first variable, its
second, both, none, the variable of the switch, and a value that is no number,
and put opd and gdb first, last, nowhere, behind an empty element, and behind a
link. In `Pipeline`, two ranks and two jobs give a gap, a stale file, two faults
and a second merge; one row besides a fault's three gives an order to violate.

No configuration checks for deadlock: opd is meant to end, and at the bound on
events or commands a behaviour stops.

Fairness. `WF` of opd's steps and of gdb's: both are processes of an idle
machine that block only on a pipe (`Read` needs a line, `GdbExecute` a command).
`WF` of `AppExits`: every stretch in which the application runs comes to an end.
That is an assumption on the application - an application that runs for ever is
what `opd -t` is for. `OpdAlarm` assumes `WF` of `AlarmStrikes` in its place:
the application may run for ever, but the clock does not stop. Nothing is
assumed of the order in which the application hits breakpoints, writes or
faults. `Startup` assumes `WF` of every process.

`Session`'s fairness is implied by these under the refinement mapping; the run
`spec_file` checks this too (`KeepsPromise`).

## 4. What is proved

For every set of functions, every bound, and any caller of gdbmi.c
(`GdbMI_proofs`), from `FunctionsAssumption` (NULL is no function) and
`BoundsAssumption` (the bounds are naturals):

* `TypeCorrect`: `Spec => []TypeOK`.
* `SyncInvariant`: the inductive invariant. While `blame` is empty:
  - `CommandsInv`: of the commands gdb has still to execute, only the last one
    can be other than a resumption, and then it is the one the reading loop was
    entered for;
  - `AnswersInv`: an answer still to be read is the answer to that command, all
    commands have been executed, and nothing follows it (a value is followed by
    its result record);
  - `WaitingInv`: `gdb_getresponse` has its command or its answer before it, and
    the last loop of `gdb_call` has exactly the result record left;
  - `TablesInv`: opd's table is gdb's, but for the insertion under way: a
    breakpoint enters opd's table when it is sent and gdb's when it is
    executed, a watchpoint gdb's first and opd's when its answer is read.

  None of the properties is inductive without the others: that a stop's number
  is in opd's table needs `TablesInv`, whose watchpoint case needs to know that
  the answer opd reads is the answer to this watchpoint, which needs the other
  three.
* `DispatchIsSound`, `NothingStale`, `AnswersAreOwn`: the three safety
  properties of the run `mi`, from that invariant.

For every script (`Opd_proofs`, with `ScriptAssumption`: a procedure is a
sequence of commands that bind functions of the script):

* `OpdImplementsGdbMI`: `OpdSpec => Spec`. Every step of `Opd` is a step of
  `GdbMI` or leaves its variables alone; the invariant it needs (`CodeInv`) is
  that the code left to evaluate is made of the script's commands.
* `SessionsDispatchSoundly`: hence, while gdb refuses nothing, `CalledAsBound`
  holds in every session of every script.
* `OpdTypeCorrect` (`OpdTypeOK`), from `OpdTypes`, which adds the types of the
  code and of the histories.
* `AbortsOnlyOnCrash` (`AbortsOnCrash`), if no procedure ends the session. By
  `ExitInv`, the line of a finished function or of a SIGINT, for which main has
  only `opd_dispatchOther`, is never on its way, and whatever tells opd to exit
  with an abort was evaluated for a SIGSEGV that gdb reported.
* `RowsHoldAnswers` (`RowsAreAnswers`), if answers follow their questions. By
  `RowsInv`, when the next command logs an answer, the line is the answer to the
  command last asked; it needs `SyncInvariant` to know that the reading loop
  ended on its own answer.
* `NeverDereferencesNull` (`NeverCrashes`), if steps are awaited. By `StepsInv`,
  a stop that `gdb_stepNext` asked for is read by the loop of the command behind
  it and not by main.

The last two hold while `blame \subseteq {"exit"}`: telling gdb to exit does no
harm, the other entries of `blame` do. With `-a` it contains `arguments`, and
what holds then is proved further down, for scripts in order.

That opd keeps the promise of `Session`, but for its liveness (`Session_proofs`,
if procedures neither end the session nor resume twice, and record before they
resume; the set-up resumes nothing):

* `OpdKeepsPromise`: the first state of `Opd` is one of `Session`, and every step
  is a step of `Session` or leaves its variables alone. By `SessionInv`, the
  application is either held, or let go by the last command under way, or
  running, or its stop is the last line unread; and while it is not held, opd
  only logs and reads. So at a resumption every stop has its first row.
* `FaultRowsInTime` (`RowsOfFault`), if also no procedure writes rows of that key:
  by `FaultInv`, the code of `opd_dispatchSigSeg` is evaluated only while the
  application stands at its fault.

And that such a script stays in step with gdb to its end, with `-a` too, if its
set-up only binds breakpoints and gdb knows every location (also
`Session_proofs`):

* `AlwaysCalledAsBound` (`CalledAsBound`), `RowsAlwaysAnswers` (`RowsAreAnswers`, if
  answers follow their questions) and `AlwaysDispatches` (`NeverCrashes`, if steps
  are awaited), without a condition on `blame`. By `FoundInv`, `blame` never holds
  more than `arguments` and `exit`: gdb knows the locations, and by `SessionInv` a
  resumption finds the application held. The reply that `gdb_set_arguments`
  leaves makes every insertion of the set-up return on the answer to the command
  before it. By `StartInv` that does no harm: until main has read what is left,
  the two tables differ exactly by the insertions on the pipe (`StartTables`), the
  number of a stop is one that gdb's table has, and no answer is logged; behind
  it opd and gdb are in step (`Sync`) to the end.

For every debugging specification (`OpdTcl_proofs`): lines of any number, with any
locations and expressions.

* `SpecificationsFit`: what `opd_breakscript` has done after reading, and what
  breakpoints and watchpoints are bound to, meets all these conditions, and binds
  functions of the specification only. All but `Records` hold of every
  specification; `Records` of those that do not fail (finding 1).
* `SpecificationSessions`, `SpecificationsKeepPromise`, `SpecificationsInStep`: hence
  the theorems above hold in every session of opd -d, without a condition on a
  script; the second, which is about `Session` and `RowsOfFault`, for
  specifications that do not fail, and the third, which leaves `blame` out of it,
  for those whose locations gdb knows as well (finding 2).

  `opd_readscript` is a recursive function of the number of lines. The induction
  theorems of the library cannot be instantiated here; the proofs take the least
  number of lines for which a claim fails (`LeastNatural`, from the well-founded
  order of the naturals) - once to show that there is such a function at all
  (`ReadingGoesOn`), and once for what it has done (`ReadscriptIsQuiet`).
* `SpecificationsWatchpointsAreRead` (`WatchpointsAreRead`): what gdbase.py reads
  back as the changes of watched variables are the stops at watchpoints, one for
  one, in their order, with their lines, their variables and the last parts of
  their places. It holds for specifications that do not
  fail, whose locations gdb knows, whose names have keys, and whose watched
  places are `ToldApart`; `FileIsToldApart` in `MCSpecFile` shows that the
  specification of the run is one of them.

  Three facts meet in the proof. By `MarkInv`, every procedure of a stop writes the
  row of its event (`MarkKept`) before anything else, and once; so the rows of
  the events of one procedure, with the one still to be written, match the stops
  given to that procedure. By `SpecificationMarks`, which follows the lines of the
  specification by the least-number argument above, a row is an event of
  `script_wa_up` if and only if its key passes the tests of `Watchpoints`: it
  compares every kind of key part by part, and needs `ToldApart` for those in
  which a name of the specification stands where the others have a word.
  `Watchpoints` and the list of stops then pick the same places (`PickingAgrees`).
  And by `PlaceInv` the row of a change names the place and the variable of the
  function its stop is bound to, which are the last two names of its key
  (`EndOfNames`, `SeenIs`).

For the scripts that come with the program (also `OpdTcl_proofs`; their
procedures are fixed but for the list of calls of deadlock.tcl, which may be any):

* `AgentSessions`: under single_step.tcl, deadlock.tcl or the example of docs/USAGE,
  `AbortsOnCrash`; and `RowsAreAnswers` and `NeverCrashes` while gdb refuses nothing.
* `UsageKeepsPromise`: the example of docs/USAGE keeps the safety part of `Session`
  and writes the rows of a fault at the fault. The agents do not: `step_setup`
  lets the application go without a row, and `deadlock_catch` lets it go twice.

`AgentsAssumption` in `MCAgents` has TLC evaluate the same conditions for the
procedures of its runs, and that these are the procedures of the theorem.

With `-t`, whenever the alarm strikes, for every script (`OpdAlarm_proofs`):

* `AlarmInvariant`: a session goes through three stretches. Until the alarm
  strikes it is a session of `Opd`, and the invariants above hold; until
  `db_close` only the commands of `catch_alarm` are evaluated; behind it no row is
  written, whatever the interrupted code goes on to do.
* `AbortsOnlyOnTimeout` (`AbortsOnTimeout`), `CrashesOnlyOnClosed`
  (`CrashesOnlyClosed`) and `OtherRowsHoldAnswers` (`OtherRowsAreAnswers`), from it
  and from `ExitInv`, `StepsInv` and `RowsInv` for the first stretch, under the
  same conditions as above.

For every growth of the vector (`Table_proofs`):

* `TableHolds`: the vector's words up to its size are the breakpoints in the
  order in which they were added (`Holds`, which also says that the size never
  exceeds what is allocated). `TableImplementsGdbMI` brings the theorems of
  `GdbMI_proofs` to `Table`.
* `LookupsAreSound`: with `SyncInvariant`, gdb's number then finds the bound
  function, and the index that `vector_getItem` fails to refuse never occurs.

For any number of processes, any lists of variables and any environment
(`Startup_proofs`, from `JobAssumption`: the processes are 0 to N - 1):

* `StartupInvariant`: the types; `RankInv`, that a process which is past
  `identify` has its own rank when the environment tells ranks honestly;
  `JobInv`, what a process has made of the job, told or not of ranks and of the
  size; and `OwnFile`, which is not
  inductive without `RankInv`, as a process removes and opens the file its rank
  names.
* `FilesAreOwn`, `ProcessesAgree` and `StartupTypes`: properties of the run
  `startup`, from it.
* `ProcessesAgree` (`AgreeOnJob`) has no exception but the one it names: ranks
  without a size leave rank 0, and no other process, with a job without MPI.
* `InstallationFound` (`RunsInstallation`), with `PathAssumption`, that PATH is a
  sequence of directories, and `LinkAssumption`. By `OpdInv`, while opd is sought
  no element of PATH before the one being looked at holds an opd, and what is
  being followed is where the links of the first one lead, or no file at all; so
  what turns out to be a regular file is the installation of the first one.

For any number of ranks, rows, runs and merges (`Pipeline_proofs`, from
`RanksAssumption`, that a job has a rank, and `ScriptsAssumption`, that the user
gives the commands of baseexec or those of docs/USAGE):

* `TypeCorrect`: the types, with what they rest on: no opd process is left when
  the shell is past mpiexec (`QuietOK`), no merge is under way but under dbmerge
  (`IdleOK`), and every rank before the one being read has a file (`ReadOK`).
* `MergeIsWhole` (`CommitsTheFiles`): by `StagedOK`, the uncommitted rows are the
  files of the ranks read so far and the rows read of the one under way. The
  files do not change meanwhile only because of `QuietOK`, and reading ends at a
  rank without a file because of `ReadOK`.
* `RemovalIsSafe` (`LosesOnlyUnmerged`): by `KeptOK`, between a commit and the
  removal the last job is made of the files that are there.

* `ReportsOneFault` (`ReportOfOneFault`): by `ReportInv`, the rows of a fault stand
  in every file in their order and next to each other, also in one that was cut
  short (`FilesOK`); a merge reads every rank once, and its file from the start
  (`ReadOnce`); and so in what is merged a rank has at most one stop, which comes
  before any other row of its fault, and a stack or the locals stand right behind
  the row before them (`OneEach`).

Only model-checked:

* all liveness, which is out of the prover's reach: `ResponseArrives`,
  `SessionEnds`, `FaultIsReported`, `TimeoutIsReported`, `StartsOrRefuses`, and the
  fairness in `KeepsPromise`;
* `BreakpointsAreRead`. Its iterator looks for the rows of the expressions behind
  the row of a stop and goes on behind the last it found, so a proof has to
  follow a recursion from position to position of the log, over dictionaries
  built from an earlier part of it; and, as the findings below say, it holds
  only for specifications with few liberties.

## 5. Findings

1. `blank_line`: a blank line before the first `@bp` of a specification - the
   layout docs/USAGE shows - is a Tcl error; the application stands at main for
   ever.
2. `unknown_location`: `gdb_tcl_setbreakpoint` fills its table before it knows
   whether gdb found the location. After one unknown location every later
   breakpoint calls the procedure of the one before.
3. `deadlock_fault`: `gdb_stepNext` does not wait for its stop; the next query
   swallows it. When it is a SIGSEGV, the fault is never reported and opd can
   wait for ever in `gdb_call`.
4. `step_finish`: `GDB_FINISH` has no case in main's switch, so the documented
   `gdb_stepFinish` ends in `abort()`.
5. `stale_files`: `rm gdblog-MyApplication-*` does not match `gdblog-App.0`;
   the files of an earlier job are merged into a later one.
6. `two_faults`: with two faulting processes, segreport mixes their rows.

Seen while modelling, without a run of its own:

* baseexec never passes `-e` to opd, so no application is started through it.
* With `opd -a`, the reply to `-exec-arguments` stays unread until the next
  reading loop or the main loop takes it (`spec_file` shows that a debugging
  specification is not harmed).
* `report_step` of matchingagent.tcl is never evaluated: the query that follows
  `gdb_step` swallows its stop, as in finding 3.
* `BreakpointsAreRead` fails, with the same configuration, for specifications
  docs/USAGE allows: a location with a dot (`myapp.c:231`) and a blank line after
  an expression raise a KeyError in the analysis; a breakpoint without
  expressions is reported twice, the second time with its stack as the stop; an
  expression whose name begins another one (`xy` listed before `x`) is given the
  other's value.
* A timeout that strikes a reading loop logs, as `opd.timeout.stack`, the answer
  to that loop's command when it was still on its way; when the application has
  already stopped, the SIGINT stops nothing and the handler waits for ever; when
  it struck the loop of `gdb_call`, opd then reads the end of file for ever; and
  without `gdb_setPID` the SIGINT goes to opd's own process group.
* `opd -h` gives `/usr/bin/gdb` as the default of `-g` (src/src/opd.c:128-129).
  There is no such default: without `-g` and GDB_BINARY, opd takes the first gdb
  of PATH (opd.c:395-408), and refuses to start if PATH has none. `find_gdb` and
  `check_gdb` of `Startup` are what the code does.
* The search along PATH stops for ever at an empty element, which a shell takes
  for the working directory; without an opd in PATH, opd copies a buffer nobody
  has written and follows what it finds there. `DeadEnd` lists these ends.
* In a job whose ranks are told but not its size, rank 0 takes itself for a
  program without MPI, and a fault there does not abort the job (`AgreeOnJob`
  names this case).
* `Watchpoints` returns `c:10` as the place of a watchpoint at `g.c:10`, and for a
  variable with a dot (`s.x`) a part of the variable as the place
  (`WatchpointsAreRead` says what is left of a name).
* A merge that is run again inserts the job a second time. baseexec removes the
  files whether or not dbmerge succeeded, and a row that sqlite fails to read ends
  the file as if it were over: these are the exceptions (`failed`, `misread`) of
  `LosesOnlyUnmerged` and `CommitsTheFiles`.
* GDBASE_PREFIX overrides `-p`, GDB_BINARY overrides `-g`, and the known
  variables override those of `-r` and `-n`, against docs/USAGE and `opd -h`. The
  search for opd runs, and can hang at an empty element of PATH, although
  GDBASE_PREFIX is set.
* deadlock.py's `addComm` uses a name that exists only in `agent`: it ends at its
  first message.

## 6. What is not modelled

* the job id, which opd only prints and dbmerge only stores, and the names of
  the application: they are one name in `Startup` and in `Pipeline`, though opd
  drops the directory of the name and dbmerge does not;
* a second alarm, and an alarm outside of a `select`;
* the values in lines and rows, and the formatting of both; with them, an
  application that writes text gdbmi.c takes for a record or a value;
* the row "Executing", which opd logs before it starts gdb (opd.c:479);
* `matchingagent.tcl` and `allgatherv.tcl`, which drive gdbmi.c as
  `deadlock.tcl` does; their counters and keys;
* of vector.c, `vector_setItem` and the searches, which only the unused parser
  calls; of findexec.c, the growth of the buffers;
* of gdbase.py, the parser of records, and the statistics of a job; of the
  analyses, those but segreport: single passes over the rows of a job;
* `getline.c`, which configure takes where the library has none;
* `parser.c` and `dbreport.c`, which nothing uses, `deadtest.c`, an application
  to be debugged, the database schema, and the build files.

## 7. Plan

Done: all modules of section 2. Every safety property of a passing run is a
theorem, but for `BreakpointsAreRead`. What could follow:

1. `BreakpointsAreRead`, for specifications whose locations are single names with
   expressions none of which begins a later one.
2. The counters of matchingagent.tcl and the keys that matchinganalysis.py
   splits; property: no two calls share a key.
