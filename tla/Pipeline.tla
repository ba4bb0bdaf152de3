------------------------------ MODULE Pipeline ------------------------------
(***************************************************************************)
(* From the processes of a job to the report of its fault: mpiexec starts  *)
(* one opd per rank, each writes the file gdblog-App.rank; dbmerge reads   *)
(* the files, rank by rank, into one transaction of the central database;  *)
(* the files are removed; and segreport reads the rows of a fault back.    *)
(* The shell runs these either as the wrapper bin/baseexec or by hand, as  *)
(* docs/USAGE writes them out.                                             *)
(*                                                                         *)
(* What one opd does between the opening of its file and its end is the    *)
(* subject of Opd.tla; here it writes rows, and on a fault the three rows  *)
(* of opd_dispatchSigSeg before it aborts the job.                         *)
(***************************************************************************)
EXTENDS Integers, Sequences, SequencesExt

CONSTANTS
  MaxRanks,   \* the largest job
  MaxRows,    \* bound: rows of a rank besides those of a fault
  MaxRuns,    \* bound: jobs that are started
  MaxJobs,    \* bound: jobs that are merged
  Scripts     \* the sequences of commands the user gives to the shell

ASSUME RanksAssumption == MaxRanks \in Nat \ {0}

Ranks == 0 .. MaxRanks - 1

VARIABLES
  shell,     \* the commands of the shell still to be run, the first one under way
  procs,     \* the opd processes of the job
  aborting,  \* abort() was called: mpiexec kills what is left of the job
  files,     \* the files gdblog-App.rank of the working directory
  merge,     \* dbmerge: where it is, in which file, before which row
  staged,    \* the rows inserted since BEGIN
  jobs,      \* the committed jobs; whole is history: no file of the job was misread
  runs,      \* jobs started so far, which numbers them
  misread,   \* history: this merge took an error of sqlite3_step for the end of a file
  failed     \* history: the merge of this job was rolled back

job      == <<procs, aborting, files, runs>>
database == <<merge, staged, jobs, misread, failed>>
vars     == <<shell, job, database>>

(* What the shell runs: mpiexec opd -e App, mpiexec opd App, dbmerge App,  *)
(* rm gdblog-App-*, and rm -f gdblog-*.                                    *)
ByHand   == <<"opd-e", "dbmerge", "rm-App">>

(* Mutant: the files are removed too early.                                *)
BaseexecHurries == <<"opd", "rm-all", "dbmerge">>

Baseexec == <<"opd", "dbmerge", "rm-all">>

ASSUME ScriptsAssumption == Scripts \subseteq {ByHand, Baseexec}

FaultRows == <<"stop", "stack", "locals">>
RowKinds  == {"text"} \cup ToSet(FaultRows)
NoFile    == [run |-> 0, rows |-> <<>>]
Row       == [rank : Ranks, run : Nat, key : RowKinds]

Init ==
  /\ shell = <<>> /\ procs = [r \in Ranks |-> "none"] /\ aborting = FALSE
  /\ files = [r \in Ranks |-> NoFile] /\ runs = 0
  /\ merge = [at |-> "none", rank |-> 0, row |-> 1] /\ staged = <<>>
  /\ jobs = <<>> /\ misread = FALSE /\ failed = FALSE

----------------------------------------------------------------------------
(* The shell.                                                              *)

Under(command) == shell # <<>> /\ Head(shell) = command
UnderMpiexec   == Under("opd-e") \/ Under("opd")
UnderRm        == Under("rm-App") \/ Under("rm-all")

Type ==
  /\ shell = <<>>
  /\ shell' \in Scripts
  /\ UNCHANGED <<job, database>>

Mpiexec ==
  /\ UnderMpiexec
  /\ \A r \in Ranks : procs[r] = "none"
  /\ runs < MaxRuns /\ runs' = runs + 1 /\ failed' = FALSE
  /\ \E n \in 1 .. MaxRanks :
       procs' = [r \in Ranks |-> IF r < n THEN "starting" ELSE "none"]
  /\ UNCHANGED <<shell, aborting, files, merge, staged, jobs, misread>>

MpiexecReturns ==
  /\ UnderMpiexec
  /\ \E r \in Ranks : procs[r] # "none"
  /\ \A r \in Ranks : procs[r] \in {"none", "done"}
  /\ procs' = [r \in Ranks |-> "none"] /\ aborting' = FALSE
  /\ shell' = Tail(shell)
  /\ UNCHANGED <<files, runs, database>>

(* gdblog-App.0 is not of the form gdblog-App-*.                           *)
Matched(pattern) == pattern = "rm-all"

RemoveFiles ==
  /\ UnderRm
  /\ files' = IF Matched(Head(shell)) THEN [r \in Ranks |-> NoFile] ELSE files
  /\ shell' = Tail(shell)
  /\ UNCHANGED <<procs, aborting, runs, database>>

(* The job is ended from outside opd: by mpiexec, or by the user.          *)
EndJob ==
  /\ \E r \in Ranks : procs[r] # "none"
  /\ ~aborting /\ aborting' = TRUE
  /\ UNCHANGED <<shell, procs, files, runs, database>>

(* The end of the batch job kills whatever is under way, the shell too.    *)
Interrupt ==
  /\ shell # <<>> /\ shell' = <<>>
  /\ procs' = [r \in Ranks |-> "none"] /\ aborting' = FALSE
  /\ merge' = [merge EXCEPT !.at = "none"] /\ staged' = <<>>
  /\ UNCHANGED <<files, runs, jobs, misread, failed>>

----------------------------------------------------------------------------
(* opd, at the granularity of its file.                                    *)

Becomes(r, from, to) == procs[r] = from /\ procs' = [procs EXCEPT ![r] = to]

(* No -e, or no gdb, no prefix, a bad timeout: before the file is touched. *)
opd_refuses(r) ==
  /\ Becomes(r, "starting", "done")
  /\ UNCHANGED <<shell, aborting, files, runs, database>>

db_open(r) == files' = [files EXCEPT ![r] = [run |-> runs, rows |-> <<>>]]

(* The file of an earlier run is removed; db_open may fail after that.     *)
opd_open(r) ==
  /\ Under("opd-e")
  /\ \/ /\ Becomes(r, "starting", "logging")
        /\ db_open(r)
     \/ /\ Becomes(r, "starting", "done")
        /\ files' = [files EXCEPT ![r] = NoFile]
  /\ UNCHANGED <<shell, aborting, runs, database>>

Logs(r, key) ==
  /\ files' = [files EXCEPT ![r].rows = Append(@, key)]
  /\ UNCHANGED <<shell, runs, database>>

opd_log(r) ==
  /\ procs[r] = "logging" /\ Len(files[r].rows) < MaxRows
  /\ Logs(r, "text")
  /\ UNCHANGED <<procs, aborting>>

opd_fault(r) ==
  /\ Becomes(r, "logging", "stop")
  /\ Logs(r, "stop")
  /\ UNCHANGED aborting

opd_dispatchSigSeg(r) ==
  \/ Becomes(r, "stop", "stack") /\ Logs(r, "stack") /\ UNCHANGED aborting
  \/ Becomes(r, "stack", "done") /\ Logs(r, "locals") /\ aborting' = TRUE

opd_exit(r) ==
  /\ Becomes(r, "logging", "done")
  /\ UNCHANGED <<shell, aborting, files, runs, database>>

Killed(r) ==
  /\ aborting /\ procs[r] \notin {"none", "done"}
  /\ procs' = [procs EXCEPT ![r] = "done"]
  /\ UNCHANGED <<shell, aborting, files, runs, database>>

OpdStep(r) ==
  \/ opd_refuses(r) \/ opd_open(r) \/ opd_log(r) \/ opd_fault(r)
  \/ opd_dispatchSigSeg(r) \/ opd_exit(r) \/ Killed(r)

----------------------------------------------------------------------------
(* dbmerge.                                                                *)

At(where) == Under("dbmerge") /\ merge.at = where

merge_begin ==
  /\ At("none") /\ Len(jobs) < MaxJobs
  /\ merge' = [at |-> "open", rank |-> 0, row |-> 1]
  /\ staged' = <<>> /\ misread' = FALSE /\ failed' = FALSE
  /\ UNCHANGED <<shell, job, jobs>>

exists(r) == r \in Ranks /\ files[r].run # 0

merge_open ==
  /\ At("open")
  /\ merge' = [merge EXCEPT !.at = IF exists(merge.rank) THEN "rows" ELSE "commit", !.row = 1]
  /\ UNCHANGED <<shell, job, staged, jobs, misread, failed>>

Stored == files[merge.rank]

(* Mutants: ranks counted from one; ORDER BY id DESC.                      *)
merge_rowFromOne ==
  /\ At("rows") /\ merge.row <= Len(Stored.rows)
  /\ staged' = Append(staged, [rank |-> merge.rank + 1, run |-> Stored.run,
                               key |-> Stored.rows[merge.row]])
  /\ merge' = [merge EXCEPT !.row = @ + 1]
  /\ UNCHANGED <<shell, job, jobs, misread, failed>>

merge_rowDescending ==
  /\ At("rows") /\ merge.row <= Len(Stored.rows)
  /\ staged' = Append(staged, [rank |-> merge.rank, run |-> Stored.run,
                               key |-> Stored.rows[Len(Stored.rows) + 1 - merge.row]])
  /\ merge' = [merge EXCEPT !.row = @ + 1]
  /\ UNCHANGED <<shell, job, jobs, misread, failed>>

merge_row ==
  /\ At("rows") /\ merge.row <= Len(Stored.rows)
  /\ staged' = Append(staged, [rank |-> merge.rank, run |-> Stored.run,
                               key |-> Stored.rows[merge.row]])
  /\ merge' = [merge EXCEPT !.row = @ + 1]
  /\ UNCHANGED <<shell, job, jobs, misread, failed>>

(* Whatever sqlite3_step returns but SQLITE_ROW ends the file.             *)
merge_end ==
  /\ At("rows")
  /\ misread' = (misread \/ merge.row <= Len(Stored.rows))
  /\ merge' = [merge EXCEPT !.at = "open", !.rank = @ + 1]
  /\ UNCHANGED <<shell, job, staged, jobs, failed>>

merge_commit ==
  /\ At("commit")
  /\ jobs' = Append(jobs, [run |-> runs, rows |-> staged, whole |-> ~misread])
  /\ staged' = <<>> /\ merge' = [merge EXCEPT !.at = "none"]
  /\ shell' = Tail(shell)
  /\ UNCHANGED <<job, misread, failed>>

(* Mutant: the transaction is ended and not rolled back.                   *)
merge_failCommits ==
  /\ Under("dbmerge")
  /\ jobs' = Append(jobs, [run |-> runs, rows |-> staged, whole |-> ~misread])
  /\ staged' = <<>> /\ merge' = [merge EXCEPT !.at = "none"]
  /\ shell' = Tail(shell)
  /\ UNCHANGED <<job, misread, failed>>

(* No configuration, no connection, a file that does not open or close, an   *)
(* insertion or a commit refused: PQfinish, and all is rolled back.        *)
merge_fail ==
  /\ Under("dbmerge")
  /\ staged' = <<>> /\ merge' = [merge EXCEPT !.at = "none"] /\ failed' = TRUE
  /\ shell' = Tail(shell)
  /\ UNCHANGED <<job, jobs, misread>>

Dbmerge == merge_begin \/ merge_open \/ merge_row \/ merge_end \/ merge_commit \/ merge_fail

Next ==
  \/ Type \/ Mpiexec \/ MpiexecReturns \/ RemoveFiles \/ EndJob \/ Interrupt
  \/ \E r \in Ranks : OpdStep(r)
  \/ Dbmerge

Spec == Init /\ [][Next]_vars

----------------------------------------------------------------------------
Commands   == ToSet(ByHand) \cup ToSet(Baseexec)
ProcStates == {"none", "starting", "logging", "stop", "stack", "done"}

(* The variables range over what the comments above say.                   *)
TypeOK ==
  /\ shell \in Seq(Commands)
  /\ procs \in [Ranks -> ProcStates]
  /\ aborting \in BOOLEAN /\ misread \in BOOLEAN /\ failed \in BOOLEAN
  /\ runs \in Nat
  /\ files \in [Ranks -> [run : 0 .. runs, rows : Seq(RowKinds)]]
  /\ merge \in [at : {"none", "open", "rows", "commit"}, rank : 0 .. MaxRanks, row : Nat \ {0}]
  /\ staged \in Seq(Row)
  /\ jobs \in Seq([run : 0 .. runs, rows : Seq(Row), whole : BOOLEAN])

RowOf(r, i) == [rank |-> r, run |-> files[r].run, key |-> files[r].rows[i]]

(* The first i rows of the file of rank r, behind the first d of rows.     *)
Holds(rows, d, r, i) == \A k \in 1 .. i : rows[d + k] = RowOf(r, k)

(* The files of the first n ranks, one behind the other: that of rank k    *)
(* behind the first start[k] rows.                                         *)
Starts(rows) == [0 .. MaxRanks -> 0 .. Len(rows)]
Laid(rows, start, n) ==
  /\ start[0] = 0
  /\ \A k \in 0 .. n - 1 :
       /\ start[k + 1] = start[k] + Len(files[k].rows)
       /\ Holds(rows, start[k], k, Len(files[k].rows))

(* What a merge should commit: the rows of rank 0, of rank 1, and so on up *)
(* to the first rank without a file, each in the order it was written.     *)
Contents(rows) ==
  \E n \in 0 .. MaxRanks, start \in Starts(rows) :
    /\ ~exists(n) /\ \A k \in 0 .. n - 1 : exists(k)
    /\ Laid(rows, start, n) /\ start[n] = Len(rows)

(* A job enters the database whole or not at all: what dbmerge commits,    *)
(* one row and one file at a time, is what the files hold - unless an      *)
(* error of sqlite3_step went for the end of a file.                       *)
CommitsTheFiles == [][jobs' # jobs /\ Last(jobs').whole => Contents(Last(jobs').rows)]_vars

Removed(r) == Under("rm-all") /\ files[r].run # 0 /\ files'[r].run = 0

Mergeable(r) == ~failed /\ ~misread /\ \A k \in 0 .. r - 1 : exists(k)

Saved(r, rows) ==
  \E d \in 0 .. Len(rows) - Len(files[r].rows) : Holds(rows, d, r, Len(files[r].rows))

(* baseexec removes the files whatever dbmerge made of them.  The rows of  *)
(* a file are lost only if the merge failed, if it took an error for the   *)
(* end of a file, or if a rank before had no file, which ended the merge:  *)
(* the rows of every other file are in the database when it is removed,    *)
(* together and in their order.                                            *)
LosesOnlyUnmerged ==
  [][\A r \in Ranks : Removed(r) /\ Mergeable(r) =>
       jobs # <<>> /\ Saved(r, Last(jobs).rows)]_vars

Faults(rows) == {k \in DOMAIN rows : rows[k].key # "text"}

(* segreport takes the first three rows with the key opd.SEGFAULT of a job *)
(* for the stop, the stack and the locals of one fault.                    *)
Report(rows, a, b, c) ==
  /\ a < b /\ b < c
  /\ \A k \in Faults(rows) : k <= c => k \in {a, b, c}

IsOneFault(rows, a, b, c) ==
  /\ <<rows[a].key, rows[b].key, rows[c].key>> = FaultRows
  /\ rows[a].rank = rows[b].rank /\ rows[b].rank = rows[c].rank

OfOneRank(rows) == \A k, l \in Faults(rows) : rows[k].rank = rows[l].rank

(* ... which they are when one rank faulted and its three rows got there:  *)
(* there is no fourth.                                                     *)
ReportOfOneFault ==
  \A i \in DOMAIN jobs :
    LET rows == jobs[i].rows
    IN  OfOneRank(rows) =>
          \A a, b, c \in Faults(rows) :
            Report(rows, a, b, c) => Faults(rows) = {a, b, c} /\ IsOneFault(rows, a, b, c)

(* ... and, if the report is to be trusted, whenever three rows got there  *)
(* from files that were read to their end.                                 *)
ReportIsSound ==
  \A i \in DOMAIN jobs :
    LET rows == jobs[i].rows
    IN  jobs[i].whole =>
          \A a, b, c \in Faults(rows) : Report(rows, a, b, c) => IsOneFault(rows, a, b, c)

(* A job is made of the rows its own processes wrote, and of no others.    *)
RowsOfOwnRun ==
  \A i \in DOMAIN jobs : \A k \in DOMAIN jobs[i].rows : jobs[i].rows[k].run = jobs[i].run
============================================================================
