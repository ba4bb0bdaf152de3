--------------------------- MODULE Pipeline_proofs ---------------------------
(***************************************************************************)
(* Proofs about Pipeline.tla, for jobs of any size, any number of rows,    *)
(* runs and merges, whatever fails: a merge commits what the files hold,   *)
(* and baseexec removes the rows of no file that was merged in vain.       *)
(*                                                                         *)
(* The argument: nothing writes the files while dbmerge reads them (the    *)
(* shell is under "dbmerge", so no opd runs), hence what was staged    *)
(* stays true of them; and between a commit and the removal the shell does *)
(* nothing else, so the last job is still made of the files removed.       *)
(***************************************************************************)
EXTENDS Pipeline, TLAPS

(* What is left of a script.                                               *)
Left == {<<>>,
         <<"opd-e", "dbmerge", "rm-App">>,
         <<"dbmerge", "rm-App">>,
         <<"rm-App">>,
         <<"opd", "dbmerge", "rm-all">>,
         <<"dbmerge", "rm-all">>,
         <<"rm-all">>}

ShellOK == shell \in Left

(* A process of the job lives only while mpiexec runs, a merge only while  *)
(* dbmerge does.                                                           *)
QuietOK == UnderMpiexec \/ \A r \in Ranks : procs[r] = "none"
IdleOK  == Under("dbmerge") \/ merge.at = "none"

(* Every rank before the one being read has a file.                        *)
ReadOK ==
  merge.at # "none" =>
    /\ \A k \in 0 .. merge.rank - 1 : exists(k)
    /\ merge.at = "rows" => exists(merge.rank)
    /\ merge.at = "commit" => ~exists(merge.rank)

(* The rows before row i of the file of rank r, and nothing behind them.   *)
Part(rows, start, r, i) ==
  /\ i <= Len(files[r].rows) + 1
  /\ Len(rows) = start[r] + i - 1
  /\ Holds(rows, start[r], r, i - 1)

(* What was staged: the files read so far and the part of the one under    *)
(* way.                                                                    *)
StagedOK ==
  merge.at # "none" /\ ~misread =>
    \E start \in Starts(staged) :
      /\ Laid(staged, start, merge.rank)
      /\ IF merge.at = "rows" THEN Part(staged, start, merge.rank, merge.row)
         ELSE Len(staged) = start[merge.rank]

(* Before the files are removed, the last job is made of them.             *)
KeptOK == UnderRm /\ ~failed /\ ~misread => jobs # <<>> /\ Contents(Last(jobs).rows)

TypeInv == TypeOK /\ ShellOK /\ QuietOK /\ IdleOK /\ ReadOK
Inv     == TypeInv /\ StagedOK /\ KeptOK

----------------------------------------------------------------------------
(* The shell goes through a script in its order.                           *)
LEMMA ShellSteps ==
  ASSUME ShellOK, shell # <<>>, shell' = Tail(shell)
  PROVE  /\ ShellOK'
         /\ UnderMpiexec => Under("dbmerge")' /\ ~UnderMpiexec' /\ ~UnderRm'
         /\ Under("dbmerge") => UnderRm' /\ ~UnderMpiexec' /\ ~Under("dbmerge")'
         /\ UnderRm => shell' = <<>>
  <1>1. CASE shell = <<"opd-e", "dbmerge", "rm-App">>
    <2>1. shell' = <<"dbmerge", "rm-App">>
      BY <1>1
    <2> QED
      BY <1>1, <2>1 DEF ShellOK, Left, UnderMpiexec, UnderRm, Under
  <1>2. CASE shell = <<"dbmerge", "rm-App">>
    <2>1. shell' = <<"rm-App">>
      BY <1>2
    <2> QED
      BY <1>2, <2>1 DEF ShellOK, Left, UnderMpiexec, UnderRm, Under
  <1>3. CASE shell = <<"rm-App">>
    <2>1. shell' = <<>>
      BY <1>3
    <2> QED
      BY <1>3, <2>1 DEF ShellOK, Left, UnderMpiexec, UnderRm, Under
  <1>4. CASE shell = <<"opd", "dbmerge", "rm-all">>
    <2>1. shell' = <<"dbmerge", "rm-all">>
      BY <1>4
    <2> QED
      BY <1>4, <2>1 DEF ShellOK, Left, UnderMpiexec, UnderRm, Under
  <1>5. CASE shell = <<"dbmerge", "rm-all">>
    <2>1. shell' = <<"rm-all">>
      BY <1>5
    <2> QED
      BY <1>5, <2>1 DEF ShellOK, Left, UnderMpiexec, UnderRm, Under
  <1>6. CASE shell = <<"rm-all">>
    <2>1. shell' = <<>>
      BY <1>6
    <2> QED
      BY <1>6, <2>1 DEF ShellOK, Left, UnderMpiexec, UnderRm, Under
  <1> QED
    BY <1>1, <1>2, <1>3, <1>4, <1>5, <1>6 DEF ShellOK, Left

(* One command at a time.                                                  *)
LEMMA OneCommand ==
  /\ UnderMpiexec => shell # <<>> /\ ~Under("dbmerge") /\ ~UnderRm
  /\ Under("dbmerge") => shell # <<>> /\ ~UnderRm
  /\ UnderRm => shell # <<>>
  BY DEF UnderMpiexec, UnderRm, Under

(* A script starts with mpiexec.                                           *)
LEMMA ScriptsStart ==
  ASSUME shell' \in Scripts
  PROVE  ShellOK' /\ UnderMpiexec'
  <1>1. shell' \in {ByHand, Baseexec}
    BY ScriptsAssumption
  <1> QED
    BY <1>1 DEF ByHand, Baseexec, ShellOK, Left, UnderMpiexec, Under

(* What is left of a script is made of its commands.                       *)
LEMMA LeftCommands == Left \subseteq Seq(Commands)
  <1>1. /\ "opd-e" \in Commands /\ "dbmerge" \in Commands /\ "rm-App" \in Commands
        /\ "opd" \in Commands /\ "rm-all" \in Commands
    <2>1. "opd-e" \in ToSet(ByHand) /\ "dbmerge" \in ToSet(ByHand) /\ "rm-App" \in ToSet(ByHand)
      BY DEF ByHand, ToSet
    <2>2. "opd" \in ToSet(Baseexec) /\ "rm-all" \in ToSet(Baseexec)
      BY DEF Baseexec, ToSet
    <2> QED
      BY <2>1, <2>2, Zenon DEF Commands
  <1>2. /\ <<>> \in Seq(Commands)
        /\ <<"opd-e", "dbmerge", "rm-App">> \in Seq(Commands)
        /\ <<"dbmerge", "rm-App">> \in Seq(Commands)
        /\ <<"rm-App">> \in Seq(Commands)
        /\ <<"opd", "dbmerge", "rm-all">> \in Seq(Commands)
        /\ <<"dbmerge", "rm-all">> \in Seq(Commands)
        /\ <<"rm-all">> \in Seq(Commands)
    BY <1>1
  <1> QED
    BY <1>2, Zenon DEF Left

----------------------------------------------------------------------------
(* Types.                                                                  *)

FileSet(n) == [run : 0 .. n, rows : Seq(RowKinds)]
JobSet(n)  == [run : 0 .. n, rows : Seq(Row), whole : BOOLEAN]

(* What is numbered by the runs so far is numbered by the runs after.      *)
LEMMA RunsGrow ==
  ASSUME NEW n \in Nat, files \in [Ranks -> FileSet(n)], jobs \in Seq(JobSet(n))
  PROVE  files \in [Ranks -> FileSet(n + 1)] /\ jobs \in Seq(JobSet(n + 1))
  <1>1. FileSet(n) \subseteq FileSet(n + 1) /\ JobSet(n) \subseteq JobSet(n + 1)
    <2>1. 0 .. n \subseteq 0 .. n + 1
      OBVIOUS
    <2> QED
      BY <2>1 DEF FileSet, JobSet
  <1> QED
    BY <1>1

(* The keys of the rows of a fault are among the keys of all rows.         *)
LEMMA Keys ==
  /\ "text" \in RowKinds /\ "stop" \in RowKinds /\ "stack" \in RowKinds /\ "locals" \in RowKinds
  <1>1. "stop" \in ToSet(FaultRows) /\ "stack" \in ToSet(FaultRows) /\ "locals" \in ToSet(FaultRows)
    BY DEF FaultRows, ToSet
  <1> QED
    BY <1>1, Zenon DEF RowKinds

(* A process writes rows to its own file.                                  *)
LEMMA LogsType ==
  ASSUME TypeOK, NEW r \in Ranks, NEW key \in RowKinds, Logs(r, key)
  PROVE  files' \in [Ranks -> FileSet(runs)]
  <1>1. files \in [Ranks -> FileSet(runs)]
    BY DEF TypeOK, FileSet
  <1>2. files[r] \in FileSet(runs) /\ files[r].rows \in Seq(RowKinds) /\ files[r].run \in 0 .. runs
    BY <1>1 DEF FileSet
  <1>3. [files[r] EXCEPT !.rows = Append(@, key)] \in FileSet(runs)
    <2>1. Append(files[r].rows, key) \in Seq(RowKinds)
      BY <1>2
    <2> QED
      BY <1>2, <2>1 DEF FileSet
  <1>4. files' = [files EXCEPT ![r] = [files[r] EXCEPT !.rows = Append(@, key)]]
    BY <1>1 DEF Logs
  <1> QED
    BY <1>1, <1>3, <1>4

(* opd touches the processes and the files of a job, and nothing while no  *)
(* process lives.                                                          *)
LEMMA OpdSteps ==
  ASSUME TypeOK, NEW r \in Ranks, OpdStep(r)
  PROVE  /\ procs[r] # "none"
         /\ UNCHANGED <<shell, runs, database>>
         /\ procs' \in [Ranks -> ProcStates] /\ aborting' \in BOOLEAN
         /\ files' \in [Ranks -> FileSet(runs)]
  <1>1. files \in [Ranks -> FileSet(runs)] /\ procs \in [Ranks -> ProcStates]
        /\ aborting \in BOOLEAN /\ runs \in Nat
    BY DEF TypeOK, FileSet
  <1>2. CASE opd_refuses(r)
    BY <1>1, <1>2 DEF opd_refuses, Becomes, ProcStates
  <1>3. CASE opd_open(r)
    <2>1. NoFile \in FileSet(runs) /\ [run |-> runs, rows |-> <<>>] \in FileSet(runs)
      BY <1>1 DEF NoFile, FileSet
    <2>2. /\ procs[r] = "starting" /\ UNCHANGED <<shell, runs, database, aborting>>
          /\ procs' \in [Ranks -> ProcStates]
      BY <1>1, <1>3 DEF opd_open, Becomes, ProcStates
    <2>3. files' \in [Ranks -> FileSet(runs)]
      BY <1>1, <1>3, <2>1 DEF opd_open, db_open
    <2> QED
      BY <1>1, <2>2, <2>3
  <1>4. CASE opd_log(r)
    <2>1. files' \in [Ranks -> FileSet(runs)]
      BY <1>4, Keys, LogsType DEF opd_log
    <2> QED
      BY <1>1, <1>4, <2>1 DEF opd_log, Logs
  <1>5. CASE opd_fault(r)
    <2>1. files' \in [Ranks -> FileSet(runs)]
      BY <1>5, Keys, LogsType DEF opd_fault
    <2> QED
      BY <1>1, <1>5, <2>1 DEF opd_fault, Logs, Becomes, ProcStates
  <1>6. CASE opd_dispatchSigSeg(r)
    <2>1. files' \in [Ranks -> FileSet(runs)]
      BY <1>6, Keys, LogsType DEF opd_dispatchSigSeg
    <2> QED
      BY <1>1, <1>6, <2>1 DEF opd_dispatchSigSeg, Logs, Becomes, ProcStates
  <1>7. CASE opd_exit(r)
    BY <1>1, <1>7 DEF opd_exit, Becomes, ProcStates
  <1>8. CASE Killed(r)
    BY <1>1, <1>8 DEF Killed, ProcStates
  <1> QED
    BY <1>2, <1>3, <1>4, <1>5, <1>6, <1>7, <1>8 DEF OpdStep

MergeSet == [at : {"none", "open", "rows", "commit"}, rank : 0 .. MaxRanks, row : Nat \ {0}]

(* dbmerge touches the database, and leaves the shell when it is done.     *)
LEMMA MergeFrame ==
  ASSUME Dbmerge
  PROVE  /\ Under("dbmerge") /\ UNCHANGED job
         /\ \/ UNCHANGED shell
            \/ shell' = Tail(shell) /\ merge' = [merge EXCEPT !.at = "none"]
  BY DEF Dbmerge, merge_begin, merge_open, merge_row, merge_end, merge_commit, merge_fail, At

(* What dbmerge inserts is a row of the file it reads, and it reads on     *)
(* only behind a rank whose file exists.                                   *)
LEMMA MergeTypes ==
  ASSUME TypeInv, Dbmerge
  PROVE  /\ merge' \in MergeSet /\ staged' \in Seq(Row) /\ jobs' \in Seq(JobSet(runs))
         /\ misread' \in BOOLEAN /\ failed' \in BOOLEAN
         /\ ReadOK'
  <1>1. /\ merge \in MergeSet /\ staged \in Seq(Row) /\ jobs \in Seq(JobSet(runs))
        /\ misread \in BOOLEAN /\ failed \in BOOLEAN /\ runs \in Nat
        /\ files \in [Ranks -> FileSet(runs)]
    BY DEF TypeInv, TypeOK, MergeSet, FileSet, JobSet
  <1>2. UNCHANGED files
    BY MergeFrame DEF job
  <1>3. MaxRanks \in Nat \ {0}
    BY RanksAssumption
  <1>4. CASE merge_begin
    <2>1. merge' = [at |-> "open", rank |-> 0, row |-> 1]
      BY <1>4 DEF merge_begin
    <2>2. merge' \in MergeSet
      BY <2>1, <1>3 DEF MergeSet
    <2>3. ReadOK'
      BY <2>1 DEF ReadOK
    <2>4. UNCHANGED jobs /\ misread' = FALSE /\ failed' = FALSE /\ staged' = <<>>
      BY <1>4 DEF merge_begin
    <2>5. staged' \in Seq(Row)
      BY <2>4
    <2> QED
      BY <1>1, <2>2, <2>3, <2>4, <2>5
  <1>5. CASE merge_open
    <2>1. merge.at = "open" /\ merge' = [merge EXCEPT !.at = IF exists(merge.rank) THEN "rows" ELSE "commit", !.row = 1]
      BY <1>5 DEF merge_open, At
    <2> DEFINE next == IF exists(merge.rank) THEN "rows" ELSE "commit"
    <2>2. merge' = [at |-> next, rank |-> merge.rank, row |-> 1]
      BY <2>1, <1>1 DEF MergeSet
    <2>3. next \in {"none", "open", "rows", "commit"}
      OBVIOUS
    <2>4. merge' \in MergeSet
      BY <2>2, <2>3, <1>1 DEF MergeSet
    <2>5. ReadOK'
      <3>1. merge'.rank = merge.rank /\ merge'.at = IF exists(merge.rank) THEN "rows" ELSE "commit"
        BY <2>2
      <3>2. \A k \in 0 .. merge.rank - 1 : exists(k)
        BY <2>1 DEF TypeInv, ReadOK
      <3> QED
        BY <3>1, <3>2, <1>2 DEF ReadOK, exists
    <2> QED
      BY <1>1, <1>5, <2>4, <2>5 DEF merge_open
  <1>6. CASE merge_row
    <2>1. merge.at = "rows" /\ merge.row <= Len(Stored.rows) /\ merge' = [merge EXCEPT !.row = @ + 1]
      BY <1>6 DEF merge_row, At
    <2>2. merge' \in MergeSet /\ merge'.at = "rows" /\ merge'.rank = merge.rank
      BY <2>1, <1>1 DEF MergeSet
    <2>3. exists(merge.rank) /\ \A k \in 0 .. merge.rank - 1 : exists(k)
      BY <2>1 DEF TypeInv, ReadOK
    <2>4. ReadOK'
      BY <2>2, <2>3, <1>2 DEF ReadOK, exists
    <2>5. [rank |-> merge.rank, run |-> Stored.run, key |-> Stored.rows[merge.row]] \in Row
      <3>1. merge.rank \in Ranks /\ merge.row \in Nat \ {0}
        BY <2>3, <1>1 DEF exists, MergeSet
      <3>2. Stored.run \in Nat /\ Stored.rows \in Seq(RowKinds)
        BY <3>1, <1>1 DEF Stored, FileSet
      <3>3. Stored.rows[merge.row] \in RowKinds
        BY <3>1, <3>2, <2>1
      <3> QED
        BY <3>1, <3>2, <3>3 DEF Row
    <2>6. staged' \in Seq(Row)
      BY <1>1, <1>6, <2>5 DEF merge_row
    <2> QED
      BY <1>1, <1>6, <2>2, <2>4, <2>6 DEF merge_row
  <1>7. CASE merge_end
    <2>1. merge.at = "rows" /\ merge' = [merge EXCEPT !.at = "open", !.rank = @ + 1]
      BY <1>7 DEF merge_end, At
    <2>2. exists(merge.rank) /\ \A k \in 0 .. merge.rank - 1 : exists(k)
      BY <2>1 DEF TypeInv, ReadOK
    <2>3. merge.rank \in 0 .. MaxRanks - 1
      BY <2>2 DEF exists, Ranks
    <2>4. merge' \in MergeSet /\ merge'.rank = merge.rank + 1 /\ merge'.at = "open"
      <3>1. merge' = [at |-> "open", rank |-> merge.rank + 1, row |-> merge.row]
        BY <2>1, <1>1 DEF MergeSet
      <3>2. merge.rank + 1 \in 0 .. MaxRanks /\ merge.row \in Nat \ {0}
        BY <2>3, <1>1, <1>3 DEF MergeSet
      <3> QED
        BY <3>1, <3>2 DEF MergeSet
    <2>5. ReadOK'
      <3>1. ASSUME NEW k \in 0 .. merge'.rank - 1
            PROVE  exists(k)
        <4>1. k \in 0 .. merge.rank - 1 \/ k = merge.rank
          BY <2>3, <2>4, <1>3
        <4> QED
          BY <4>1, <2>2
      <3>2. \A k \in 0 .. merge'.rank - 1 : exists(k)'
        BY <3>1, <1>2 DEF exists
      <3> QED
        BY <3>2, <2>4 DEF ReadOK
    <2>6. misread' \in BOOLEAN
      BY <1>7 DEF merge_end
    <2> QED
      BY <1>1, <1>7, <2>4, <2>5, <2>6 DEF merge_end
  <1>8. CASE merge_commit
    <2>1. merge' = [merge EXCEPT !.at = "none"] /\ staged' = <<>> /\ UNCHANGED <<misread, failed>>
      BY <1>8 DEF merge_commit
    <2>2. merge' \in MergeSet /\ merge'.at = "none"
      BY <2>1, <1>1 DEF MergeSet
    <2>3. [run |-> runs, rows |-> staged, whole |-> ~misread] \in JobSet(runs)
      BY <1>1 DEF JobSet
    <2>4. jobs' \in Seq(JobSet(runs))
      BY <1>1, <1>8, <2>3 DEF merge_commit
    <2> QED
      BY <1>1, <2>1, <2>2, <2>4 DEF ReadOK
  <1>9. CASE merge_fail
    <2>1. merge' = [merge EXCEPT !.at = "none"] /\ staged' = <<>> /\ UNCHANGED <<jobs, misread>> /\ failed' = TRUE
      BY <1>9 DEF merge_fail
    <2>2. merge' \in MergeSet /\ merge'.at = "none"
      BY <2>1, <1>1 DEF MergeSet
    <2> QED
      BY <1>1, <2>1, <2>2 DEF ReadOK
  <1> QED
    BY <1>4, <1>5, <1>6, <1>7, <1>8, <1>9 DEF Dbmerge

(* The types, and where the processes and the merge stand, are preserved.  *)
LEMMA TypeStep == TypeInv /\ [Next]_vars => TypeInv'
  <1> SUFFICES ASSUME TypeInv, [Next]_vars PROVE TypeInv'
    OBVIOUS
  <1>1. /\ merge \in MergeSet /\ staged \in Seq(Row) /\ jobs \in Seq(JobSet(runs))
        /\ misread \in BOOLEAN /\ failed \in BOOLEAN /\ runs \in Nat
        /\ files \in [Ranks -> FileSet(runs)] /\ procs \in [Ranks -> ProcStates]
        /\ aborting \in BOOLEAN
    BY DEF TypeInv, TypeOK, MergeSet, FileSet, JobSet
  <1>2. ShellOK /\ QuietOK /\ IdleOK /\ ReadOK
    BY DEF TypeInv
  <1>3. SUFFICES /\ ShellOK' /\ QuietOK' /\ IdleOK' /\ ReadOK'
                 /\ merge' \in MergeSet /\ staged' \in Seq(Row) /\ jobs' \in Seq(JobSet(runs'))
                 /\ misread' \in BOOLEAN /\ failed' \in BOOLEAN /\ runs' \in Nat
                 /\ files' \in [Ranks -> FileSet(runs')] /\ procs' \in [Ranks -> ProcStates]
                 /\ aborting' \in BOOLEAN
    <2>1. shell' \in Seq(Commands)
      BY <1>3, LeftCommands DEF ShellOK
    <2> QED
      BY <1>3, <2>1 DEF TypeInv, TypeOK, MergeSet, FileSet, JobSet
  <1>4. CASE Type
    <2>1. ShellOK' /\ UnderMpiexec'
      BY <1>4, ScriptsStart DEF Type
    <2>2. ~Under("dbmerge") /\ merge.at = "none"
      BY <1>2, <1>4 DEF Type, Under, IdleOK
    <2>3. UNCHANGED <<job, database>>
      BY <1>4 DEF Type
    <2> QED
      BY <1>1, <2>1, <2>2, <2>3 DEF QuietOK, IdleOK, ReadOK, job, database
  <1>5. CASE Mpiexec
    <2>1. UnderMpiexec /\ UNCHANGED <<shell, aborting, files, merge, staged, jobs, misread>>
          /\ runs' = runs + 1 /\ failed' = FALSE
      BY <1>5 DEF Mpiexec
    <2>2. procs' \in [Ranks -> ProcStates]
      BY <1>5 DEF Mpiexec, ProcStates
    <2>3. merge.at = "none"
      BY <1>2, <2>1, OneCommand DEF IdleOK
    <2>4. ShellOK' /\ QuietOK' /\ IdleOK' /\ ReadOK'
      BY <1>2, <2>1, <2>3 DEF ShellOK, QuietOK, IdleOK, ReadOK, UnderMpiexec, Under
    <2>5. files' \in [Ranks -> FileSet(runs')] /\ jobs' \in Seq(JobSet(runs'))
      BY <1>1, <2>1, RunsGrow
    <2>6. failed' \in BOOLEAN /\ misread' \in BOOLEAN /\ aborting' \in BOOLEAN
      <3>1. failed' = FALSE /\ misread' = misread /\ aborting' = aborting
        BY <2>1
      <3> QED
        BY <1>1, <3>1, Zenon
    <2>7. runs' \in Nat
      BY <1>1, <2>1
    <2>8. merge' \in MergeSet /\ staged' \in Seq(Row)
      BY <1>1, <2>1
    <2> QED
      BY <2>2, <2>4, <2>5, <2>6, <2>7, <2>8
  <1>6. CASE MpiexecReturns
    <2>1. UnderMpiexec /\ shell' = Tail(shell) /\ UNCHANGED <<files, runs, database>>
          /\ procs' = [r \in Ranks |-> "none"] /\ aborting' = FALSE
      BY <1>6 DEF MpiexecReturns
    <2>2. ShellOK' /\ Under("dbmerge")'
      BY <1>2, <2>1, OneCommand, ShellSteps
    <2>3. merge.at = "none"
      BY <1>2, <2>1, OneCommand DEF IdleOK
    <2> QED
      BY <1>1, <2>1, <2>2, <2>3 DEF QuietOK, IdleOK, ReadOK, database, ProcStates
  <1>7. CASE RemoveFiles
    <2>1. UnderRm /\ shell' = Tail(shell) /\ UNCHANGED <<procs, aborting, runs, database>>
      BY <1>7 DEF RemoveFiles
    <2>2. files' = files \/ files' = [r \in Ranks |-> NoFile]
      BY <1>7 DEF RemoveFiles
    <2>3. files' \in [Ranks -> FileSet(runs)]
      <3>1. NoFile \in FileSet(runs)
        BY <1>1 DEF NoFile, FileSet
      <3> QED
        BY <1>1, <2>2, <3>1
    <2>4. ~UnderMpiexec /\ ~Under("dbmerge") /\ shell # <<>>
      BY <2>1, OneCommand
    <2>5. ShellOK'
      BY <1>2, <2>1, <2>4, ShellSteps
    <2> QED
      BY <1>1, <1>2, <2>1, <2>3, <2>4, <2>5 DEF QuietOK, IdleOK, ReadOK, database
  <1>8. CASE EndJob
    <2>1. UNCHANGED <<shell, procs, files, runs, database>> /\ aborting' = TRUE
      BY <1>8 DEF EndJob
    <2>2. ShellOK' /\ QuietOK' /\ IdleOK' /\ ReadOK'
      BY <1>2, <2>1 DEF ShellOK, QuietOK, IdleOK, ReadOK, UnderMpiexec, Under, exists, database
    <2> QED
      BY <1>1, <2>1, <2>2 DEF database
  <1>9. CASE Interrupt
    <2>1. /\ shell' = <<>> /\ procs' = [r \in Ranks |-> "none"] /\ aborting' = FALSE
          /\ merge' = [merge EXCEPT !.at = "none"] /\ staged' = <<>>
          /\ UNCHANGED <<files, runs, jobs, misread, failed>>
      BY <1>9 DEF Interrupt
    <2>2. merge' \in MergeSet /\ merge'.at = "none"
      BY <1>1, <2>1 DEF MergeSet
    <2>3. ShellOK' /\ QuietOK' /\ IdleOK' /\ ReadOK'
      BY <2>1, <2>2 DEF ShellOK, Left, QuietOK, IdleOK, ReadOK
    <2>4. procs' \in [Ranks -> ProcStates] /\ staged' \in Seq(Row)
      BY <2>1 DEF ProcStates
    <2> QED
      BY <1>1, <2>1, <2>2, <2>3, <2>4
  <1>10. CASE \E r \in Ranks : OpdStep(r)
    <2>1. PICK r \in Ranks : OpdStep(r)
      BY <1>10
    <2>2. /\ procs[r] # "none" /\ UNCHANGED <<shell, runs, database>>
          /\ procs' \in [Ranks -> ProcStates] /\ aborting' \in BOOLEAN
          /\ files' \in [Ranks -> FileSet(runs)]
      BY <2>1, OpdSteps DEF TypeInv
    <2>3. UnderMpiexec
      BY <1>2, <2>2 DEF QuietOK
    <2>4. merge.at = "none"
      BY <1>2, <2>3, OneCommand DEF IdleOK
    <2>5. ShellOK' /\ QuietOK' /\ IdleOK' /\ ReadOK'
      BY <1>2, <2>2, <2>3, <2>4 DEF ShellOK, QuietOK, IdleOK, ReadOK, UnderMpiexec, Under, database
    <2> QED
      BY <1>1, <2>2, <2>5 DEF database
  <1>11. CASE Dbmerge
    <2>1. /\ merge' \in MergeSet /\ staged' \in Seq(Row) /\ jobs' \in Seq(JobSet(runs))
          /\ misread' \in BOOLEAN /\ failed' \in BOOLEAN /\ ReadOK'
      BY <1>11, MergeTypes
    <2>2. Under("dbmerge") /\ UNCHANGED job
      BY <1>11, MergeFrame
    <2>3. \A r \in Ranks : procs[r] = "none"
      BY <1>2, <2>2, OneCommand DEF QuietOK
    <2>4. CASE UNCHANGED shell
      BY <1>1, <1>2, <2>1, <2>2, <2>3, <2>4 DEF job, ShellOK, QuietOK, IdleOK, Under
    <2>5. CASE shell' = Tail(shell) /\ merge' = [merge EXCEPT !.at = "none"]
      <3>1. ShellOK'
        BY <1>2, <2>2, <2>5, OneCommand, ShellSteps
      <3>2. merge'.at = "none"
        BY <1>1, <2>5 DEF MergeSet
      <3> QED
        BY <1>1, <2>1, <2>2, <2>3, <3>1, <3>2 DEF job, QuietOK, IdleOK
    <2> QED
      BY <1>11, <2>4, <2>5, MergeFrame
  <1>12. CASE UNCHANGED vars
    <2>1. ShellOK' /\ QuietOK' /\ IdleOK' /\ ReadOK'
      BY <1>2, <1>12 DEF vars, job, database, ShellOK, QuietOK, IdleOK, ReadOK, UnderMpiexec, Under, exists
    <2> QED
      BY <1>1, <1>12, <2>1 DEF vars, job, database
  <1> QED
    BY <1>4, <1>5, <1>6, <1>7, <1>8, <1>9, <1>10, <1>11, <1>12 DEF Next

----------------------------------------------------------------------------
(* What the merge commits.                                                 *)

(* Rows are inserted behind those that are there: what the files hold so   *)
(* far stays where it is.                                                  *)
LEMMA LaidAppend ==
  ASSUME NEW S, NEW rows \in Seq(S), NEW row \in S, NEW n \in 0 .. MaxRanks,
         NEW start \in Starts(rows), Laid(rows, start, n),
         files \in [Ranks -> FileSet(runs)]
  PROVE  start \in Starts(Append(rows, row)) /\ Laid(Append(rows, row), start, n)
  <1> DEFINE more == Append(rows, row)
  <1>1. more \in Seq(S) /\ Len(more) = Len(rows) + 1 /\ \A i \in 1 .. Len(rows) : more[i] = rows[i]
    OBVIOUS
  <1>2. Len(rows) \in Nat /\ MaxRanks \in Nat \ {0}
    BY RanksAssumption
  <1>3. 0 .. Len(rows) \subseteq 0 .. Len(more)
    BY <1>1, <1>2
  <1>4. start \in Starts(more)
    BY <1>3 DEF Starts
  <1>5. ASSUME NEW k \in 0 .. n - 1
        PROVE  /\ start[k + 1] = start[k] + Len(files[k].rows)
               /\ Holds(more, start[k], k, Len(files[k].rows))
    <2>1. k \in Ranks /\ k + 1 \in 0 .. MaxRanks /\ k \in 0 .. MaxRanks
      BY <1>2 DEF Ranks
    <2>2. start[k] \in 0 .. Len(rows) /\ start[k + 1] \in 0 .. Len(rows)
      BY <2>1 DEF Starts
    <2>3. Len(files[k].rows) \in Nat
      BY <2>1 DEF FileSet
    <2>4. start[k + 1] = start[k] + Len(files[k].rows) /\ Holds(rows, start[k], k, Len(files[k].rows))
      BY DEF Laid
    <2>5. ASSUME NEW i \in 1 .. Len(files[k].rows)
          PROVE  more[start[k] + i] = RowOf(k, i)
      <3>1. start[k] + i \in 1 .. Len(rows)
        BY <1>2, <2>2, <2>3, <2>4
      <3>2. rows[start[k] + i] = RowOf(k, i)
        BY <2>4 DEF Holds
      <3> QED
        BY <1>1, <3>1, <3>2
    <2> QED
      BY <2>4, <2>5 DEF Holds
  <1>6. Laid(more, start, n)
    BY <1>5 DEF Laid
  <1> QED
    BY <1>4, <1>6

(* dbmerge stages the files one row and one rank at a time.                *)
LEMMA StagedStep ==
  ASSUME TypeInv, StagedOK, Dbmerge
  PROVE  StagedOK'
  <1>1. /\ merge \in MergeSet /\ staged \in Seq(Row) /\ misread \in BOOLEAN
        /\ files \in [Ranks -> FileSet(runs)] /\ MaxRanks \in Nat \ {0}
    BY RanksAssumption DEF TypeInv, TypeOK, MergeSet, FileSet
  <1>2. files' = files
    BY MergeFrame DEF job
  <1>3. merge.rank \in 0 .. MaxRanks /\ merge.row \in Nat \ {0} /\ Len(staged) \in Nat
    BY <1>1 DEF MergeSet
  <1>4. SUFFICES ASSUME merge'.at # "none", ~misread'
                 PROVE  \E start \in Starts(staged') :
                          /\ Laid(staged', start, merge'.rank)
                          /\ IF merge'.at = "rows" THEN Part(staged', start, merge'.rank, merge'.row)
                             ELSE Len(staged') = start[merge'.rank]
    BY <1>2 DEF StagedOK, Laid, Part, Holds, RowOf, Starts
  <1>5. CASE merge_begin
    <2>1. staged' = <<>> /\ merge'.rank = 0 /\ merge'.at = "open"
      BY <1>5 DEF merge_begin
    <2> DEFINE start == [k \in 0 .. MaxRanks |-> 0]
    <2>2. start \in Starts(staged') /\ start[0] = 0 /\ Len(staged') = 0
      BY <1>1, <2>1 DEF Starts
    <2>3. Laid(staged', start, merge'.rank)
      BY <2>1, <2>2 DEF Laid
    <2> QED
      BY <2>1, <2>2, <2>3
  <1>6. CASE merge_open
    <2>1. /\ merge.at = "open" /\ staged' = staged /\ misread' = misread
          /\ merge' = [merge EXCEPT !.at = IF exists(merge.rank) THEN "rows" ELSE "commit", !.row = 1]
      BY <1>6 DEF merge_open, At
    <2>2. /\ merge'.rank = merge.rank /\ merge'.row = 1
          /\ merge'.at = IF exists(merge.rank) THEN "rows" ELSE "commit"
      BY <1>1, <2>1 DEF MergeSet
    <2>3. PICK start \in Starts(staged) : Laid(staged, start, merge.rank) /\ Len(staged) = start[merge.rank]
      BY <1>4, <2>1 DEF StagedOK
    <2>4. ASSUME merge'.at = "rows" PROVE Part(staged, start, merge.rank, 1)
      <3>1. merge.rank \in Ranks
        BY <2>2, <2>4 DEF exists
      <3>2. Len(files[merge.rank].rows) \in Nat
        BY <1>1, <3>1 DEF FileSet
      <3>3. start[merge.rank] \in Nat
        BY <1>3, <2>3
      <3> QED
        BY <2>3, <3>2, <3>3 DEF Part, Holds
    <2> QED
      BY <2>1, <2>2, <2>3, <2>4
  <1>7. CASE merge_row
    <2> DEFINE row  == [rank |-> merge.rank, run |-> Stored.run, key |-> Stored.rows[merge.row]]
               more == Append(staged, row)
    <2>1. /\ merge.at = "rows" /\ merge.row <= Len(Stored.rows) /\ misread' = misread
          /\ staged' = more /\ merge' = [merge EXCEPT !.row = @ + 1]
      BY <1>7 DEF merge_row, At
    <2>2. merge'.rank = merge.rank /\ merge'.row = merge.row + 1 /\ merge'.at = "rows"
      BY <1>1, <2>1 DEF MergeSet
    <2>3. PICK start \in Starts(staged) :
            Laid(staged, start, merge.rank) /\ Part(staged, start, merge.rank, merge.row)
      BY <1>4, <2>1 DEF StagedOK
    <2>4. merge.rank \in Ranks
      BY <2>1 DEF TypeInv, ReadOK, exists
    <2>5. /\ Stored.run \in Nat /\ Stored.rows \in Seq(RowKinds) /\ Len(Stored.rows) \in Nat
          /\ Stored = files[merge.rank]
      BY <1>1, <2>4 DEF Stored, FileSet
    <2>6. row \in Row /\ row = RowOf(merge.rank, merge.row)
      <3>1. Stored.rows[merge.row] \in RowKinds
        BY <1>3, <2>1, <2>5
      <3> QED
        BY <2>4, <2>5, <3>1 DEF Row, RowOf
    <2>7. start \in Starts(more) /\ Laid(more, start, merge.rank)
      <3> HIDE DEF row
      <3> QED
        BY <1>1, <1>3, <2>3, <2>6, LaidAppend
    <2>8. Part(more, start, merge.rank, merge.row + 1)
      <3>1. /\ Len(more) = Len(staged) + 1 /\ more[Len(staged) + 1] = row
            /\ \A k \in 1 .. Len(staged) : more[k] = staged[k]
        <4> HIDE DEF row
        <4> QED
          BY <1>1, <2>6
      <3>2. start[merge.rank] \in 0 .. Len(staged)
        BY <1>3, <2>3 DEF Starts
      <3>3. Len(staged) = start[merge.rank] + merge.row - 1
            /\ Holds(staged, start[merge.rank], merge.rank, merge.row - 1)
        BY <2>3 DEF Part
      <3>4. merge.row + 1 <= Len(files[merge.rank].rows) + 1
        BY <1>3, <2>1, <2>5
      <3>5. Len(more) = start[merge.rank] + (merge.row + 1) - 1
        BY <1>3, <3>1, <3>2, <3>3
      <3>6. ASSUME NEW k \in 1 .. (merge.row + 1) - 1
            PROVE  more[start[merge.rank] + k] = RowOf(merge.rank, k)
        <4>1. CASE k = merge.row
          <5>1. start[merge.rank] + k = Len(staged) + 1
            BY <1>3, <3>2, <3>3, <4>1
          <5> QED
            BY <2>6, <3>1, <4>1, <5>1
        <4>2. CASE k # merge.row
          <5>1. k \in 1 .. merge.row - 1
            BY <1>3, <4>2
          <5>2. start[merge.rank] + k \in 1 .. Len(staged)
            BY <1>3, <3>2, <3>3, <5>1
          <5> QED
            BY <3>1, <3>3, <5>1, <5>2 DEF Holds
        <4> QED
          BY <4>1, <4>2
      <3> QED
        BY <3>4, <3>5, <3>6 DEF Part, Holds
    <2> QED
      BY <2>1, <2>2, <2>7, <2>8
  <1>8. CASE merge_end
    <2>1. /\ merge.at = "rows" /\ merge' = [merge EXCEPT !.at = "open", !.rank = @ + 1]
          /\ staged' = staged /\ ~misread /\ ~(merge.row <= Len(Stored.rows))
      BY <1>4, <1>8 DEF merge_end, At
    <2>2. merge'.rank = merge.rank + 1 /\ merge'.at = "open"
      BY <1>1, <2>1 DEF MergeSet
    <2>3. PICK start \in Starts(staged) :
            Laid(staged, start, merge.rank) /\ Part(staged, start, merge.rank, merge.row)
      BY <2>1 DEF StagedOK
    <2>4. merge.rank \in Ranks
      BY <2>1 DEF TypeInv, ReadOK, exists
    <2>5. Len(files[merge.rank].rows) \in Nat /\ Stored = files[merge.rank]
      BY <1>1, <2>4 DEF Stored, FileSet
    <2>6. merge.row - 1 = Len(files[merge.rank].rows)
      BY <1>3, <2>1, <2>3, <2>5 DEF Part
    <2> DEFINE next == [start EXCEPT ![merge.rank + 1] = Len(staged)]
    <2>7. merge.rank + 1 \in 1 .. MaxRanks /\ merge.rank \in 0 .. MaxRanks
      BY <1>1, <1>3, <2>4 DEF Ranks
    <2>8. /\ next \in Starts(staged) /\ next[merge.rank + 1] = Len(staged)
          /\ \A k \in 0 .. merge.rank : next[k] = start[k]
      BY <1>1, <1>3, <2>3, <2>7 DEF Starts
    <2>9. next[0] = 0
      BY <1>3, <2>3, <2>8 DEF Laid
    <2>10. start[merge.rank] \in Nat
      BY <1>3, <2>3, <2>7 DEF Starts
    <2>11. ASSUME NEW k \in 0 .. merge.rank
           PROVE  /\ next[k + 1] = next[k] + Len(files[k].rows)
                  /\ Holds(staged, next[k], k, Len(files[k].rows))
      <3>1. CASE k = merge.rank
        <4>1. Len(staged) = start[k] + Len(files[k].rows)
              /\ Holds(staged, start[k], k, Len(files[k].rows))
          BY <1>3, <2>3, <2>5, <2>6, <2>10, <3>1 DEF Part
        <4> QED
          BY <2>8, <3>1, <4>1
      <3>2. CASE k # merge.rank
        <4>1. k \in 0 .. merge.rank - 1 /\ k + 1 \in 0 .. merge.rank
          BY <1>3, <3>2
        <4>2. next[k] = start[k] /\ next[k + 1] = start[k + 1]
          BY <2>8, <4>1
        <4> QED
          BY <2>3, <4>1, <4>2 DEF Laid
      <3> QED
        BY <3>1, <3>2
    <2>12. Laid(staged, next, merge.rank + 1)
      <3>1. 0 .. (merge.rank + 1) - 1 = 0 .. merge.rank
        BY <1>3
      <3> QED
        BY <2>9, <2>11, <3>1 DEF Laid
    <2> QED
      BY <2>1, <2>2, <2>8, <2>12
  <1>9. CASE merge_commit
    BY <1>1, <1>4, <1>9 DEF merge_commit, MergeSet
  <1>10. CASE merge_fail
    BY <1>1, <1>4, <1>10 DEF merge_fail, MergeSet
  <1> QED
    BY <1>5, <1>6, <1>7, <1>8, <1>9, <1>10 DEF Dbmerge

(* A commit without an error taken for the end of a file: the job is made  *)
(* of what the files hold.                                                 *)
LEMMA CommitStep ==
  ASSUME TypeInv, StagedOK, merge_commit
  PROVE  jobs' # <<>> /\ (~misread => Contents(Last(jobs').rows))
  <1>1. /\ merge \in MergeSet /\ staged \in Seq(Row) /\ jobs \in Seq(JobSet(runs))
        /\ misread \in BOOLEAN /\ runs \in Nat
    BY DEF TypeInv, TypeOK, MergeSet, JobSet
  <1> DEFINE new == [run |-> runs, rows |-> staged, whole |-> ~misread]
  <1>2. merge.at = "commit" /\ jobs' = Append(jobs, new)
    BY DEF merge_commit, At
  <1>3. new \in JobSet(runs)
    BY <1>1 DEF JobSet
  <1>4. jobs' # <<>> /\ Last(jobs') = new
    <2> HIDE DEF new
    <2> QED
      BY <1>1, <1>2, <1>3 DEF Last
  <1>5. ASSUME ~misread PROVE Contents(staged)
    <2>1. PICK start \in Starts(staged) : Laid(staged, start, merge.rank) /\ Len(staged) = start[merge.rank]
      BY <1>2, <1>5 DEF StagedOK
    <2>2. ~exists(merge.rank) /\ \A k \in 0 .. merge.rank - 1 : exists(k)
      BY <1>2 DEF TypeInv, ReadOK
    <2>3. merge.rank \in 0 .. MaxRanks
      BY <1>1 DEF MergeSet
    <2> QED
      BY <2>1, <2>2, <2>3 DEF Contents
  <1> QED
    BY <1>4, <1>5

(* A job that is kept stays kept, as long as nothing but shell, procs and  *)
(* the like changes: Contents speaks of the files alone.                   *)
LEMMA FilesFrame ==
  ASSUME files' = files, jobs' = jobs, staged' = staged, merge' = merge
  PROVE  /\ Contents(Last(jobs).rows) => Contents(Last(jobs).rows)'
         /\ StagedOK /\ misread' = misread => StagedOK'
  BY DEF Contents, StagedOK, Laid, Part, Holds, RowOf, Starts, exists

(* The invariant holds before the first command of the shell.              *)
LEMMA InvInit == Init => Inv
  <1> SUFFICES ASSUME Init PROVE Inv
    OBVIOUS
  <1>1. shell = <<>> /\ ShellOK /\ ~UnderRm /\ merge.at = "none"
    BY DEF Init, ShellOK, Left, UnderRm, Under
  <1>2. shell \in Seq(Commands)
    BY <1>1, LeftCommands DEF ShellOK
  <1>3. NoFile \in FileSet(0)
    BY DEF NoFile, FileSet
  <1>4. procs \in [Ranks -> ProcStates] /\ files \in [Ranks -> FileSet(0)] /\ runs = 0
    BY <1>3 DEF Init, ProcStates
  <1>5. merge \in MergeSet
    BY RanksAssumption DEF Init, MergeSet
  <1>6. staged \in Seq(Row) /\ jobs \in Seq(JobSet(0))
    BY DEF Init
  <1>7. aborting \in BOOLEAN /\ misread \in BOOLEAN /\ failed \in BOOLEAN
    BY DEF Init
  <1>8. TypeOK
    BY <1>2, <1>4, <1>5, <1>6, <1>7 DEF TypeOK, FileSet, JobSet, MergeSet
  <1>9. QuietOK /\ IdleOK /\ ReadOK
    BY <1>1 DEF Init, QuietOK, IdleOK, ReadOK
  <1>10. StagedOK /\ KeptOK
    BY <1>1 DEF StagedOK, KeptOK
  <1> QED
    BY <1>1, <1>8, <1>9, <1>10 DEF Inv, TypeInv

(* Only dbmerge stages rows, and only dbmerge leaves them to a removal.    *)
LEMMA InvStep == Inv /\ [Next]_vars => Inv'
  <1> SUFFICES ASSUME Inv, [Next]_vars PROVE Inv'
    OBVIOUS
  <1>1. TypeInv /\ StagedOK /\ KeptOK
    BY DEF Inv
  <1>2. TypeInv'
    BY <1>1, TypeStep
  <1>3. merge \in MergeSet /\ ShellOK /\ QuietOK /\ IdleOK
    BY <1>1 DEF TypeInv, TypeOK, MergeSet
  <1>4. SUFFICES StagedOK' /\ KeptOK'
    BY <1>2 DEF Inv
  <1>5. ASSUME merge'.at = "none", ~UnderRm' PROVE StagedOK' /\ KeptOK'
    BY <1>5 DEF StagedOK, KeptOK
  <1>6. ASSUME ~Under("dbmerge"), merge' = merge, ~UnderRm' PROVE StagedOK' /\ KeptOK'
    BY <1>3, <1>5, <1>6 DEF IdleOK
  <1>7. CASE Type
    <2>1. UnderMpiexec' /\ ~Under("dbmerge") /\ merge' = merge
      BY <1>7, ScriptsStart DEF Type, Under, database
    <2>2. ~UnderRm'
      BY <2>1 DEF UnderMpiexec, UnderRm, Under
    <2> QED
      BY <1>6, <2>1, <2>2
  <1>8. CASE Mpiexec
    <2>1. UnderMpiexec /\ shell' = shell /\ merge' = merge
      BY <1>8 DEF Mpiexec
    <2>2. ~UnderRm' /\ ~Under("dbmerge")
      BY <2>1, OneCommand DEF UnderRm, Under
    <2> QED
      BY <1>6, <2>1, <2>2
  <1>9. CASE MpiexecReturns
    <2>1. UnderMpiexec /\ shell' = Tail(shell) /\ merge' = merge
      BY <1>9 DEF MpiexecReturns, database
    <2>2. ~UnderRm' /\ ~Under("dbmerge")
      BY <1>3, <2>1, OneCommand, ShellSteps
    <2> QED
      BY <1>6, <2>1, <2>2
  <1>10. CASE RemoveFiles
    <2>1. UnderRm /\ shell' = Tail(shell) /\ merge' = merge
      BY <1>10 DEF RemoveFiles, database
    <2>2. shell' = <<>> /\ ~Under("dbmerge")
      BY <1>3, <2>1, OneCommand, ShellSteps
    <2>3. ~UnderRm'
      BY <2>2 DEF UnderRm, Under
    <2> QED
      BY <1>6, <2>1, <2>2, <2>3
  <1>11. CASE EndJob
    <2>1. UNCHANGED <<shell, files, merge, staged, jobs, misread, failed>>
      BY <1>11 DEF EndJob, database
    <2> QED
      BY <1>1, <2>1, FilesFrame DEF KeptOK, UnderRm, Under
  <1>12. CASE Interrupt
    <2>1. shell' = <<>> /\ merge' = [merge EXCEPT !.at = "none"]
      BY <1>12 DEF Interrupt
    <2>2. ~UnderRm' /\ merge'.at = "none"
      BY <1>3, <2>1 DEF UnderRm, Under, MergeSet
    <2> QED
      BY <1>5, <2>2
  <1>13. CASE \E r \in Ranks : OpdStep(r)
    <2>1. PICK r \in Ranks : OpdStep(r)
      BY <1>13
    <2>2. procs[r] # "none" /\ shell' = shell /\ merge' = merge
      BY <1>1, <2>1, OpdSteps DEF TypeInv, database
    <2>3. UnderMpiexec
      BY <1>3, <2>2 DEF QuietOK
    <2>4. ~UnderRm' /\ ~Under("dbmerge")
      BY <2>2, <2>3, OneCommand DEF UnderRm, Under
    <2> QED
      BY <1>6, <2>2, <2>4
  <1>14. CASE Dbmerge
    <2>1. Under("dbmerge") /\ ~UnderRm /\ files' = files
      BY <1>14, MergeFrame, OneCommand DEF job
    <2>2. StagedOK'
      BY <1>1, <1>14, StagedStep
    <2>3. CASE merge_commit
      <3>1. jobs' # <<>> /\ (~misread => Contents(Last(jobs').rows))
        BY <1>1, <2>3, CommitStep
      <3>2. misread' = misread
        BY <2>3 DEF merge_commit
      <3>3. Contents(Last(jobs').rows) => Contents(Last(jobs).rows)'
        BY <2>1 DEF Contents, Laid, Holds, RowOf, Starts, exists
      <3> QED
        BY <2>2, <3>1, <3>2, <3>3 DEF KeptOK
    <2>4. CASE merge_fail
      BY <2>2, <2>4 DEF merge_fail, KeptOK
    <2>5. CASE merge_begin \/ merge_open \/ merge_row \/ merge_end
      <3>1. shell' = shell
        BY <2>5 DEF merge_begin, merge_open, merge_row, merge_end
      <3> QED
        BY <2>1, <2>2, <3>1 DEF KeptOK, UnderRm, Under
    <2> QED
      BY <1>14, <2>3, <2>4, <2>5 DEF Dbmerge
  <1>15. CASE UNCHANGED vars
    <2>1. UNCHANGED <<shell, files, merge, staged, jobs, misread, failed>>
      BY <1>15 DEF vars, job, database
    <2> QED
      BY <1>1, <2>1, FilesFrame DEF KeptOK, UnderRm, Under
  <1> QED
    BY <1>7, <1>8, <1>9, <1>10, <1>11, <1>12, <1>13, <1>14, <1>15 DEF Next

(* The invariant holds in every state.                                     *)
LEMMA Invariance == Spec => []Inv
  BY InvInit, InvStep, PTL DEF Spec

----------------------------------------------------------------------------
(* The variables stay within their types, for any size of the job: a rank  *)
(* that is merged is a rank of the job, and a row one of its file's rows.  *)
THEOREM TypeCorrect == Spec => []TypeOK
  <1>1. Inv => TypeOK
    BY DEF Inv, TypeInv
  <1> QED
    BY <1>1, Invariance, PTL

(* dbmerge commits the rows of the files, rank by rank and in their order, *)
(* up to the first rank without a file, and nothing else - unless an error *)
(* of sqlite3_step went for the end of a file.                             *)
THEOREM MergeIsWhole == Spec => CommitsTheFiles
  <1>1. Inv /\ [Next]_vars => [jobs' # jobs /\ Last(jobs').whole => Contents(Last(jobs').rows)]_vars
    <2> SUFFICES ASSUME Inv, [Next]_vars, jobs' # jobs, Last(jobs').whole
                 PROVE  Contents(Last(jobs').rows)
      OBVIOUS
    <2>1. TypeInv /\ StagedOK
      BY DEF Inv
    <2>2. CASE merge_commit
      <3>1. Last(jobs').whole = ~misread
        <4>1. runs \in Nat /\ staged \in Seq(Row) /\ misread \in BOOLEAN /\ jobs \in Seq(JobSet(runs))
          BY <2>1 DEF TypeInv, TypeOK, JobSet
        <4> DEFINE new == [run |-> runs, rows |-> staged, whole |-> ~misread]
        <4>2. new \in JobSet(runs) /\ jobs' = Append(jobs, new)
          BY <2>2, <4>1 DEF JobSet, merge_commit
        <4>3. Last(jobs') = new
          <5> HIDE DEF new
          <5> QED
            BY <4>1, <4>2 DEF Last
        <4>4. new.whole = ~misread
          BY Zenon
        <4> QED
          BY <4>3, <4>4
      <3> QED
        BY <2>1, <2>2, <3>1, CommitStep
    <2>3. CASE ~merge_commit
      <3>1. \A r \in Ranks : OpdStep(r) => jobs' = jobs
        BY <2>1, OpdSteps DEF TypeInv, database
      <3> QED
        BY <2>3, <3>1 DEF Next, vars, database, Type, Mpiexec, MpiexecReturns, RemoveFiles,
           EndJob, Interrupt, Dbmerge, merge_begin, merge_open, merge_row, merge_end, merge_fail
    <2> QED
      BY <2>2, <2>3
  <1> QED
    BY <1>1, Invariance, PTL DEF Spec, CommitsTheFiles

(* A file whose rows are in the contents has them there together.          *)
LEMMA ContentsSave ==
  ASSUME NEW S, NEW rows \in Seq(S), Contents(rows), files \in [Ranks -> FileSet(runs)],
         NEW r \in Ranks, \A k \in 0 .. r : exists(k)
  PROVE  Saved(r, rows)
  <1>1. PICK n \in 0 .. MaxRanks, start \in Starts(rows) :
          /\ ~exists(n) /\ \A k \in 0 .. n - 1 : exists(k)
          /\ Laid(rows, start, n) /\ start[n] = Len(rows)
    BY DEF Contents
  <1>2. MaxRanks \in Nat \ {0} /\ r \in 0 .. MaxRanks - 1 /\ Len(rows) \in Nat
    BY RanksAssumption DEF Ranks
  <1>3. r \in 0 .. n - 1
    <2>1. ~(n \in 0 .. r)
      BY <1>1
    <2> QED
      BY <1>2, <2>1
  <1>4. start[r + 1] = start[r] + Len(files[r].rows) /\ Holds(rows, start[r], r, Len(files[r].rows))
    BY <1>1, <1>3 DEF Laid
  <1>5. start[r] \in 0 .. Len(rows) /\ start[r + 1] \in 0 .. Len(rows) /\ Len(files[r].rows) \in Nat
    BY <1>1, <1>2 DEF Starts, FileSet
  <1>6. start[r] \in 0 .. Len(rows) - Len(files[r].rows)
    BY <1>2, <1>4, <1>5
  <1> QED
    BY <1>4, <1>6 DEF Saved

(* baseexec removes the file of no rank whose rows are not in the          *)
(* database, but after a merge that failed or misread a file, or behind a  *)
(* rank without a file.                                                    *)
THEOREM RemovalIsSafe == Spec => LosesOnlyUnmerged
  <1> DEFINE Safe == \A r \in Ranks : Removed(r) /\ Mergeable(r) =>
                        jobs # <<>> /\ Saved(r, Last(jobs).rows)
  <1>1. Inv /\ [Next]_vars => [Safe]_vars
    <2> SUFFICES ASSUME Inv, NEW r \in Ranks, Removed(r), Mergeable(r)
                 PROVE  jobs # <<>> /\ Saved(r, Last(jobs).rows)
      OBVIOUS
    <2>1. jobs # <<>> /\ Contents(Last(jobs).rows)
      BY DEF Inv, KeptOK, UnderRm, Removed, Mergeable
    <2>2. files \in [Ranks -> FileSet(runs)] /\ jobs \in Seq(JobSet(runs))
      BY DEF Inv, TypeInv, TypeOK, FileSet, JobSet
    <2>3. Last(jobs).rows \in Seq(Row)
      <3>1. Last(jobs) \in JobSet(runs)
        BY <2>1, <2>2 DEF Last
      <3> QED
        BY <3>1 DEF JobSet
    <2>4. \A k \in 0 .. r : exists(k)
      <3>1. exists(r) /\ \A k \in 0 .. r - 1 : exists(k)
        BY DEF Removed, Mergeable, exists
      <3>2. \A k \in 0 .. r : k = r \/ k \in 0 .. r - 1
        BY RanksAssumption DEF Ranks
      <3> QED
        BY <3>1, <3>2
    <2> QED
      BY <2>1, <2>2, <2>3, <2>4, ContentsSave
  <1> QED
    BY <1>1, Invariance, PTL DEF Spec, LosesOnlyUnmerged

----------------------------------------------------------------------------
(* The report of a fault.                                                  *)

(* What a file holds of a fault: the stop behind nothing but text, the     *)
(* stack behind the stop, the locals behind the stack.                     *)
InOrder(keys) ==
  \A k \in 1 .. Len(keys) :
    /\ keys[k] = "stop"   => \A j \in 1 .. k - 1 : keys[j] = "text"
    /\ keys[k] = "stack"  => k > 1 /\ keys[k - 1] = "stop"
    /\ keys[k] = "locals" => k > 1 /\ keys[k - 1] = "stack"

Texts(keys)    == \A k \in 1 .. Len(keys) : keys[k] = "text"
EndsIn(keys, key) == keys # <<>> /\ keys[Len(keys)] = key

(* A process is as far in the report of its fault as its file is.          *)
FileOK(r) ==
  /\ InOrder(files[r].rows)
  /\ procs[r] = "logging" => Texts(files[r].rows)
  /\ procs[r] = "stop"    => EndsIn(files[r].rows, "stop")
  /\ procs[r] = "stack"   => EndsIn(files[r].rows, "stack")
FilesOK == \A r \in Ranks : FileOK(r)

(* The same of the rows of a job, among those of the same rank.            *)
OneEach(rows) ==
  \A k \in 1 .. Len(rows) :
    /\ rows[k].key = "stop" =>
         \A j \in 1 .. k - 1 : rows[j].key # "text" => rows[j].rank # rows[k].rank
    /\ rows[k].key = "stack" =>
         k > 1 /\ rows[k - 1].key = "stop" /\ rows[k - 1].rank = rows[k].rank
    /\ rows[k].key = "locals" =>
         k > 1 /\ rows[k - 1].key = "stack" /\ rows[k - 1].rank = rows[k].rank

(* The merge reads every rank once, and its file from the start, whether   *)
(* or not it reads to the end.                                             *)
Before(d) == \A k \in 1 .. d : staged[k].rank < merge.rank
ReadOnce ==
  /\ merge.at \in {"open", "commit"} => Before(Len(staged))
  /\ merge.at = "rows" =>
       \E d \in Nat : /\ Len(staged) = d + merge.row - 1
                      /\ Before(d) /\ Holds(staged, d, merge.rank, merge.row - 1)

ReportInv ==
  /\ FilesOK /\ ReadOnce /\ OneEach(staged)
  /\ \A i \in 1 .. Len(jobs) : OneEach(jobs[i].rows)

(* The fields of a row of the database.                                    *)
LEMMA RowTypes ==
  ASSUME NEW rows \in Seq(Row)
  PROVE  \A k \in 1 .. Len(rows) : rows[k].rank \in Nat /\ rows[k].key \in RowKinds
  <1> SUFFICES ASSUME NEW k \in 1 .. Len(rows)
               PROVE  rows[k].rank \in Nat /\ rows[k].key \in RowKinds
    OBVIOUS
  <1>1. rows[k] \in Row
    OBVIOUS
  <1>2. rows[k].rank \in Ranks /\ rows[k].key \in RowKinds
    BY <1>1 DEF Row
  <1>3. \A r \in Ranks : r \in Nat
    BY RanksAssumption DEF Ranks
  <1> QED
    BY <1>2, <1>3

(* A row is written behind the rows that are there.                        *)
LEMMA InOrderAppend ==
  ASSUME NEW keys \in Seq(RowKinds), NEW key \in RowKinds, InOrder(keys),
         \/ key = "text"
         \/ key = "stop" /\ Texts(keys)
         \/ key = "stack" /\ EndsIn(keys, "stop")
         \/ key = "locals" /\ EndsIn(keys, "stack")
  PROVE  InOrder(Append(keys, key)) /\ EndsIn(Append(keys, key), key)
         /\ (key = "text" /\ Texts(keys) => Texts(Append(keys, key)))
  <1> DEFINE more == Append(keys, key)
  <1>1. /\ Len(more) = Len(keys) + 1 /\ Len(keys) \in Nat /\ more # <<>>
        /\ more[Len(keys) + 1] = key
        /\ \A i \in 1 .. Len(keys) : more[i] = keys[i]
        /\ keys # <<>> => Len(keys) > 0
    OBVIOUS
  <1> HIDE DEF more
  <1>2. EndsIn(more, key)
    BY <1>1 DEF EndsIn
  <1>3. key = "text" /\ Texts(keys) => Texts(more)
    BY <1>1 DEF Texts
  <1>4. ASSUME NEW k \in 1 .. Len(more)
        PROVE  /\ more[k] = "stop"   => \A j \in 1 .. k - 1 : more[j] = "text"
               /\ more[k] = "stack"  => k > 1 /\ more[k - 1] = "stop"
               /\ more[k] = "locals" => k > 1 /\ more[k - 1] = "stack"
    <2>1. CASE k \in 1 .. Len(keys)
      <3>1. /\ keys[k] = "stop"   => \A j \in 1 .. k - 1 : keys[j] = "text"
            /\ keys[k] = "stack"  => k > 1 /\ keys[k - 1] = "stop"
            /\ keys[k] = "locals" => k > 1 /\ keys[k - 1] = "stack"
        BY <2>1 DEF InOrder
      <3>2. more[k] = keys[k] /\ \A j \in 1 .. k - 1 : more[j] = keys[j]
        BY <1>1, <2>1
      <3>3. k > 1 => more[k - 1] = keys[k - 1]
        BY <2>1, <3>2
      <3> QED
        BY <3>1, <3>2, <3>3
    <2>2. CASE k = Len(keys) + 1
      <3>1. more[k] = key /\ k - 1 = Len(keys)
        BY <1>1, <2>2
      <3>2. keys # <<>> => k > 1 /\ more[k - 1] = keys[Len(keys)]
        BY <1>1, <3>1
      <3> QED
        BY <1>1, <3>1, <3>2 DEF Texts, EndsIn
    <2> QED
      BY <1>1, <2>1, <2>2
  <1>5. InOrder(more)
    BY <1>4 DEF InOrder
  <1> QED
    BY <1>2, <1>3, <1>5 DEF more

(* A process and its file: what a write does to both.                      *)
LEMMA LogsInOrder ==
  ASSUME TypeOK, FilesOK, NEW r \in Ranks, NEW key \in RowKinds, Logs(r, key),
         NEW to \in ProcStates, procs' = [procs EXCEPT ![r] = to],
         \/ key = "text" /\ to = "logging" /\ procs[r] = "logging"
         \/ key = "stop" /\ to = "stop" /\ procs[r] = "logging"
         \/ key = "stack" /\ to = "stack" /\ procs[r] = "stop"
         \/ key = "locals" /\ to = "done" /\ procs[r] = "stack"
  PROVE  FilesOK'
  <1>1. files \in [Ranks -> FileSet(runs)] /\ procs \in [Ranks -> ProcStates]
    BY DEF TypeOK, FileSet
  <1>2. files[r] \in FileSet(runs) /\ files[r].rows \in Seq(RowKinds)
    BY <1>1 DEF FileSet
  <1>3. /\ files'[r].rows = Append(files[r].rows, key)
        /\ \A q \in Ranks : q # r => files'[q] = files[q] /\ procs'[q] = procs[q]
        /\ procs'[r] = to
    <2>1. files' = [files EXCEPT ![r] = [files[r] EXCEPT !.rows = Append(@, key)]]
      BY <1>1 DEF Logs
    <2>2. files'[r] = [files[r] EXCEPT !.rows = Append(@, key)]
      BY <1>1, <2>1
    <2>3. files'[r].rows = Append(files[r].rows, key)
      BY <1>2, <2>2 DEF FileSet
    <2> QED
      BY <1>1, <2>1, <2>3
  <1>4. FileOK(r)
    BY DEF FilesOK
  <1>5. FileOK(r)'
    <2>1. /\ InOrder(Append(files[r].rows, key)) /\ EndsIn(Append(files[r].rows, key), key)
          /\ (key = "text" /\ Texts(files[r].rows) => Texts(Append(files[r].rows, key)))
      BY <1>2, <1>4, InOrderAppend DEF FileOK
    <2>2. /\ InOrder(files'[r].rows) /\ EndsIn(files'[r].rows, key)
          /\ (key = "text" /\ Texts(files[r].rows) => Texts(files'[r].rows))
      BY <1>3, <2>1
    <2> QED
      BY <1>3, <1>4, <2>2 DEF FileOK
  <1>6. ASSUME NEW q \in Ranks, q # r PROVE FileOK(q)'
    BY <1>3, <1>6 DEF FilesOK, FileOK
  <1> QED
    BY <1>5, <1>6 DEF FilesOK

(* The files stay in order, whenever a process is killed or a file is      *)
(* removed.                                                                *)
LEMMA FilesStep ==
  ASSUME TypeInv, FilesOK, [Next]_vars
  PROVE  FilesOK'
  <1>1. TypeOK /\ files \in [Ranks -> FileSet(runs)] /\ procs \in [Ranks -> ProcStates]
    BY DEF TypeInv, TypeOK, FileSet
  <1>2. ASSUME UNCHANGED files,
               \A r \in Ranks : procs'[r] \in {procs[r], "none", "starting", "done"}
        PROVE  FilesOK'
    BY <1>2 DEF FilesOK, FileOK
  <1>3. InOrder(<<>>) /\ Texts(<<>>)
    <2>1. Len(<<>>) = 0
      OBVIOUS
    <2> QED
      BY <2>1 DEF InOrder, Texts
  <1>4. CASE Mpiexec
    BY <1>2, <1>4 DEF Mpiexec
  <1>5. CASE MpiexecReturns \/ Interrupt
    BY <1>2, <1>5 DEF MpiexecReturns, Interrupt
  <1>6. CASE Type \/ EndJob \/ Dbmerge \/ UNCHANGED vars
    <2>1. UNCHANGED <<files, procs>>
      BY <1>6, MergeFrame DEF Type, EndJob, job, vars
    <2> QED
      BY <1>2, <2>1
  <1>7. CASE RemoveFiles
    <2>1. UNCHANGED procs /\ (files' = files \/ files' = [r \in Ranks |-> NoFile])
      BY <1>7 DEF RemoveFiles
    <2>2. \A r \in Ranks : procs[r] = "none"
      BY <1>7, OneCommand DEF RemoveFiles, TypeInv, QuietOK
    <2> QED
      BY <1>2, <1>3, <2>1, <2>2 DEF FilesOK, FileOK, NoFile
  <1>8. CASE \E r \in Ranks : OpdStep(r)
    <2>1. PICK r \in Ranks : OpdStep(r)
      BY <1>8
    <2>2. CASE opd_refuses(r) \/ opd_exit(r) \/ Killed(r)
      <3>1. UNCHANGED files /\ procs' = [procs EXCEPT ![r] = "done"]
        BY <2>2 DEF opd_refuses, opd_exit, Killed, Becomes
      <3> QED
        BY <1>1, <1>2, <3>1
    <2>3. CASE opd_open(r)
      <3>1. PICK to \in {"logging", "done"}, f \in {NoFile, [run |-> runs, rows |-> <<>>]} :
              procs' = [procs EXCEPT ![r] = to] /\ files' = [files EXCEPT ![r] = f]
        BY <2>3 DEF opd_open, Becomes, db_open
      <3>2. f.rows = <<>>
        BY <3>1 DEF NoFile
      <3>3. /\ files'[r].rows = <<>> /\ procs'[r] = to
            /\ \A q \in Ranks : q # r => files'[q] = files[q] /\ procs'[q] = procs[q]
        BY <1>1, <3>1, <3>2
      <3>4. FileOK(r)'
        BY <1>3, <3>1, <3>3 DEF FileOK
      <3>5. ASSUME NEW q \in Ranks, q # r PROVE FileOK(q)'
        BY <3>3, <3>5 DEF FilesOK, FileOK
      <3> QED
        BY <3>4, <3>5 DEF FilesOK
    <2>4. CASE opd_log(r)
      <3>1. Logs(r, "text") /\ procs[r] = "logging" /\ procs' = [procs EXCEPT ![r] = "logging"]
        BY <1>1, <2>4 DEF opd_log
      <3>2. "logging" \in ProcStates
        BY DEF ProcStates
      <3> QED
        BY <1>1, <3>1, <3>2, Keys, LogsInOrder
    <2>5. CASE opd_fault(r)
      <3>1. Logs(r, "stop") /\ procs[r] = "logging" /\ procs' = [procs EXCEPT ![r] = "stop"]
        BY <2>5 DEF opd_fault, Becomes
      <3>2. "stop" \in ProcStates
        BY DEF ProcStates
      <3> QED
        BY <1>1, <3>1, <3>2, Keys, LogsInOrder
    <2>6. CASE opd_dispatchSigSeg(r)
      <3>1. "stack" \in ProcStates /\ "done" \in ProcStates
        BY DEF ProcStates
      <3>2. CASE Becomes(r, "stop", "stack") /\ Logs(r, "stack")
        <4>1. procs[r] = "stop" /\ procs' = [procs EXCEPT ![r] = "stack"]
          BY <3>2 DEF Becomes
        <4> QED
          BY <1>1, <3>1, <3>2, <4>1, Keys, LogsInOrder
      <3>3. CASE Becomes(r, "stack", "done") /\ Logs(r, "locals")
        <4>1. procs[r] = "stack" /\ procs' = [procs EXCEPT ![r] = "done"]
          BY <3>3 DEF Becomes
        <4> QED
          BY <1>1, <3>1, <3>3, <4>1, Keys, LogsInOrder
      <3> QED
        BY <2>6, <3>2, <3>3 DEF opd_dispatchSigSeg
    <2> QED
      BY <2>1, <2>2, <2>3, <2>4, <2>5, <2>6 DEF OpdStep
  <1> QED
    BY <1>4, <1>5, <1>6, <1>7, <1>8 DEF Next

(* The next row of a file goes behind those before it, and no row of the   *)
(* same rank is anywhere else.                                             *)
LEMMA RowInOrder ==
  ASSUME TypeInv, FilesOK, ReadOnce, OneEach(staged), merge_row
  PROVE  ReadOnce' /\ OneEach(staged)'
  <1>1. /\ merge \in MergeSet /\ staged \in Seq(Row) /\ files \in [Ranks -> FileSet(runs)]
        /\ merge.rank \in Nat /\ merge.row \in Nat \ {0} /\ Len(staged) \in Nat
    BY RanksAssumption DEF TypeInv, TypeOK, MergeSet, FileSet
  <1>2. /\ merge.at = "rows" /\ merge.row <= Len(Stored.rows) /\ files' = files
        /\ merge' = [merge EXCEPT !.row = @ + 1]
    BY DEF merge_row, At, job
  <1>3. merge.rank \in Ranks
    BY <1>2 DEF TypeInv, ReadOK, exists
  <1>4. merge'.rank = merge.rank /\ merge'.row = merge.row + 1 /\ merge'.at = "rows"
    BY <1>1, <1>2 DEF MergeSet
  <1> DEFINE keys == files[merge.rank].rows
             row  == RowOf(merge.rank, merge.row)
             more == Append(staged, row)
  <1>5. /\ keys \in Seq(RowKinds) /\ Len(keys) \in Nat /\ merge.row \in 1 .. Len(keys)
        /\ InOrder(keys)
    BY <1>1, <1>2, <1>3 DEF FileSet, Stored, FilesOK, FileOK
  <1>6. staged' = more
    BY DEF merge_row, RowOf, Stored
  <1>7. /\ row \in Row /\ row.rank = merge.rank /\ row.key = keys[merge.row]
        /\ \A k : RowOf(merge.rank, k).rank = merge.rank /\ RowOf(merge.rank, k).key = keys[k]
    <2>1. files[merge.rank].run \in Nat /\ keys[merge.row] \in RowKinds
      BY <1>1, <1>3, <1>5 DEF FileSet, TypeInv, TypeOK
    <2> QED
      BY <1>3, <2>1 DEF RowOf, Row
  <1>8. PICK d \in Nat : /\ Len(staged) = d + merge.row - 1
                         /\ Before(d) /\ Holds(staged, d, merge.rank, merge.row - 1)
    BY <1>2 DEF ReadOnce
  <1> HIDE DEF row, keys
  <1>9. /\ Len(more) = Len(staged) + 1 /\ more[Len(staged) + 1] = row
        /\ \A k \in 1 .. Len(staged) : more[k] = staged[k]
    BY <1>1, <1>7
  <1> HIDE DEF more
  <1>10. \A k \in 1 .. merge.row - 1 :
           /\ staged[d + k].rank = merge.rank /\ staged[d + k].key = keys[k]
    BY <1>7, <1>8 DEF Holds
  <1>11. ReadOnce'
    <2>1. Len(more) = d + (merge.row + 1) - 1
      BY <1>1, <1>8, <1>9
    <2>2. \A k \in 1 .. d : more[k].rank < merge.rank
      <3>1. \A k \in 1 .. d : k \in 1 .. Len(staged)
        BY <1>1, <1>8
      <3> QED
        BY <1>8, <1>9, <3>1 DEF Before
    <2>3. ASSUME NEW k \in 1 .. (merge.row + 1) - 1
          PROVE  more[d + k] = RowOf(merge.rank, k)
      <3>1. CASE k = merge.row
        <4>1. d + k = Len(staged) + 1
          BY <1>1, <1>8, <3>1
        <4> QED
          BY <1>9, <3>1, <4>1 DEF row
      <3>2. CASE k # merge.row
        <4>1. k \in 1 .. merge.row - 1 /\ d + k \in 1 .. Len(staged)
          BY <1>1, <1>8, <3>2
        <4> QED
          BY <1>8, <1>9, <4>1 DEF Holds
      <3> QED
        BY <3>1, <3>2
    <2>4. /\ Len(staged') = d + merge'.row - 1
          /\ \A k \in 1 .. d : staged'[k].rank < merge'.rank
          /\ \A k \in 1 .. merge'.row - 1 : staged'[d + k] = RowOf(merge'.rank, k)
      BY <1>4, <1>6, <2>1, <2>2, <2>3
    <2> QED
      BY <1>2, <1>4, <2>4 DEF ReadOnce, Before, Holds, RowOf
  <1>12. OneEach(more)
    <2> SUFFICES ASSUME NEW k \in 1 .. Len(more)
                 PROVE
                   /\ more[k].key = "stop" =>
                        \A j \in 1 .. k - 1 : more[j].key # "text" => more[j].rank # more[k].rank
                   /\ more[k].key = "stack" =>
                        k > 1 /\ more[k - 1].key = "stop" /\ more[k - 1].rank = more[k].rank
                   /\ more[k].key = "locals" =>
                        k > 1 /\ more[k - 1].key = "stack" /\ more[k - 1].rank = more[k].rank
      BY DEF OneEach
    <2>1. CASE k \in 1 .. Len(staged)
      <3>1. more[k] = staged[k] /\ \A j \in 1 .. k - 1 : more[j] = staged[j]
        BY <1>1, <1>9, <2>1
      <3>2. k > 1 => more[k - 1] = staged[k - 1]
        BY <2>1, <3>1
      <3>3. /\ staged[k].key = "stop" =>
                 \A j \in 1 .. k - 1 : staged[j].key # "text" => staged[j].rank # staged[k].rank
            /\ staged[k].key = "stack" =>
                 k > 1 /\ staged[k - 1].key = "stop" /\ staged[k - 1].rank = staged[k].rank
            /\ staged[k].key = "locals" =>
                 k > 1 /\ staged[k - 1].key = "stack" /\ staged[k - 1].rank = staged[k].rank
        BY <2>1 DEF OneEach
      <3> QED
        BY <3>1, <3>2, <3>3
    <2>2. CASE k = Len(staged) + 1
      <3>1. k - 1 = Len(staged) /\ k = d + merge.row /\ more[k] = row
        BY <1>1, <1>8, <1>9, <2>2
      <3>2. /\ keys[merge.row] = "stop"   => \A j \in 1 .. merge.row - 1 : keys[j] = "text"
            /\ keys[merge.row] = "stack"  => merge.row > 1 /\ keys[merge.row - 1] = "stop"
            /\ keys[merge.row] = "locals" => merge.row > 1 /\ keys[merge.row - 1] = "stack"
        BY <1>5 DEF InOrder
      <3>3. merge.row > 1 => /\ k > 1 /\ more[k - 1].rank = merge.rank
                             /\ more[k - 1].key = keys[merge.row - 1]
        <4> SUFFICES ASSUME merge.row > 1
                     PROVE  /\ k > 1 /\ more[k - 1].rank = merge.rank
                            /\ more[k - 1].key = keys[merge.row - 1]
          OBVIOUS
        <4>1. /\ merge.row - 1 \in 1 .. merge.row - 1 /\ k - 1 = d + (merge.row - 1)
              /\ k - 1 \in 1 .. Len(staged) /\ k > 1
          BY <1>1, <1>8, <3>1
        <4>2. more[k - 1] = staged[d + (merge.row - 1)]
          BY <1>9, <4>1
        <4> QED
          BY <1>10, <4>1, <4>2
      <3>4. ASSUME keys[merge.row] = "stop", NEW j \in 1 .. k - 1, more[j].key # "text"
            PROVE  more[j].rank # merge.rank
        <4>1. j \in 1 .. Len(staged) /\ more[j] = staged[j] /\ j \in Nat
          BY <1>1, <1>9, <3>1
        <4>2. CASE j <= d
          <5>1. staged[j].rank < merge.rank
            BY <1>8, <4>1, <4>2 DEF Before
          <5>2. staged[j].rank \in Nat
            BY <1>1, <4>1, RowTypes
          <5> QED
            BY <1>1, <4>1, <5>1, <5>2
        <4>3. CASE j > d
          <5>1. j - d \in 1 .. merge.row - 1 /\ j = d + (j - d)
            BY <1>1, <1>8, <4>1, <4>3
          <5>2. staged[j].key = keys[j - d]
            BY <1>10, <5>1
          <5> QED
            BY <3>2, <3>4, <4>1, <5>1, <5>2
        <4> QED
          BY <4>1, <4>2, <4>3
      <3> QED
        BY <1>7, <3>1, <3>2, <3>3, <3>4
    <2> QED
      BY <1>1, <1>9, <2>1, <2>2
  <1>13. OneEach(staged)'
    BY <1>6, <1>12 DEF OneEach
  <1> QED
    BY <1>11, <1>13

(* Every merge, whole or not, sets the rows of a fault down as they were   *)
(* written.                                                                *)
LEMMA ReportStep ==
  ASSUME TypeInv, ReportInv, [Next]_vars
  PROVE  ReportInv'
  <1>1. /\ merge \in MergeSet /\ staged \in Seq(Row) /\ files \in [Ranks -> FileSet(runs)]
        /\ merge.rank \in Nat /\ merge.row \in Nat \ {0} /\ Len(staged) \in Nat
        /\ jobs \in Seq(JobSet(runs))
    BY RanksAssumption DEF TypeInv, TypeOK, MergeSet, FileSet, JobSet
  <1>2. FilesOK'
    BY FilesStep DEF ReportInv
  <1>3. SUFFICES ReadOnce' /\ OneEach(staged)' /\ (\A i \in 1 .. Len(jobs) : OneEach(jobs[i].rows))'
    BY <1>2 DEF ReportInv
  <1>4. ASSUME UNCHANGED database, files' = files \/ merge.at # "rows"
        PROVE  ReadOnce' /\ OneEach(staged)' /\ (\A i \in 1 .. Len(jobs) : OneEach(jobs[i].rows))'
    BY <1>4 DEF database, ReportInv, ReadOnce, Before, Holds, RowOf, OneEach
  <1>5. OneEach(<<>>)
    <2>1. Len(<<>>) = 0
      OBVIOUS
    <2> QED
      BY <2>1 DEF OneEach
  <1>6. ASSUME merge'.at = "none", staged' = <<>>, jobs' = jobs
        PROVE  ReadOnce' /\ OneEach(staged)' /\ (\A i \in 1 .. Len(jobs) : OneEach(jobs[i].rows))'
    BY <1>5, <1>6 DEF ReportInv, ReadOnce, OneEach
  <1>7. CASE Type \/ MpiexecReturns \/ EndJob \/ UNCHANGED vars
    BY <1>4, <1>7 DEF Type, MpiexecReturns, EndJob, job, vars
  <1>8. CASE Mpiexec
    <2>1. UNCHANGED <<files, merge, staged, jobs>>
      BY <1>8 DEF Mpiexec
    <2> QED
      BY <2>1 DEF ReportInv, ReadOnce, Before, Holds, RowOf, OneEach
  <1>9. CASE RemoveFiles
    <2>1. UnderRm /\ UNCHANGED database
      BY <1>9 DEF RemoveFiles
    <2>2. merge.at = "none"
      BY <2>1, OneCommand DEF TypeInv, IdleOK
    <2> QED
      BY <1>4, <2>1, <2>2
  <1>10. CASE Interrupt
    <2>1. merge'.at = "none" /\ staged' = <<>> /\ jobs' = jobs
      BY <1>1, <1>10 DEF Interrupt, MergeSet
    <2> QED
      BY <1>6, <2>1
  <1>11. CASE \E r \in Ranks : OpdStep(r)
    <2>1. PICK r \in Ranks : OpdStep(r)
      BY <1>11
    <2>2. procs[r] # "none" /\ UNCHANGED database
      BY <2>1, OpdSteps DEF TypeInv
    <2>3. merge.at = "none"
      BY <2>2, OneCommand DEF TypeInv, QuietOK, IdleOK
    <2> QED
      BY <1>4, <2>2, <2>3
  <1>12. CASE merge_begin
    <2>1. merge'.at = "open" /\ staged' = <<>> /\ jobs' = jobs /\ Len(<<>>) = 0
      BY <1>12 DEF merge_begin
    <2> QED
      BY <1>5, <2>1 DEF ReportInv, ReadOnce, Before, OneEach
  <1>13. CASE merge_open
    <2>1. /\ merge.at = "open" /\ UNCHANGED <<staged, jobs, files>>
          /\ merge' = [merge EXCEPT !.at = IF exists(merge.rank) THEN "rows" ELSE "commit", !.row = 1]
      BY <1>13 DEF merge_open, At, job
    <2>2. merge'.rank = merge.rank /\ merge'.row = 1 /\ merge'.at \in {"rows", "commit"}
      BY <1>1, <2>1 DEF MergeSet
    <2>3. Before(Len(staged))
      BY <2>1 DEF ReportInv, ReadOnce
    <2>4. Before(Len(staged))'
      BY <2>1, <2>2, <2>3 DEF Before
    <2>5. /\ Len(staged') = Len(staged') + merge'.row - 1 /\ Len(staged') \in Nat
          /\ Holds(staged, Len(staged), merge.rank, merge.row - 1)'
      BY <1>1, <2>1, <2>2 DEF Holds
    <2>6. ReadOnce'
      BY <2>2, <2>4, <2>5 DEF ReadOnce
    <2> QED
      BY <2>1, <2>6 DEF ReportInv, OneEach
  <1>14. CASE merge_row
    <2>1. UNCHANGED jobs
      BY <1>14 DEF merge_row
    <2> QED
      BY <1>14, <2>1, RowInOrder DEF ReportInv, OneEach
  <1>15. CASE merge_end
    <2>1. /\ merge.at = "rows" /\ UNCHANGED <<staged, jobs, files>>
          /\ merge' = [merge EXCEPT !.at = "open", !.rank = @ + 1]
      BY <1>15 DEF merge_end, At, job
    <2>2. merge'.rank = merge.rank + 1 /\ merge'.at = "open"
      BY <1>1, <2>1 DEF MergeSet
    <2>3. PICK d \in Nat : /\ Len(staged) = d + merge.row - 1
                           /\ Before(d) /\ Holds(staged, d, merge.rank, merge.row - 1)
      BY <2>1 DEF ReportInv, ReadOnce
    <2>4. ASSUME NEW k \in 1 .. Len(staged) PROVE staged[k].rank < merge.rank + 1
      <3>0. staged[k].rank \in Nat
        BY <1>1, RowTypes
      <3>1. CASE k <= d
        <4>1. staged[k].rank < merge.rank
          BY <1>1, <2>3, <3>1 DEF Before
        <4> QED
          BY <1>1, <3>0, <4>1
      <3>2. CASE k > d
        <4>1. k - d \in 1 .. merge.row - 1 /\ d + (k - d) = k
          BY <1>1, <2>3, <3>2
        <4>2. staged[d + (k - d)] = RowOf(merge.rank, k - d)
          BY <2>3, <4>1 DEF Holds
        <4>3. staged[k].rank = merge.rank
          BY <4>1, <4>2 DEF RowOf
        <4> QED
          BY <1>1, <4>3
      <3> QED
        BY <1>1, <2>3, <3>1, <3>2
    <2>5. ReadOnce'
      BY <2>1, <2>2, <2>4 DEF ReadOnce, Before
    <2> QED
      BY <2>1, <2>5 DEF ReportInv, OneEach
  <1>16. CASE merge_commit
    <2> DEFINE new == [run |-> runs, rows |-> staged, whole |-> ~misread]
    <2>1. /\ merge'.at = "none" /\ staged' = <<>> /\ jobs' = Append(jobs, new)
      BY <1>1, <1>16 DEF merge_commit, MergeSet
    <2>2. new \in JobSet(runs) /\ new.rows = staged
      BY <1>1 DEF JobSet, TypeInv, TypeOK
    <2> HIDE DEF new
    <2>3. /\ Len(jobs') = Len(jobs) + 1 /\ jobs'[Len(jobs) + 1] = new /\ Len(jobs) \in Nat
          /\ \A i \in 1 .. Len(jobs) : jobs'[i] = jobs[i]
      BY <1>1, <2>1, <2>2
    <2>4. ASSUME NEW i \in 1 .. Len(jobs') PROVE OneEach(jobs'[i].rows)
      <3>1. i \in 1 .. Len(jobs) \/ i = Len(jobs) + 1
        BY <2>3
      <3> QED
        BY <2>2, <2>3, <3>1 DEF ReportInv
    <2>5. (\A i \in 1 .. Len(jobs) : OneEach(jobs[i].rows))'
      BY <2>4 DEF OneEach
    <2> QED
      BY <1>5, <2>1, <2>5 DEF ReadOnce, OneEach
  <1>17. CASE merge_fail
    <2>1. merge'.at = "none" /\ staged' = <<>> /\ jobs' = jobs
      BY <1>1, <1>17 DEF merge_fail, MergeSet
    <2> QED
      BY <1>6, <2>1
  <1> QED
    BY <1>7, <1>8, <1>9, <1>10, <1>11, <1>12, <1>13, <1>14, <1>15, <1>16, <1>17 DEF Next, Dbmerge

(* Before the first job there is no file, no merge and no job.             *)
LEMMA ReportInvInitially == Init => ReportInv
  <1> SUFFICES ASSUME Init PROVE ReportInv
    OBVIOUS
  <1>1. Len(<<>>) = 0
    OBVIOUS
  <1>2. InOrder(<<>>) /\ OneEach(<<>>)
    BY <1>1 DEF InOrder, OneEach
  <1>3. FilesOK
    BY <1>2 DEF Init, FilesOK, FileOK, NoFile
  <1>4. ReadOnce
    BY DEF Init, ReadOnce
  <1> QED
    BY <1>1, <1>2, <1>3, <1>4 DEF Init, ReportInv

(* If the fault rows of a job are of one rank there are at most three, and *)
(* the key of each tells its place.                                        *)
LEMMA ThreeAtMost ==
  ASSUME NEW rows \in Seq(Row), OneEach(rows), OfOneRank(rows),
         NEW a \in Faults(rows), NEW b \in Faults(rows), NEW c \in Faults(rows), a < b, b < c
  PROVE  Faults(rows) = {a, b, c} /\ IsOneFault(rows, a, b, c)
  <1>1. /\ \A k \in Faults(rows) : k \in 1 .. Len(rows) /\ rows[k].key \in {"stop", "stack", "locals"}
        /\ \A k \in 1 .. Len(rows) : rows[k].key # "text" => k \in Faults(rows)
        /\ Len(rows) \in Nat
    <2>1. \A key \in RowKinds : key # "text" => key \in {"stop", "stack", "locals"}
      BY DEF RowKinds, FaultRows, ToSet
    <2> QED
      BY <2>1, RowTypes DEF Faults
  (* Wherever the report begins, it has its stop there.                    *)
  <1>2. ASSUME NEW k \in Faults(rows)
        PROVE  \E m \in Faults(rows) :
                 /\ rows[m].key = "stop"
                 /\ \/ k = m /\ rows[k].key = "stop"
                    \/ k = m + 1 /\ rows[k].key = "stack"
                    \/ k = m + 2 /\ rows[k].key = "locals"
    <2>1. k \in 1 .. Len(rows)
      BY <1>1
    <2>2. CASE rows[k].key = "stop"
      BY <2>2
    <2>3. CASE rows[k].key = "stack"
      <3>1. k - 1 \in 1 .. Len(rows) /\ rows[k - 1].key = "stop" /\ k = (k - 1) + 1
        BY <1>1, <2>1, <2>3 DEF OneEach
      <3>2. k - 1 \in Faults(rows)
        BY <1>1, <3>1
      <3> QED
        BY <2>3, <3>1, <3>2
    <2>4. CASE rows[k].key = "locals"
      <3>1. k - 1 \in 1 .. Len(rows) /\ rows[k - 1].key = "stack"
        BY <1>1, <2>1, <2>4 DEF OneEach
      <3>2. k - 1 > 1 /\ rows[(k - 1) - 1].key = "stop"
        BY <3>1 DEF OneEach
      <3>3. (k - 1) - 1 \in 1 .. Len(rows) /\ k = ((k - 1) - 1) + 2
        BY <1>1, <2>1, <3>2
      <3>4. (k - 1) - 1 \in Faults(rows)
        BY <1>1, <3>2, <3>3
      <3> QED
        BY <2>4, <3>2, <3>3, <3>4
    <2> QED
      BY <1>1, <2>2, <2>3, <2>4
  <1>3. ASSUME NEW m \in Faults(rows), NEW n \in Faults(rows),
               rows[m].key = "stop", rows[n].key = "stop"
        PROVE  m = n
    <2>1. m \in 1 .. Len(rows) /\ n \in 1 .. Len(rows) /\ rows[m].rank = rows[n].rank
      BY <1>1 DEF OfOneRank
    <2>2. ~(m < n)
      <3> SUFFICES ASSUME m < n PROVE FALSE
        OBVIOUS
      <3>1. m \in 1 .. n - 1 /\ rows[m].key # "text"
        BY <1>3, <2>1
      <3> QED
        BY <1>3, <2>1, <3>1 DEF OneEach
    <2>3. ~(n < m)
      <3> SUFFICES ASSUME n < m PROVE FALSE
        OBVIOUS
      <3>1. n \in 1 .. m - 1 /\ rows[n].key # "text"
        BY <1>3, <2>1
      <3> QED
        BY <1>3, <2>1, <3>1 DEF OneEach
    <2> QED
      BY <1>1, <2>1, <2>2, <2>3
  <1>4. PICK m \in Faults(rows) : rows[m].key = "stop"
    BY <1>2
  <1>5. \A k \in Faults(rows) : \/ k = m /\ rows[k].key = "stop"
                                \/ k = m + 1 /\ rows[k].key = "stack"
                                \/ k = m + 2 /\ rows[k].key = "locals"
    BY <1>2, <1>3, <1>4
  <1>6. m \in Nat /\ a \in Nat /\ b \in Nat /\ c \in Nat
    BY <1>1
  <1>7. a = m /\ b = m + 1 /\ c = m + 2
    BY <1>5, <1>6
  <1>8. Faults(rows) = {a, b, c}
    BY <1>5, <1>7
  <1>9. rows[a].key = "stop" /\ rows[b].key = "stack" /\ rows[c].key = "locals"
    BY <1>5, <1>6, <1>7
  <1>10. rows[a].rank = rows[b].rank /\ rows[b].rank = rows[c].rank
    BY DEF OfOneRank
  <1> QED
    BY <1>8, <1>9, <1>10 DEF IsOneFault, FaultRows

(* When one rank faulted, and three rows of a fault are in a job, they are *)
(* the stop, the stack and the locals of that fault, in this order, and    *)
(* segreport takes them for what they are - whatever was killed, whatever  *)
(* merge was cut short, whatever files were left over.                     *)
THEOREM ReportsOneFault == Spec => []ReportOfOneFault
  <1>1. Init => ReportInv
    BY ReportInvInitially
  <1>2. Inv /\ ReportInv /\ [Next]_vars => ReportInv'
    BY ReportStep DEF Inv
  <1>3. Inv /\ ReportInv => ReportOfOneFault
    <2> SUFFICES ASSUME Inv, ReportInv, NEW i \in DOMAIN jobs, OfOneRank(jobs[i].rows),
                        NEW a \in Faults(jobs[i].rows), NEW b \in Faults(jobs[i].rows),
                        NEW c \in Faults(jobs[i].rows), Report(jobs[i].rows, a, b, c)
                 PROVE  Faults(jobs[i].rows) = {a, b, c} /\ IsOneFault(jobs[i].rows, a, b, c)
      BY DEF ReportOfOneFault
    <2>1. jobs \in Seq(JobSet(runs)) /\ i \in 1 .. Len(jobs)
      BY DEF Inv, TypeInv, TypeOK, JobSet
    <2>2. jobs[i] \in JobSet(runs)
      BY <2>1
    <2>3. jobs[i].rows \in Seq(Row) /\ OneEach(jobs[i].rows)
      BY <2>1, <2>2 DEF JobSet, ReportInv
    <2> QED
      BY <2>3, ThreeAtMost DEF Report
  <1> QED
    BY <1>1, <1>2, <1>3, Invariance, PTL DEF Spec
=============================================================================
