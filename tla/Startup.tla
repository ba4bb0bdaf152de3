------------------------------- MODULE Startup -------------------------------
(***************************************************************************)
(* src/opd.c, from the command line to the opening of the gdblog file, in  *)
(* all processes of a job at once.  Each process finds its rank, the size  *)
(* of the job, its installation and gdb in the environment it was started  *)
(* with, and names its file after its rank; the processes share one        *)
(* working directory.  From there on it is the subject of Opd.             *)
(***************************************************************************)
EXTENDS FindExec

CONSTANTS
  N,              \* the size of the job
  RankNames,      \* mpi_rank_names, in order
  NprocNames,     \* mpi_nproc_names
  Environments    \* the command lines and environments a job is started with

ASSUME JobAssumption == N \in Nat \ {0} /\ Procs = 0 .. N - 1
ASSUME PathAssumption == \A e \in Environments : e.path # NoPath => e.path \in Seq(STRING)
ASSUME LinkAssumption == \A e \in Environments : {NotFound, Nowhere} \cap DOMAIN e.link = {}

VARIABLES
  rank, size, using_mpi,
  opd_dir,        \* the prefix
  gdb_location,
  gdblog          \* for every rank, the process that made the file of its name

mpi   == <<rank, size, using_mpi>>
tools == <<path, abspath, opd_dir, gdb_location>>
vars  == <<env, pc, mpi, tools, gdblog>>

None   == "none"
NoFile == N
Old    == N + 1   \* made by an earlier job

Init ==
  /\ env \in Environments
  /\ pc = [p \in Procs |-> "options"]
  /\ rank = [p \in Procs |-> 0] /\ size = [p \in Procs |-> 0]
  /\ using_mpi = [p \in Procs |-> TRUE]
  /\ path = [p \in Procs |-> env.path]
  /\ abspath = [p \in Procs |-> NotFound]
  /\ opd_dir = [p \in Procs |-> env.p] /\ gdb_location = [p \in Procs |-> env.g]
  /\ gdblog \in [0 .. N -> {NoFile, Old}]

----------------------------------------------------------------------------
At(p, where) == pc[p] = where /\ UNCHANGED env

check_target(p) ==
  /\ At(p, "options")
  /\ Goto(p, IF env.target = "exists" THEN "identify" ELSE "refused")
  /\ UNCHANGED <<mpi, tools, gdblog>>

(* A variable holds the rank of the process, the size of the job, or       *)
(* something else, which atoi makes 0.                                     *)
IsSet(name) == name # None /\ env.vars[name] # "unset"

getenv(name, p) ==
  IF env.vars[name] = "rank" THEN p ELSE IF env.vars[name] = "size" THEN N ELSE 0

IsFirst(i, names) == IsSet(names[i]) /\ \A j \in 1 .. i - 1 : ~IsSet(names[j])

(* The variable of the switch counts only if none of the list is set.      *)
Identifies(value, names, switch, p) ==
  \/ \E i \in DOMAIN names : IsFirst(i, names) /\ value = getenv(names[i], p)
  \/ /\ \A i \in DOMAIN names : ~IsSet(names[i])
     /\ value = IF IsSet(switch) THEN getenv(switch, p) ELSE 0

(* Mutants: no MPI if either is missing; never without MPI.                *)
NoMpiUnlessBoth(r, s) == r = 0 \/ s = 0
NoMpiNever(r, s)      == FALSE

NoMpi(r, s) == r = 0 /\ s = 0

identify(p) ==
  /\ At(p, "identify")
  /\ \E r, s \in 0 .. N :
       /\ Identifies(r, RankNames, env.rank_var, p)
       /\ Identifies(s, NprocNames, env.nprocs_var, p)
       /\ rank' = [rank EXCEPT ![p] = r]
       /\ size' = [size EXCEPT ![p] = IF NoMpi(r, s) THEN 1 ELSE s]
       /\ using_mpi' = [using_mpi EXCEPT ![p] = ~NoMpi(r, s)]
  /\ Goto(p, IF env.p = None THEN "find opd" ELSE "prefix")
  /\ UNCHANGED <<tools, gdblog>>

(* Without -p the installation is searched even if GDBASE_PREFIX names it. *)
find_opd(p) ==
  /\ At(p, "find opd")
  /\ find_exec_in_path(p, "opd", "follow")
  /\ UNCHANGED <<mpi, opd_dir, gdb_location, gdblog>>

find_gdbase_prefix(p) ==
  /\ At(p, "follow")
  /\ \/ (CopyGarbage(p) \/ FollowLink(p)) /\ UNCHANGED opd_dir
     \/ /\ IsRegular(p) /\ Goto(p, "prefix") /\ UNCHANGED abspath
        /\ opd_dir' = [opd_dir EXCEPT ![p] = Prefix(p)]
  /\ UNCHANGED <<mpi, path, gdb_location, gdblog>>

(* The search for gdb starts from the beginning of PATH again.             *)
check_prefix(p) ==
  LET dir == IF env.GDBASE_PREFIX # None THEN env.GDBASE_PREFIX ELSE opd_dir[p]
  IN  /\ At(p, "prefix")
      /\ opd_dir' = [opd_dir EXCEPT ![p] = dir]
      /\ IF dir # NotFound /\ dir \in env.bin /\ Holds(dir, "opd")
           THEN Goto(p, IF env.g = None THEN "find gdb" ELSE "gdb")
           ELSE Goto(p, "refused")
      /\ path' = [path EXCEPT ![p] = env.path]
      /\ UNCHANGED <<mpi, abspath, gdb_location, gdblog>>

find_gdb(p) ==
  /\ At(p, "find gdb")
  /\ find_exec_in_path(p, "gdb", "gdb")
  /\ gdb_location' = [gdb_location EXCEPT ![p] = abspath'[p]]
  /\ UNCHANGED <<mpi, opd_dir, gdblog>>

check_gdb(p) ==
  LET dir == IF env.GDB_BINARY # None THEN env.GDB_BINARY ELSE gdb_location[p]
  IN  /\ At(p, "gdb")
      /\ gdb_location' = [gdb_location EXCEPT ![p] = dir]
      /\ Goto(p, IF dir # NotFound /\ Holds(dir, "gdb") THEN "timeout" ELSE "refused")
      /\ UNCHANGED <<mpi, path, abspath, opd_dir, gdblog>>

check_timeout(p) ==
  /\ At(p, "timeout")
  /\ Goto(p, IF env.timeout = "invalid" THEN "refused" ELSE "exists")
  /\ UNCHANGED <<mpi, tools, gdblog>>

(* Mutant: the file is named after the size.                               *)
FileOfSize(p) == size[p]

FileOf(p) == rank[p]

(* The file of an earlier job is removed; other processes may act between  *)
(* the question, the removal and the opening.                              *)
exists(p) ==
  /\ At(p, "exists")
  /\ Goto(p, IF gdblog[FileOf(p)] # NoFile THEN "remove" ELSE "open")
  /\ UNCHANGED <<mpi, tools, gdblog>>

remove(p) ==
  /\ At(p, "remove") /\ Goto(p, "open")
  /\ gdblog' = [gdblog EXCEPT ![FileOf(p)] = NoFile]
  /\ UNCHANGED <<mpi, tools>>

(* CREATE TABLE fails in a file that has one; and any step may fail.       *)
db_open(p) ==
  /\ At(p, "open")
  /\ \/ /\ gdblog[FileOf(p)] = NoFile
        /\ gdblog' = [gdblog EXCEPT ![FileOf(p)] = p]
        /\ Goto(p, "running")
     \/ Goto(p, "refused") /\ UNCHANGED gdblog
  /\ UNCHANGED <<mpi, tools>>

Opd(p) ==
  \/ check_target(p) \/ identify(p)
  \/ find_opd(p) \/ find_gdbase_prefix(p) \/ check_prefix(p)
  \/ find_gdb(p) \/ check_gdb(p) \/ check_timeout(p)
  \/ exists(p) \/ remove(p) \/ db_open(p)

Next == \E p \in Procs : Opd(p)

Spec == Init /\ [][Next]_vars

(* Every process is scheduled.                                             *)
FairSpec == Spec /\ \A p \in Procs : WF_vars(Opd(p))

----------------------------------------------------------------------------
(* The variables range over what the comments above say; and once a        *)
(* process has looked at its environment it has a rank, or a size, or the  *)
(* size 1 of a job that is not MPI.                                        *)
Places == {"options", "identify", "find opd", "follow", "prefix", "find gdb", "gdb",
           "timeout", "exists", "remove", "open", "running", "refused", "crashed"}

Settled(p) == pc[p] \notin {"options", "identify"} /\ env.target = "exists"

TypeOK ==
  /\ env \in Environments
  /\ pc \in [Procs -> Places]
  /\ rank \in [Procs -> 0 .. N] /\ size \in [Procs -> 0 .. N]
  /\ using_mpi \in [Procs -> BOOLEAN]
  /\ gdblog \in [0 .. N -> 0 .. N + 1]
  /\ \A p \in Procs : Settled(p) /\ rank[p] = 0 => size[p] # 0

(* What the environment tells: every variable that opd may look at, and    *)
(* that is set, holds what it is named for; and there is one.              *)
Consulted(names, switch) == {names[i] : i \in DOMAIN names} \cup {switch}
Honest(names, switch, what) ==
  \A name \in Consulted(names, switch) : IsSet(name) => env.vars[name] = what
Given(names, switch) == \E name \in Consulted(names, switch) : IsSet(name)

HonestRanks == Honest(RankNames, env.rank_var, "rank")
RanksGiven  == Given(RankNames, env.rank_var)
HonestSizes == Honest(NprocNames, env.nprocs_var, "size")
SizesGiven  == Given(NprocNames, env.nprocs_var)

(* A process that learns its rank from its environment writes a file of    *)
(* its own, which the other processes of the job neither remove nor write  *)
(* to, however their starts interleave and whatever an earlier job left.   *)
OwnFile ==
  HonestRanks /\ RanksGiven =>
    \A p \in Procs : /\ gdblog[p] \in {NoFile, Old, p}
                     /\ pc[p] = "running" => gdblog[p] = p

(* The processes agree on the size of the job and on whether its end takes *)
(* an abort() - unless they learn their ranks but not the size: then rank  *)
(* 0, and no other, takes itself for a job without MPI.                    *)
AgreeOnJob ==
  HonestRanks /\ HonestSizes =>
    \A p, q \in Procs : Settled(p) /\ Settled(q) =>
      \/ using_mpi[p] = using_mpi[q] /\ size[p] = size[q]
      \/ RanksGiven /\ ~SizesGiven /\ (p = 0 \/ q = 0)

(* The first element of PATH that has the command, as a shell finds it.    *)
FirstWith(command, dir) ==
  \E i \in DOMAIN env.path :
    /\ env.path[i] = dir /\ dir # "" /\ Holds(dir, command)
    /\ \A j \in 1 .. i - 1 : env.path[j] # "" => ~Holds(env.path[j], command)

(* The links from one directory lead to another: whatever contains the one *)
(* and is closed under links contains the other.                           *)
LinksLead(from, to) ==
  \A dirs \in SUBSET DOMAIN env.holds :
    from \in dirs /\ (\A d \in dirs \cap DOMAIN env.link : env.link[d] \in dirs) => to \in dirs

(* The installation of the opd that PATH finds first.                      *)
Installed(dir) ==
  /\ dir \in env.bin \ DOMAIN env.link
  /\ \E i \in DOMAIN env.path : FirstWith("opd", env.path[i]) /\ LinksLead(env.path[i], dir)

(* If neither -p nor GDBASE_PREFIX tells where gdbase is installed, a      *)
(* process that comes that far has found the directory in which the first  *)
(* opd of PATH really lies, behind however many links - and not one that   *)
(* it read from a buffer nobody has written, nor that of a link.           *)
RunsInstallation ==
  env.p = None /\ env.GDBASE_PREFIX = None =>
    \A p \in Procs :
      pc[p] \in {"find gdb", "gdb", "timeout", "exists", "remove", "open", "running"}
        => Installed(opd_dir[p])

(* Where a start does not end: PATH is not set, or has no opd, and what is *)
(* copied was never written; the search stands before an empty element of  *)
(* PATH that is not its last; it follows what is no name of a file, for    *)
(* want of an opd or behind a link.                                        *)
NoOpd == \A i \in DOMAIN env.path : env.path[i] # "" => ~Holds(env.path[i], "opd")

DeadEnd(p) ==
  \/ pc[p] = "crashed" /\ (env.path = NoPath \/ NoOpd)
  \/ /\ pc[p] \in {"find opd", "find gdb"}
     /\ \E k \in 1 .. Len(env.path) - 1 :
          env.path[k] = "" /\ path[p] = SubSeq(env.path, k, Len(env.path))
  \/ /\ pc[p] = "follow" /\ abspath[p] = Nowhere
     /\ NoOpd \/ \E dir \in DOMAIN env.link : FirstWith("opd", dir)

(* In every environment, every process comes to run, to refuse, or to one  *)
(* of these dead ends, and to no other.                                    *)
StartsOrRefuses ==
  \A p \in Procs : <>[](pc[p] \in {"running", "refused"} \/ DeadEnd(p))
=============================================================================
