---------------------------- MODULE Startup_proofs ---------------------------
(***************************************************************************)
(* The start of a job, for any number of processes, any lists of variables *)
(* and any environment.  A file belongs to its process because the rank is *)
(* its own from the moment it is identified; that needs to be carried      *)
(* along, as does the size all processes have settled on.  What a process  *)
(* has found is the first of PATH because what lies before has been passed *)
(* over, and the file itself because the links of the first lead there.    *)
(***************************************************************************)
EXTENDS Startup, SequenceTheorems, TLAPS

Ranked == {"find opd", "follow", "prefix", "find gdb", "gdb", "timeout", "exists",
           "remove", "open", "running"}

RankInv ==
  HonestRanks /\ RanksGiven => \A p \in Procs : pc[p] \in Ranked => rank[p] = p

JobInv ==
  \A p \in Procs : Settled(p) =>
    /\ HonestSizes /\ SizesGiven => size[p] = N /\ using_mpi[p] = TRUE
    /\ ~RanksGiven /\ ~SizesGiven => size[p] = 1 /\ using_mpi[p] = FALSE
    /\ HonestRanks /\ RanksGiven /\ ~SizesGiven /\ p # 0 => size[p] = 0 /\ using_mpi[p] = TRUE

IInv == TypeOK /\ RankInv /\ JobInv /\ OwnFile

----------------------------------------------------------------------------
(* What is identified is the value of a variable that is set, if one is.   *)
LEMMA IdentifiesGiven ==
  ASSUME NEW value, NEW names, NEW switch, NEW p, Identifies(value, names, switch, p),
         Given(names, switch)
  PROVE  \E name \in Consulted(names, switch) : IsSet(name) /\ value = getenv(name, p)
<1>1. CASE \E i \in DOMAIN names : IsFirst(i, names) /\ value = getenv(names[i], p)
  BY <1>1 DEF IsFirst, Consulted
<1>2. CASE \A i \in DOMAIN names : ~IsSet(names[i])
  <2>1. IsSet(switch)
    BY <1>2 DEF Given, Consulted
  <2> QED
    BY <1>2, <2>1 DEF Identifies, IsFirst, Consulted
<1> QED
  BY <1>1, <1>2 DEF Identifies

(* ... and 0 if none is.                                                   *)
LEMMA IdentifiesNothing ==
  ASSUME NEW value, NEW names, NEW switch, NEW p, Identifies(value, names, switch, p),
         ~Given(names, switch)
  PROVE  value = 0
  BY DEF Identifies, Given, Consulted, IsFirst

(* A variable named for the rank gives the process its number, one named   *)
(* for the size that of the job.                                           *)
LEMMA HonestRank ==
  ASSUME NEW r, NEW p, HonestRanks, RanksGiven, Identifies(r, RankNames, env.rank_var, p)
  PROVE  r = p
<1>1. PICK name \in Consulted(RankNames, env.rank_var) : IsSet(name) /\ r = getenv(name, p)
  BY IdentifiesGiven DEF RanksGiven
<1> QED
  BY <1>1 DEF HonestRanks, Honest, getenv

(* The same of the size of the job.                                        *)
LEMMA HonestSize ==
  ASSUME NEW s, NEW p, HonestSizes, SizesGiven, Identifies(s, NprocNames, env.nprocs_var, p)
  PROVE  s = N
<1>1. PICK name \in Consulted(NprocNames, env.nprocs_var) : IsSet(name) /\ s = getenv(name, p)
  BY IdentifiesGiven DEF SizesGiven
<1> QED
  BY <1>1 DEF HonestSizes, Honest, getenv

----------------------------------------------------------------------------
(* What a step tells of the environment is the same before and after it.   *)
LEMMA SameEnvironment ==
  ASSUME UNCHANGED env
  PROVE  /\ HonestRanks' = HonestRanks /\ RanksGiven' = RanksGiven
         /\ HonestSizes' = HonestSizes /\ SizesGiven' = SizesGiven
  BY DEF HonestRanks, RanksGiven, HonestSizes, SizesGiven, Honest, Given, Consulted, IsSet

(* The invariant holds when the job starts.                                *)
LEMMA InitiallyInv == Init => IInv
<1> SUFFICES ASSUME Init PROVE IInv
  OBVIOUS
<1>1. \A p \in Procs : pc[p] = "options"
  BY DEF Init
<1>2. TypeOK
  <2>1. 0 \in 0 .. N /\ {NoFile, Old} \subseteq 0 .. N + 1
    BY JobAssumption DEF NoFile, Old
  <2>2. gdblog \in [0 .. N -> 0 .. N + 1]
    BY <2>1 DEF Init
  <2>3. /\ pc \in [Procs -> Places] /\ using_mpi \in [Procs -> BOOLEAN]
        /\ rank \in [Procs -> 0 .. N] /\ size \in [Procs -> 0 .. N]
    BY <2>1 DEF Init, Places
  <2> QED
    BY <1>1, <2>2, <2>3 DEF Init, TypeOK, Settled
<1>3. OwnFile
  BY <1>1, JobAssumption DEF Init, OwnFile
<1> QED
  BY <1>1, <1>2, <1>3 DEF IInv, RankInv, JobInv, Ranked, Settled

(* A process that knows its rank and touches no file.                      *)
LEMMA WalkPreserves ==
  ASSUME IInv, NEW p \in Procs, pc[p] \in Ranked, UNCHANGED <<env, mpi, gdblog>>,
         \/ UNCHANGED pc
         \/ \E where \in Places \ {"options", "identify", "running"} : Goto(p, where)
  PROVE  IInv'
<1>1. pc' \in [Procs -> Places]
  BY DEF IInv, TypeOK, Goto
<1>2. \A q \in Procs : /\ pc'[q] \in Ranked => pc[q] \in Ranked
                       /\ pc'[q] = "running" => pc[q] = "running"
                       /\ Settled(q)' => Settled(q)
  BY DEF IInv, TypeOK, Goto, Settled, Ranked, Places
<1>3. TypeOK'
  BY <1>1, <1>2 DEF IInv, TypeOK, mpi
<1>4. RankInv'
  BY <1>2, SameEnvironment DEF IInv, RankInv, mpi
<1>5. JobInv'
  BY <1>2, SameEnvironment DEF IInv, JobInv, mpi
<1>6. OwnFile'
  BY <1>2, SameEnvironment DEF IInv, OwnFile
<1> QED
  BY <1>3, <1>4, <1>5, <1>6 DEF IInv

(* The check of the target concerns only the place of the process.         *)
LEMMA CheckTargetPreserves ==
  ASSUME IInv, NEW p \in Procs, check_target(p)
  PROVE  IInv'
<1>1. /\ pc' = [pc EXCEPT ![p] = IF env.target = "exists" THEN "identify" ELSE "refused"]
      /\ UNCHANGED <<env, mpi, gdblog>>
  BY DEF check_target, At, Goto
<1>2. pc' \in [Procs -> Places]
  BY <1>1 DEF IInv, TypeOK, Places
<1>3. \A q \in Procs : /\ pc'[q] \in Ranked => pc[q] \in Ranked
                       /\ pc'[q] = "running" => pc[q] = "running"
                       /\ Settled(q)' => Settled(q)
  BY <1>1 DEF IInv, TypeOK, Settled, Ranked
<1>4. TypeOK'
  BY <1>1, <1>2, <1>3 DEF IInv, TypeOK, mpi
<1>5. RankInv'
  BY <1>1, <1>3, SameEnvironment DEF IInv, RankInv, mpi
<1>6. JobInv'
  BY <1>1, <1>3, SameEnvironment DEF IInv, JobInv, mpi
<1>7. OwnFile'
  BY <1>1, <1>3, SameEnvironment DEF IInv, OwnFile
<1> QED
  BY <1>4, <1>5, <1>6, <1>7 DEF IInv

(* A process that learns its rank and the size learns what the invariant   *)
(* says.                                                                   *)
LEMMA IdentifyPreserves ==
  ASSUME IInv, NEW p \in Procs, identify(p)
  PROVE  IInv'
<1>1. PICK r \in 0 .. N, s \in 0 .. N :
        /\ Identifies(r, RankNames, env.rank_var, p)
        /\ Identifies(s, NprocNames, env.nprocs_var, p)
        /\ rank' = [rank EXCEPT ![p] = r]
        /\ size' = [size EXCEPT ![p] = IF NoMpi(r, s) THEN 1 ELSE s]
        /\ using_mpi' = [using_mpi EXCEPT ![p] = ~NoMpi(r, s)]
  BY DEF identify
<1>2. /\ pc' = [pc EXCEPT ![p] = IF env.p = None THEN "find opd" ELSE "prefix"]
      /\ UNCHANGED <<env, gdblog>>
  BY DEF identify, At, Goto
<1>3. pc' \in [Procs -> Places]
  BY <1>2 DEF IInv, TypeOK, Places
<1>4. \A q \in Procs \ {p} : /\ pc'[q] = pc[q] /\ rank'[q] = rank[q] /\ size'[q] = size[q]
                             /\ using_mpi'[q] = using_mpi[q] /\ Settled(q)' = Settled(q)
  BY <1>1, <1>2 DEF IInv, TypeOK, Settled
<1>5. /\ rank'[p] = r /\ size'[p] = (IF NoMpi(r, s) THEN 1 ELSE s)
      /\ using_mpi'[p] = ~NoMpi(r, s) /\ pc'[p] # "running"
  BY <1>1, <1>2 DEF IInv, TypeOK
<1>6. TypeOK'
  <2>1. (IF NoMpi(r, s) THEN 1 ELSE s) \in 0 .. N /\ NoMpi(r, s) \in BOOLEAN
    BY JobAssumption DEF NoMpi
  <2>2. /\ rank' \in [Procs -> 0 .. N] /\ size' \in [Procs -> 0 .. N]
        /\ using_mpi' \in [Procs -> BOOLEAN]
    BY <1>1, <2>1 DEF IInv, TypeOK
  <2>3. rank'[p] = 0 => size'[p] # 0
    BY <1>5 DEF NoMpi
  <2>4. \A q \in Procs : Settled(q)' /\ rank'[q] = 0 => size'[q] # 0
    BY <1>4, <2>3 DEF IInv, TypeOK
  <2> QED
    BY <1>2, <1>3, <2>2, <2>4 DEF IInv, TypeOK
<1>7. RankInv'
  <2>1. HonestRanks /\ RanksGiven => rank'[p] = p
    BY <1>1, <1>5, HonestRank
  <2> QED
    BY <1>2, <1>4, <2>1, SameEnvironment DEF IInv, RankInv
<1>8. JobInv'
  <2>1. HonestSizes /\ SizesGiven => size'[p] = N /\ using_mpi'[p] = TRUE
    BY <1>1, <1>5, HonestSize, JobAssumption DEF NoMpi
  <2>2. ~RanksGiven /\ ~SizesGiven => size'[p] = 1 /\ using_mpi'[p] = FALSE
    BY <1>1, <1>5, IdentifiesNothing DEF NoMpi, RanksGiven, SizesGiven
  <2>3. HonestRanks /\ RanksGiven /\ ~SizesGiven /\ p # 0 => size'[p] = 0 /\ using_mpi'[p] = TRUE
    BY <1>1, <1>5, HonestRank, IdentifiesNothing DEF NoMpi, SizesGiven
  <2> QED
    BY <1>2, <1>4, <2>1, <2>2, <2>3, SameEnvironment DEF IInv, JobInv
<1>9. OwnFile'
  BY <1>2, <1>4, <1>5, SameEnvironment DEF IInv, OwnFile
<1> QED
  BY <1>6, <1>7, <1>8, <1>9 DEF IInv

(* The file of a process is where its rank says, and no one else's is.     *)
LEMMA FilePreserves ==
  ASSUME IInv, NEW p \in Procs, remove(p) \/ db_open(p)
  PROVE  IInv'
<1>1. pc[p] \in Ranked \ {"running"} /\ UNCHANGED <<env, mpi>>
  BY DEF remove, db_open, At, Ranked
<1>2. PICK where \in {"open", "running", "refused"} :
        /\ pc' = [pc EXCEPT ![p] = where]
        /\ \/ where # "running" /\ UNCHANGED gdblog
           \/ where = "open" /\ gdblog' = [gdblog EXCEPT ![rank[p]] = NoFile]
           \/ where = "running" /\ gdblog' = [gdblog EXCEPT ![rank[p]] = p]
  BY DEF remove, db_open, Goto, FileOf
<1>3. rank[p] \in 0 .. N /\ p \in 0 .. N - 1 /\ N \in Nat
  BY JobAssumption DEF IInv, TypeOK
<1>4. pc' \in [Procs -> Places] /\ gdblog' \in [0 .. N -> 0 .. N + 1]
  <2>1. p \in 0 .. N + 1 /\ NoFile \in 0 .. N + 1
    BY <1>3, JobAssumption DEF NoFile
  <2>2. where \in Places
    BY <1>2, Zenon DEF Places
  <2> QED
    BY <1>2, <2>1, <2>2 DEF IInv, TypeOK
<1>5. \A q \in Procs : /\ pc'[q] \in Ranked => pc[q] \in Ranked
                       /\ Settled(q)' => Settled(q)
  BY <1>1, <1>2 DEF IInv, TypeOK, Settled, Ranked
<1>6. TypeOK'
  BY <1>1, <1>4, <1>5 DEF IInv, TypeOK, mpi
<1>7. RankInv'
  BY <1>1, <1>5, SameEnvironment DEF IInv, RankInv, mpi
<1>8. JobInv'
  BY <1>1, <1>5, SameEnvironment DEF IInv, JobInv, mpi
<1>9. OwnFile'
  <2> SUFFICES ASSUME HonestRanks, RanksGiven, NEW q \in Procs
               PROVE  /\ gdblog'[q] \in {NoFile, Old, q}
                      /\ pc'[q] = "running" => gdblog'[q] = q
    BY <1>1, SameEnvironment DEF OwnFile
  <2>1. rank[p] = p
    BY <1>1 DEF IInv, RankInv
  <2>2. gdblog[q] \in {NoFile, Old, q} /\ (pc[q] = "running" => gdblog[q] = q)
    BY DEF IInv, OwnFile
  <2>3. q \in 0 .. N
    BY JobAssumption
  <2>4. CASE q = p
    BY <1>1, <1>2, <1>3, <2>1, <2>2, <2>3, <2>4 DEF IInv, TypeOK
  <2>5. CASE q # p
    BY <1>2, <1>3, <2>1, <2>2, <2>3, <2>5 DEF IInv, TypeOK
  <2> QED
    BY <2>4, <2>5
<1> QED
  BY <1>6, <1>7, <1>8, <1>9 DEF IInv

(* The searches and checks of a process are such walks.                    *)
LEMMA ToolsPreserve ==
  ASSUME IInv, NEW p \in Procs,
         \/ find_opd(p) \/ find_gdbase_prefix(p) \/ check_prefix(p)
         \/ find_gdb(p) \/ check_gdb(p) \/ check_timeout(p) \/ exists(p)
  PROVE  IInv'
<1>1. pc[p] \in Ranked /\ UNCHANGED <<env, mpi, gdblog>>
  BY DEF find_opd, find_gdbase_prefix, check_prefix, find_gdb, check_gdb, check_timeout,
         exists, At, Ranked
<1>2. ASSUME NEW command, NEW then \in {"follow", "gdb"}, find_exec_in_path(p, command, then)
      PROVE  UNCHANGED pc \/ \E where \in {"crashed", "follow", "gdb"} : Goto(p, where)
  BY <1>2 DEF find_exec_in_path, PathMissing, PathExhausted, PathMatches, PathMovesOn
<1>3. \/ UNCHANGED pc
      \/ \E where \in Places \ {"options", "identify", "running"} : Goto(p, where)
  <2>1. CASE find_opd(p) \/ find_gdb(p)
    BY <1>2, <2>1 DEF find_opd, find_gdb, Places
  <2>2. CASE find_gdbase_prefix(p)
    BY <2>2 DEF find_gdbase_prefix, CopyGarbage, FollowLink, Places
  <2>3. CASE check_prefix(p)
    BY <2>3 DEF check_prefix, Places
  <2>4. CASE check_gdb(p) \/ check_timeout(p) \/ exists(p)
    BY <2>4 DEF check_gdb, check_timeout, exists, Goto, Places
  <2> QED
    BY <2>1, <2>2, <2>3, <2>4
<1> QED
  BY <1>1, <1>3, WalkPreserves

(* Every step of every process keeps the invariant.                        *)
LEMMA StepPreserves == IInv /\ [Next]_vars => IInv'
<1> SUFFICES ASSUME IInv, [Next]_vars PROVE IInv'
  OBVIOUS
<1>1. CASE UNCHANGED vars
  <2>1. UNCHANGED <<env, pc, rank, size, using_mpi, gdblog>>
    BY <1>1 DEF vars, mpi
  <2>2. \A p \in Procs : Settled(p)' = Settled(p)
    BY <2>1 DEF Settled
  <2> QED
    BY <2>1, <2>2, SameEnvironment DEF IInv, TypeOK, RankInv, JobInv, OwnFile
<1>2. ASSUME NEW p \in Procs, Opd(p) PROVE IInv'
  BY <1>2, CheckTargetPreserves, IdentifyPreserves, FilePreserves, ToolsPreserve DEF Opd
<1> QED
  BY <1>1, <1>2 DEF Next

----------------------------------------------------------------------------
(* What every process of every job has found, once it has looked.          *)
THEOREM StartupInvariant == Spec => []IInv
  BY InitiallyInv, StepPreserves, PTL DEF Spec

(* The variables keep their ranges.                                        *)
THEOREM StartupTypes == Spec => []TypeOK
<1>1. IInv => TypeOK
  BY DEF IInv
<1> QED
  BY <1>1, StartupInvariant, PTL

(* In a job of any size whose processes learn their ranks, no process ever *)
(* removes or writes to the file of another.                               *)
THEOREM FilesAreOwn == Spec => []OwnFile
<1>1. IInv => OwnFile
  BY DEF IInv
<1> QED
  BY <1>1, StartupInvariant, PTL

(* The processes of a job of any size agree on what kind of job it is, or  *)
(* it is rank 0 that differs, for want of the size.                        *)
THEOREM ProcessesAgree == Spec => []AgreeOnJob
<1>1. ASSUME IInv, HonestRanks, HonestSizes, NEW p \in Procs, NEW q \in Procs,
             Settled(p), Settled(q)
      PROVE  \/ using_mpi[p] = using_mpi[q] /\ size[p] = size[q]
             \/ RanksGiven /\ ~SizesGiven /\ (p = 0 \/ q = 0)
  <2>1. CASE SizesGiven
    BY <1>1, <2>1 DEF IInv, JobInv
  <2>2. CASE ~SizesGiven /\ ~RanksGiven
    BY <1>1, <2>2 DEF IInv, JobInv
  <2>3. CASE ~SizesGiven /\ RanksGiven /\ p # 0 /\ q # 0
    BY <1>1, <2>3 DEF IInv, JobInv
  <2> QED
    BY <2>1, <2>2, <2>3
<1>2. IInv => AgreeOnJob
  BY <1>1 DEF AgreeOnJob
<1> QED
  BY <1>2, StartupInvariant, PTL

----------------------------------------------------------------------------
(* The search for the installation.                                        *)

(* What is left of PATH is its end, and nothing before has an opd.         *)
Passed(k) == \A j \in 1 .. k : env.path[j] # "" => ~Holds(env.path[j], "opd")

Searching(p) ==
  \E k \in 0 .. Len(env.path) :
    /\ path[p] \in Seq(STRING) /\ Len(path[p]) = Len(env.path) - k
    /\ \A i \in 1 .. Len(path[p]) : path[p][i] = env.path[i + k]
    /\ Passed(k)

(* The links from the first opd of PATH lead there.                        *)
Reached(dir) ==
  \E i \in DOMAIN env.path : FirstWith("opd", env.path[i]) /\ LinksLead(env.path[i], dir)

Followed(p) == Reached(abspath[p])
Found(p)    == Installed(opd_dir[p])

OpdSought(p) ==
  /\ pc[p] \in {"options", "identify"} => path[p] = env.path
  /\ pc[p] = "find opd" => path[p] = NoPath \/ (env.path # NoPath /\ Searching(p))
  /\ pc[p] = "follow" => abspath[p] \in {NotFound, Nowhere} \/ Followed(p)
  /\ pc[p] = "prefix" /\ env.p = None => opd_dir[p] = NotFound \/ Found(p)
  /\ /\ pc[p] \in {"find gdb", "gdb", "timeout", "exists", "remove", "open", "running"}
     /\ env.p = None /\ env.GDBASE_PREFIX = None
     => Found(p)

OpdInv ==
  /\ DOMAIN path = Procs /\ DOMAIN abspath = Procs /\ DOMAIN opd_dir = Procs
  /\ \A p \in Procs : OpdSought(p)

(* Where the links lead is a matter of the environment.                    *)
LEMMA StillFollowed ==
  ASSUME NEW p \in Procs, env' = env, Reached(abspath'[p])
  PROVE  Followed(p)'
BY Zenon DEF Followed, Reached, FirstWith, LinksLead, Holds

(* So is where gdbase is installed.                                        *)
LEMMA StillFound ==
  ASSUME NEW p \in Procs, env' = env, Installed(opd_dir'[p])
  PROVE  Found(p)'
BY Zenon DEF Found, Installed, FirstWith, LinksLead, Holds

(* So is what lies before it.                                              *)
LEMMA StillPassed == ASSUME NEW k, env' = env, Passed(k) PROVE Passed(k)'
BY Zenon DEF Passed, Holds

(* A link that is followed leads on.                                       *)
LEMMA LinkLeadsOn ==
  ASSUME NEW dir \in DOMAIN env.link, Reached(dir)
  PROVE  Reached(env.link[dir])
BY DEF Reached, LinksLead

(* A process that does not move keeps its part of the invariant.           *)
LEMMA Unmoved ==
  ASSUME NEW p \in Procs, env' = env, pc'[p] = pc[p], path'[p] = path[p],
         abspath'[p] = abspath[p], opd_dir'[p] = opd_dir[p], OpdSought(p)
  PROVE  OpdSought(p)'
<1>1. Searching(p) => Searching(p)'
  BY StillPassed DEF Searching
<1>2. Followed(p) => Followed(p)'
  BY StillFollowed DEF Followed
<1>3. Found(p) => Found(p)'
  BY StillFound DEF Found
<1> QED
  BY <1>1, <1>2, <1>3 DEF OpdSought

(* One turn of the search: a match is the first, and what does not match   *)
(* is passed over.                                                         *)
LEMMA SearchOpd ==
  ASSUME TypeOK, OpdInv, NEW p \in Procs, find_opd(p)
  PROVE  OpdSought(p)'
<1>1. /\ pc[p] = "find opd" /\ env' = env /\ find_exec_in_path(p, "opd", "follow")
      /\ pc \in [Procs -> Places] /\ DOMAIN path = Procs /\ DOMAIN abspath = Procs
  BY DEF find_opd, At, TypeOK, OpdInv
<1>3. CASE PathMissing(p)
  BY <1>1, <1>3 DEF PathMissing, Goto, OpdSought
<1>4. CASE PathExhausted(p, "follow")
  <2>1. pc'[p] = "follow" /\ abspath'[p] = NotFound
    BY <1>1, <1>4 DEF PathExhausted, Goto
  <2> QED
    BY <2>1 DEF OpdSought
<1>5. ASSUME Element(p)
      PROVE  \E k \in 0 .. Len(env.path) :
               /\ k + 1 \in DOMAIN env.path /\ Head(path[p]) = env.path[k + 1]
               /\ env.path \in Seq(STRING) /\ Len(env.path) \in Nat /\ Passed(k)
               /\ Tail(path[p]) \in Seq(STRING) /\ Len(Tail(path[p])) = Len(env.path) - (k + 1)
               /\ \A i \in 1 .. Len(Tail(path[p])) : Tail(path[p])[i] = env.path[i + (k + 1)]
  <2>1. env.path # NoPath /\ Searching(p)
    BY <1>1, <1>5, Zenon DEF OpdInv, OpdSought, Element
  <2>2. env.path \in Seq(STRING)
    BY <2>1, PathAssumption DEF TypeOK
  <2>3. Len(env.path) \in Nat /\ DOMAIN env.path = 1 .. Len(env.path)
    BY <2>2, LenProperties
  <2>4. PICK k \in 0 .. Len(env.path) :
          /\ path[p] \in Seq(STRING) /\ Len(path[p]) = Len(env.path) - k
          /\ \A i \in 1 .. Len(path[p]) : path[p][i] = env.path[i + k]
          /\ Passed(k)
    BY <2>1 DEF Searching
  <2>5. path[p] # <<>>
    BY <1>5, Zenon DEF Element
  <2>6. Len(path[p]) \in Nat \ {0}
    BY <2>4, <2>5, EmptySeq, LenProperties
  <2>7. /\ Head(path[p]) = path[p][1] /\ Tail(path[p]) \in Seq(STRING)
        /\ Len(Tail(path[p])) = Len(path[p]) - 1
        /\ \A i \in 1 .. Len(Tail(path[p])) : Tail(path[p])[i] = path[p][i + 1]
    <3>1. \A s \in Seq(STRING) : s # <<>> =>
            /\ Head(s) = s[1] /\ Tail(s) \in Seq(STRING) /\ Len(Tail(s)) = Len(s) - 1
            /\ \A i \in 1 .. (Len(s) - 1) : Tail(s)[i] = s[i + 1]
      BY HeadTailProperties
    <3> QED
      BY <2>4, <2>5, <3>1
  <2>8. k + 1 \in DOMAIN env.path /\ Head(path[p]) = env.path[k + 1]
    <3>1. 1 \in 1 .. Len(path[p]) /\ 1 + k = k + 1 /\ k + 1 \in 1 .. Len(env.path)
      BY <2>3, <2>4, <2>6
    <3> QED
      BY <2>3, <2>4, <2>7, <3>1
  <2>9. Len(Tail(path[p])) = Len(env.path) - (k + 1)
    BY <2>3, <2>4, <2>6, <2>7
  <2>10. ASSUME NEW i \in 1 .. Len(Tail(path[p]))
         PROVE  Tail(path[p])[i] = env.path[i + (k + 1)]
    <3>1. Len(Tail(path[p])) = Len(path[p]) - 1 /\ k \in Int
      BY <2>7
    <3>2. i \in 1 .. (Len(path[p]) - 1)
      BY <3>1
    <3>3. i + 1 \in 1 .. Len(path[p]) /\ (i + 1) + k = i + (k + 1)
      BY <2>6, <3>1, <3>2
    <3> QED
      BY <2>4, <2>7, <3>3
  <2> QED
    BY <2>2, <2>3, <2>4, <2>5, <2>7, <2>8, <2>9, <2>10
<1>6. CASE PathMatches(p, "opd", "follow")
  <2>1. /\ pc'[p] = "follow" /\ abspath'[p] = Head(path[p]) /\ Element(p)
        /\ Holds(Head(path[p]), "opd")
    BY <1>1, <1>6 DEF PathMatches, Goto
  <2>2. PICK k \in 0 .. Len(env.path) :
          /\ k + 1 \in DOMAIN env.path /\ Head(path[p]) = env.path[k + 1]
          /\ Len(env.path) \in Nat /\ Passed(k)
    BY <1>5, <2>1
  <2>3. FirstWith("opd", Head(path[p]))
    <3>1. (k + 1) - 1 = k
      BY <2>2
    <3>2. Passed((k + 1) - 1) /\ Head(path[p]) # ""
      BY <2>1, <2>2, <3>1, Zenon DEF Element
    <3> QED
      BY <2>1, <2>2, <3>2, Zenon DEF FirstWith, Passed
  <2>4. Reached(Head(path[p]))
    BY <2>2, <2>3 DEF Reached, LinksLead
  <2>5. Followed(p)'
    BY <1>1, <2>1, <2>4, StillFollowed
  <2> QED
    BY <2>1, <2>5 DEF OpdSought
<1>7. CASE PathMovesOn(p, "opd")
  <2>1. /\ path'[p] = Tail(path[p]) /\ pc' = pc /\ Element(p) /\ ~Holds(Head(path[p]), "opd")
    BY <1>1, <1>7 DEF PathMovesOn
  <2>2. PICK k \in 0 .. Len(env.path) :
          /\ k + 1 \in DOMAIN env.path /\ Head(path[p]) = env.path[k + 1]
          /\ env.path \in Seq(STRING) /\ Len(env.path) \in Nat /\ Passed(k)
          /\ Tail(path[p]) \in Seq(STRING) /\ Len(Tail(path[p])) = Len(env.path) - (k + 1)
          /\ \A i \in 1 .. Len(Tail(path[p])) : Tail(path[p])[i] = env.path[i + (k + 1)]
    BY <1>5, <2>1
  <2>3. k + 1 \in 0 .. Len(env.path)
    <3>1. DOMAIN env.path = 1 .. Len(env.path)
      BY <2>2, LenProperties
    <3> QED
      BY <2>2, <3>1
  <2>4. Passed(k + 1)
    <3>1. \A j \in 1 .. (k + 1) : j \in 1 .. k \/ j = k + 1
      BY <2>2
    <3> QED
      BY <2>1, <2>2, <3>1, Zenon DEF Passed
  <2>5. Passed(k + 1)'
    BY <1>1, <2>4, Zenon DEF Passed, Holds
  <2>6. Searching(p)'
    BY <1>1, <2>1, <2>2, <2>3, <2>5 DEF Searching
  <2>7. env.path # NoPath
    BY <1>1, <2>1, Zenon DEF OpdInv, OpdSought, Element
  <2> QED
    BY <1>1, <2>1, <2>6, <2>7 DEF OpdSought
<1> QED
  BY <1>1, <1>3, <1>4, <1>6, <1>7 DEF find_exec_in_path

(* The links of the opd that was found are followed, and none is taken for *)
(* the file itself.                                                        *)
LEMMA FollowOpd ==
  ASSUME TypeOK, OpdInv, NEW p \in Procs, find_gdbase_prefix(p)
  PROVE  OpdSought(p)'
<1>1. /\ pc[p] = "follow" /\ env' = env /\ pc \in [Procs -> Places]
      /\ DOMAIN abspath = Procs /\ DOMAIN opd_dir = Procs
      /\ abspath[p] \in {NotFound, Nowhere} \/ Reached(abspath[p])
  BY DEF Followed, find_gdbase_prefix, At, TypeOK, OpdInv, OpdSought
<1>2. CASE CopyGarbage(p) /\ UNCHANGED opd_dir
  BY <1>1, <1>2 DEF CopyGarbage, Goto, OpdSought
<1>3. CASE FollowLink(p) /\ UNCHANGED opd_dir
  <2>1. /\ pc'[p] = "follow" /\ abspath[p] \in DOMAIN env.link
        /\ abspath'[p] = env.link[abspath[p]] \/ abspath'[p] = Nowhere
    BY <1>1, <1>3 DEF FollowLink
  <2>2. abspath'[p] = Nowhere \/ Reached(abspath'[p])
    BY <1>1, <2>1, LinkLeadsOn, LinkAssumption DEF TypeOK
  <2>3. abspath'[p] = Nowhere \/ Followed(p)'
    BY <1>1, <2>2, StillFollowed
  <2> QED
    BY <2>1, <2>3 DEF OpdSought
<1>4. CASE /\ IsRegular(p) /\ Goto(p, "prefix") /\ UNCHANGED abspath
           /\ opd_dir' = [opd_dir EXCEPT ![p] = Prefix(p)]
  <2>1. /\ pc'[p] = "prefix" /\ opd_dir'[p] = Prefix(p)
        /\ Reached(abspath[p]) /\ abspath[p] \notin DOMAIN env.link
    BY <1>1, <1>4 DEF IsRegular, Goto
  <2>2. Prefix(p) = NotFound \/ Installed(Prefix(p))
    BY <2>1 DEF Prefix, Installed, Reached
  <2>3. Installed(Prefix(p)) => Found(p)'
    BY <1>1, <2>1, StillFound
  <2> QED
    BY <2>1, <2>2, <2>3 DEF OpdSought
<1> QED
  BY <1>2, <1>3, <1>4 DEF find_gdbase_prefix

(* Every step of every process keeps the invariant of the search.          *)
LEMMA OpdInvKept == TypeOK /\ OpdInv /\ [Next]_vars => OpdInv'
<1> SUFFICES ASSUME TypeOK, OpdInv, [Next]_vars
             PROVE  OpdInv'
  OBVIOUS
<1>1. CASE UNCHANGED vars
  <2>1. /\ env' = env /\ pc' = pc /\ path' = path /\ abspath' = abspath
        /\ opd_dir' = opd_dir
    BY <1>1 DEF vars, tools
  <2>2. \A q \in Procs : OpdSought(q)'
    BY <2>1, Unmoved DEF OpdInv
  <2> QED
    BY <2>1, <2>2 DEF OpdInv
<1>2. ASSUME NEW p \in Procs, Opd(p)
      PROVE  OpdInv'
  <2>1. /\ pc \in [Procs -> Places]
        /\ DOMAIN path = Procs /\ DOMAIN abspath = Procs /\ DOMAIN opd_dir = Procs
    BY DEF OpdInv, TypeOK
  <2>2. /\ env' = env
        /\ DOMAIN path' = Procs /\ DOMAIN abspath' = Procs /\ DOMAIN opd_dir' = Procs
        /\ \A q \in Procs \ {p} : pc'[q] = pc[q] /\ path'[q] = path[q]
                                  /\ abspath'[q] = abspath[q] /\ opd_dir'[q] = opd_dir[q]
    <3> USE DEF Goto, At, tools
    <3>1. ASSUME NEW command, NEW then, find_exec_in_path(p, command, then)
          PROVE  /\ DOMAIN path' = Procs /\ DOMAIN abspath' = Procs
                 /\ \A q \in Procs \ {p} : /\ pc'[q] = pc[q] /\ path'[q] = path[q]
                                           /\ abspath'[q] = abspath[q]
      BY <2>1, <3>1 DEF find_exec_in_path, PathMissing, PathExhausted, PathMatches, PathMovesOn
    <3>2. CASE find_opd(p) \/ find_gdb(p)
      BY <2>1, <3>1, <3>2 DEF find_opd, find_gdb
    <3>3. CASE find_gdbase_prefix(p)
      BY <2>1, <3>3 DEF find_gdbase_prefix, CopyGarbage, FollowLink
    <3>4. CASE check_target(p) \/ identify(p) \/ check_timeout(p) \/ exists(p) \/ remove(p)
               \/ db_open(p)
      BY <2>1, <3>4 DEF check_target, identify, check_timeout, exists, remove, db_open
    <3>5. CASE check_prefix(p) \/ check_gdb(p)
      BY <2>1, <3>5 DEF check_prefix, check_gdb
    <3> QED
      BY <1>2, <3>2, <3>3, <3>4, <3>5 DEF Opd
  <2>3. \A q \in Procs \ {p} : OpdSought(q)'
    BY <2>2, Unmoved DEF OpdInv
  <2>4. OpdSought(p)'
    <3> USE DEF Goto, At, tools
    <3>1. CASE check_target(p)
      <4>1. pc[p] = "options" /\ pc'[p] \in {"identify", "refused"} /\ path'[p] = path[p]
        BY <2>1, <3>1 DEF check_target
      <4> QED
        BY <2>2, <4>1 DEF OpdInv, OpdSought
    <3>2. CASE identify(p)
      <4>1. /\ pc[p] = "identify" /\ path'[p] = path[p]
            /\ \/ pc'[p] = "find opd"
               \/ pc'[p] = "prefix" /\ env.p # None
        BY <2>1, <3>2 DEF identify
      <4>2. path'[p] = env.path
        BY <4>1 DEF OpdInv, OpdSought
      <4>3. env.path # NoPath => Searching(p)'
        <5> SUFFICES ASSUME env.path # NoPath
                     PROVE  Searching(p)'
          OBVIOUS
        <5>1. env.path \in Seq(STRING)
          BY PathAssumption DEF TypeOK
        <5>2. Len(env.path) \in Nat
          BY <5>1, LenProperties
        <5>3. Passed(0)'
          <6>1. \A j \in 1 .. 0 : FALSE
            OBVIOUS
          <6> QED
            BY <6>1, Zenon DEF Passed
        <5>4. Len(env.path) = Len(env.path) - 0 /\ \A i \in 1 .. Len(env.path) : i = i + 0
          BY <5>2
        <5> QED
          BY <2>2, <4>2, <5>1, <5>2, <5>3, <5>4 DEF Searching
      <4> QED
        BY <2>2, <4>1, <4>2, <4>3 DEF OpdSought
    <3>3. CASE find_opd(p)
      BY <3>3, SearchOpd
    <3>4. CASE find_gdbase_prefix(p)
      BY <3>4, FollowOpd
    <3>5. CASE check_prefix(p)
      <4>1. /\ pc[p] = "prefix" /\ pc'[p] \in {"find gdb", "gdb", "refused"}
            /\ env.GDBASE_PREFIX = None => opd_dir'[p] = opd_dir[p]
            /\ pc'[p] # "refused" => opd_dir'[p] # NotFound
        BY <2>1, <3>5 DEF check_prefix
      <4>2. ASSUME pc'[p] # "refused", env.p = None, env.GDBASE_PREFIX = None
            PROVE  Found(p)'
        <5>1. Found(p)
          BY <4>1, <4>2 DEF OpdInv, OpdSought
        <5> QED
          BY <2>2, <4>1, <4>2, <5>1, StillFound DEF Found
      <4> QED
        BY <2>2, <4>1, <4>2 DEF OpdSought
    <3>6. CASE find_gdb(p) \/ check_gdb(p) \/ check_timeout(p) \/ exists(p) \/ remove(p)
               \/ db_open(p)
      <4>1. ASSUME NEW command, find_exec_in_path(p, command, "gdb")
            PROVE  UNCHANGED pc \/ \E where \in {"crashed", "gdb"} : Goto(p, where)
        BY <4>1 DEF find_exec_in_path, PathMissing, PathExhausted, PathMatches, PathMovesOn
      <4>2. /\ pc[p] \in {"find gdb", "gdb", "timeout", "exists", "remove", "open"}
            /\ pc'[p] \in {"find gdb", "gdb", "timeout", "exists", "remove", "open", "running",
                           "refused", "crashed"}
            /\ opd_dir'[p] = opd_dir[p]
        BY <2>1, <3>6, <4>1 DEF find_gdb, check_gdb, check_timeout, exists, remove, db_open
      <4>3. Found(p) => Found(p)'
        BY <2>2, <4>2, StillFound DEF Found
      <4> QED
        BY <2>2, <4>2, <4>3 DEF OpdInv, OpdSought
    <3> QED
      BY <1>2, <3>1, <3>2, <3>3, <3>4, <3>5, <3>6 DEF Opd
  <2> QED
    BY <2>2, <2>3, <2>4 DEF OpdInv
<1> QED
  BY <1>1, <1>2 DEF Next

(* Unless it is told where, opd works from the installation that the first *)
(* opd of PATH belongs to, for every PATH and all links, and whatever the  *)
(* buffers held.                                                           *)
THEOREM InstallationFound == Spec => []RunsInstallation
<1>1. Init => OpdInv
  BY DEF Init, OpdInv, OpdSought
<1>2. OpdInv => RunsInstallation
  BY DEF OpdInv, OpdSought, Found, RunsInstallation
<1> QED
  BY <1>1, <1>2, OpdInvKept, StartupTypes, PTL DEF Spec

=============================================================================
