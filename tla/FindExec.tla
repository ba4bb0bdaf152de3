------------------------------ MODULE FindExec -------------------------------
(***************************************************************************)
(* src/findexec.c, as the processes of a job execute it: the search for a  *)
(* command along PATH, one element at a time, and the search for the       *)
(* directory gdbase is installed in, which follows the symbolic links from *)
(* the opd that PATH finds.                                                *)
(*                                                                         *)
(* A path name of a command is reduced to its directory.  A loop that does *)
(* not move on (an empty element of PATH, a link that leads to no file) is *)
(* a process without an action.                                            *)
(***************************************************************************)
EXTENDS Integers, Sequences

CONSTANTS
  Procs,    \* the processes of the job
  NoPath    \* PATH is not set

VARIABLES
  env,      \* what the environment holds; constant
  pc,       \* where each process is
  path,     \* what is left of PATH
  abspath   \* what the search has found

NotFound == "not found"
Nowhere  == "nowhere"      \* a path name that leads to no file

Goto(p, where) == pc' = [pc EXCEPT ![p] = where]

Holds(dir, command) == command \in env.holds[dir]

AtEnd(elements) == elements = <<>> \/ elements = <<"">>

PathMissing(p) ==
  /\ path[p] = NoPath
  /\ Goto(p, "crashed")
  /\ UNCHANGED <<path, abspath>>

PathExhausted(p, then) ==
  /\ path[p] # NoPath /\ AtEnd(path[p])
  /\ abspath' = [abspath EXCEPT ![p] = NotFound]
  /\ Goto(p, then)
  /\ UNCHANGED path

Element(p) == path[p] # NoPath /\ path[p] # <<>> /\ Head(path[p]) # ""

(* Mutant: the colon is not skipped.                                       *)
PathStopsAtColon(p, command) ==
  /\ Element(p) /\ ~Holds(Head(path[p]), command)
  /\ path' = [path EXCEPT ![p] = <<"">> \o Tail(@)]
  /\ UNCHANGED <<pc, abspath>>

PathMatches(p, command, then) ==
  /\ Element(p) /\ Holds(Head(path[p]), command)
  /\ abspath' = [abspath EXCEPT ![p] = Head(path[p])]
  /\ Goto(p, then)
  /\ UNCHANGED path

PathMovesOn(p, command) ==
  /\ Element(p) /\ ~Holds(Head(path[p]), command)
  /\ path' = [path EXCEPT ![p] = Tail(@)]
  /\ UNCHANGED <<pc, abspath>>

find_exec_in_path(p, command, then) ==
  PathMissing(p) \/ PathExhausted(p, then) \/ PathMatches(p, command, then) \/ PathMovesOn(p, command)

(* Nothing was found, and the buffer that is copied was never written.     *)
CopyGarbage(p) ==
  /\ abspath[p] = NotFound
  /\ \/ abspath' = [abspath EXCEPT ![p] = Nowhere] /\ UNCHANGED pc
     \/ Goto(p, "crashed") /\ UNCHANGED abspath

(* readlink does not end the name it writes, and a relative one is looked  *)
(* up in the working directory.                                            *)
FollowLink(p) ==
  /\ abspath[p] \in DOMAIN env.link
  /\ abspath' = [abspath EXCEPT ![p] = env.link[@]] \/ abspath' = [abspath EXCEPT ![p] = Nowhere]
  /\ UNCHANGED pc

(* Mutant: stat for lstat, which sees through a link.                      *)
IsRegularByStat(p) == abspath[p] \notin {NotFound, Nowhere}

IsRegular(p) == abspath[p] \notin {NotFound, Nowhere} \cup DOMAIN env.link

(* The prefix of .../bin/opd; there is none for an opd that is not in bin. *)
Prefix(p) == IF abspath[p] \in env.bin THEN abspath[p] ELSE NotFound
=============================================================================
