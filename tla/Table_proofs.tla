----------------------------- MODULE Table_proofs ----------------------------
(***************************************************************************)
(* The vector of breakpoints, for every number of breakpoints: it holds    *)
(* the sequence that GdbMI works with, so what is proved there of the      *)
(* sequence holds of the memory opd looks its functions up in.             *)
(***************************************************************************)
EXTENDS Table, GdbMI_proofs

(* The vector v holds the sequence s, in memory that is large enough.      *)
Holds(v, s) ==
  /\ v.cap \in Nat /\ v.size = Len(s) /\ Len(s) <= v.cap
  /\ \A i \in 1 .. Len(s) : v.data[i - 1] = s[i]

----------------------------------------------------------------------------
(* vector_new is empty.                                                    *)
LEMMA NewHolds == Holds(vector_new, <<>>)
  BY DEF Holds, vector_new

(* vector_resize keeps the items and makes room for one more.              *)
LEMMA ResizeHolds ==
  ASSUME NEW S, NEW s \in Seq(S), NEW v, Holds(v, s)
  PROVE  Holds(vector_resize(v), s) /\ vector_resize(v).cap = v.cap * 2 + 1
<1>1. v.cap * 2 + 1 \in Nat /\ Len(s) <= v.cap * 2 + 1 /\ Len(s) \in Nat
  BY DEF Holds
<1>2. \A i \in 1 .. Len(s) : i - 1 \in 0 .. (v.cap * 2 + 1) - 1 /\ i - 1 < v.cap
  BY <1>1 DEF Holds
<1> QED
  BY <1>1, <1>2 DEF Holds, vector_resize

(* vector_addItem appends.                                                 *)
LEMMA AddItemHolds ==
  ASSUME NEW S, NEW s \in Seq(S), NEW v, NEW x, Holds(v, s)
  PROVE  Holds(vector_addItem(v, x), Append(s, x))
<1> DEFINE w == IF v.size >= v.cap THEN vector_resize(v) ELSE v
<1>1. Holds(w, s) /\ Len(s) < w.cap
  <2>1. Len(s) \in Nat /\ v.cap \in Nat /\ v.size = Len(s) /\ Len(s) <= v.cap
    BY DEF Holds
  <2>2. CASE v.size >= v.cap
    BY <2>1, <2>2, ResizeHolds
  <2>3. CASE ~(v.size >= v.cap)
    BY <2>1, <2>3
  <2> QED
    BY <2>2, <2>3
<1> DEFINE data == [i \in 0 .. w.cap - 1 |-> IF i = w.size THEN x ELSE w.data[i]]
<1>2. vector_addItem(v, x) = [cap |-> w.cap, size |-> w.size + 1, data |-> data]
  BY DEF vector_addItem
<1> HIDE DEF w
<1>3. w.size = Len(s) /\ w.cap \in Nat /\ Len(s) \in Nat
  BY <1>1 DEF Holds
<1>4. Len(Append(s, x)) = Len(s) + 1
  OBVIOUS
<1>5. \A i \in 1 .. Len(s) + 1 : data[i - 1] = Append(s, x)[i]
  <2> SUFFICES ASSUME NEW i \in 1 .. Len(s) + 1
               PROVE  data[i - 1] = Append(s, x)[i]
    OBVIOUS
  <2>1. /\ i - 1 \in 0 .. w.cap - 1
        /\ i \in 1 .. Len(s) \/ i = Len(s) + 1
    BY <1>1, <1>3
  <2>2. CASE i = Len(s) + 1
    BY <1>3, <2>1, <2>2
  <2>3. CASE i \in 1 .. Len(s)
    BY <1>1, <1>3, <2>1, <2>3 DEF Holds
  <2> HIDE DEF data
  <2> QED
    BY <2>1, <2>2, <2>3
<1> HIDE DEF data
<1> QED
  BY <1>1, <1>2, <1>3, <1>4, <1>5 DEF Holds

(* vector_getItem finds what was added, counting from 0.                   *)
LEMMA GetItemFinds ==
  ASSUME NEW S, NEW s \in Seq(S), NEW v, Holds(v, s), NEW n \in 1 .. Len(s)
  PROVE  vector_getItem(v, n - 1) = s[n]
  BY DEF Holds, vector_getItem

----------------------------------------------------------------------------
(* gdbmi.c does nothing to its table but add a function at the end.        *)
LEMMA TableGrows ==
  ASSUME TypeOK, Next, breakpoints' # breakpoints
  PROVE  \E f \in Functions : breakpoints' = Append(breakpoints, f)
<1>1. CASE Send
  BY <1>1 DEF Send, gdb_set_arguments, gdb_start_run, gdb_continue, gdb_stepNext,
         gdb_stepFinish, gdb_query, gdb_call, gdb_setPID, gdb_interrupt, gdb_exit,
         WriteBroken, gdb_setBreakpoint, gdb_setWatchpoint, gdb_step, Fire
<1>2. CASE Read
  <2>1. PICK l : gdb_getresponse /\ gdb_next_event(l) /\ breakpoints' = AddOnDone(l)
    BY <1>2 DEF Read, ReadEvent, gdb_getresponse, ReadValue, gdb_waitforprompt, ReadSigint
  <2>2. asked.op = "watch" /\ breakpoints' = Append(breakpoints, asked.fn)
    BY <2>1 DEF AddOnDone
  <2>3. asked.fn \in Functions
    BY <2>2 DEF TypeOK, Command, Ops, ExecOps, AskOps, CallOps
  <2> QED
    BY <2>2, <2>3
<1>3. CASE GdbExecute
  BY <1>3 DEF GdbExecute, GdbQuery, GdbInsert, GdbWatch, GdbCall, Resume, ResumeFaulted,
         RefuseResume, GdbExit, Execute, opd
<1>4. CASE AppRuns
  BY <1>4 DEF AppRuns, AppHits, AppLeavesScope, AppSteps, AppSignalled, AppExits, AppWrites,
         AppStops, opd
<1> QED
  BY <1>1, <1>2, <1>3, <1>4 DEF Next

(* The steps of a vector are steps of GdbMI.                               *)
LEMMA TableImplementsGdbMI == TableSpec => Spec
<1>1. TableInit => Init
  BY DEF TableInit
<1>2. [TableNext]_tableVars => [Next]_vars
  BY DEF TableNext, tableVars
<1> QED
  BY <1>1, <1>2, PTL DEF TableSpec, Spec

(* The vector always holds opd's table, and nothing but memory that was    *)
(* written is in use.                                                      *)
THEOREM TableHolds == TableSpec => []Holds(table, breakpoints)
<1>1. TableInit => Holds(table, breakpoints)
  BY NewHolds DEF TableInit, Init
<1>2. TypeOK /\ Holds(table, breakpoints) /\ [TableNext]_tableVars => Holds(table, breakpoints)'
  <2> SUFFICES ASSUME TypeOK, Holds(table, breakpoints), [TableNext]_tableVars
               PROVE  Holds(table', breakpoints')
    BY DEF Holds
  <2>1. CASE table' = table /\ breakpoints' = breakpoints
    BY <2>1
  <2>2. CASE TableNext /\ breakpoints' # breakpoints
    <3>1. PICK f \in Functions : breakpoints' = Append(breakpoints, f)
      BY <2>2, TableGrows DEF TableNext
    <3>2. breakpoints \in Seq(Functions)
      BY DEF TypeOK
    <3>3. breakpoints'[Len(breakpoints')] = f
      BY <3>1, <3>2
    <3>4. table' = vector_addItem(table, f)
      BY <2>2, <3>3 DEF TableNext
    <3> QED
      BY <3>1, <3>2, <3>4, AddItemHolds
  <2> QED
    BY <2>1, <2>2 DEF TableNext, tableVars, vars, opd
<1> QED
  BY <1>1, <1>2, TableImplementsGdbMI, TypeCorrect, PTL DEF TableSpec

(* For any number of breakpoints: as long as opd and gdb are in step, the  *)
(* number in every stop finds its function in the vector.                  *)
THEOREM LookupsAreSound == TableSpec => []LookupIsSound
<1>1. TypeOK /\ DispatchSound /\ Holds(table, breakpoints) => LookupIsSound
  <2> SUFFICES ASSUME TypeOK, DispatchSound, Holds(table, breakpoints), blame = {},
                      NEW i \in DOMAIN gdb_stdout, gdb_stdout[i].no # 0
               PROVE  gdb_dispatch(gdb_stdout[i].no) = bps[gdb_stdout[i].no].fn
    BY DEF LookupIsSound
  <2> DEFINE n == gdb_stdout[i].no
  <2>1. n \in DOMAIN breakpoints /\ breakpoints[n] = bps[n].fn
    BY DEF DispatchSound
  <2>2. breakpoints \in Seq(Functions) /\ n \in 1 .. Len(breakpoints)
    BY <2>1 DEF TypeOK
  <2> HIDE DEF n
  <2>3. vector_getItem(table, n - 1) = breakpoints[n]
    BY <2>2, GetItemFinds
  <2> QED
    BY <2>1, <2>3 DEF gdb_dispatch, n
<1> QED
  BY <1>1, TableHolds, TableImplementsGdbMI, TypeCorrect, DispatchIsSound, PTL
=============================================================================
