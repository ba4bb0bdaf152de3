-------------------------------- MODULE Table --------------------------------
(***************************************************************************)
(* gdbmi.c with its breakpoints where it really keeps them, in a Vector.   *)
(* GdbMI's sequence breakpoints is what the vector stands for; a stop is   *)
(* looked up in the vector by the number gdb gave it.                      *)
(***************************************************************************)
EXTENDS GdbMI, Vector

VARIABLE table

tableVars == <<vars, table>>

TableInit == Init /\ table = vector_new

TableNext ==
  /\ Next
  /\ table' = IF breakpoints' = breakpoints THEN table
              ELSE vector_addItem(table, breakpoints'[Len(breakpoints')])

TableSpec == TableInit /\ [][TableNext]_tableVars

(* As in GdbMI.                                                            *)
TableFairSpec ==
  /\ TableSpec
  /\ WF_vars(Read) /\ WF_vars(GdbExecute) /\ WF_vars(AppExits)

(* gdb_dispatchBreakpoint, gdb_dispatchWatchpointTrigger and -Scope.       *)
gdb_dispatch(number) == vector_getItem(table, number - 1)

(* While opd and gdb are in step, the number in every stop that gdb        *)
(* reports leads through the vector, however often it has grown, to the    *)
(* function bound to that breakpoint, and never to memory behind the last  *)
(* item, which vector_getItem does not refuse to read.                     *)
LookupIsSound ==
  blame = {} =>
    \A i \in DOMAIN gdb_stdout :
      LET n == gdb_stdout[i].no IN n # 0 => gdb_dispatch(n) = bps[n].fn
=============================================================================
