------------------------------- MODULE Agents -------------------------------
(***************************************************************************)
(* Scripts for opd -s: the agents of src/share as procedures in the        *)
(* notation of OpdTcl, and the functions each of them gives to gdbmi.c.    *)
(* The global counters of an agent only number its messages and are left   *)
(* out, and so are the values it logs.                                     *)
(***************************************************************************)
EXTENDS OpdTcl, FiniteSets

Eval(x) == Query("eval", x)

(* src/share/single_step.tcl: a row for the stack and the locals of every  *)
(* line the application executes.                                          *)
single_step_setup ==
  <<Break("step_setup", ""), Log("opd.breakOnMain", "", "answer")>>

step_setup == <<Step("step_function", "")>>

step_function_proc ==
  <<Query("stack", ""), Log("opd.step.stack", "", "answer"),
    Query("locals", ""), Log("opd.step.locals", "", "answer"),
    Step("step_function", "")>>

(* src/share/deadlock.tcl: every point-to-point call, with its partner.    *)
deadlock_user_setup == <<Break("deadlock_setup", "")>>

deadlock_setup(types) ==
  <<Do("gdb_setPID")>>
    \o [i \in 1 .. 2 * Len(types) |->
          IF i % 2 = 1 THEN Break("deadlock_catch", types[(i + 1) \div 2])
                       ELSE Log("deadlock.setup", types[i \div 2], "answer")]
    \o <<Do("gdb_continue")>>

deadlock_catch(type) ==
  <<Do("gdb_stepNext"),
    Eval("count"), Eval("remote"),
    Do("gdb_call"), Eval("remote"), Query("set", "remote"),
    Eval("tag"),
    Log("deadlock.values", type, "text"), Do("gdb_continue")>>

(* src/docs/USAGE: its example script, and a method that finishes a call.  *)
get_info ==
  <<Query("stack", ""), Log("myinfo", "", "answer"),
    Query("locals", ""), Log("myinfo", "", "answer"),
    Eval("var_name"), Log("myinfo", "", "answer"),
    Do("gdb_continue")>>

usage_setup == <<Break("get_info", ""), Log("user.break", "", "answer")>>

(* What a script can be made of, for the calls the deadlock agent catches. *)
AgentProcedures(types) ==
  {single_step_setup, step_setup, step_function_proc,
   deadlock_user_setup, deadlock_setup(types), usage_setup, get_info}
    \cup {deadlock_catch(types[i]) : i \in DOMAIN types}
============================================================================
