------------------------------ MODULE MCAgents ------------------------------
(* opd -s: sessions driven by an agent or by a script of the user.         *)
EXTENDS Opd, Agents

(* single_step.tcl, and a breakpoint of the user whose method runs the     *)
(* application to the end of the function it is in.                        *)
finish_it     == <<Do("gdb_stepFinish")>>
StepFunctions == {<<"step_setup", "">>, <<"step_function", "">>, <<"finish_it", "">>}
StepProc      == [f \in StepFunctions |->
                    CASE f[1] = "step_setup"    -> step_setup
                      [] f[1] = "step_function" -> step_function_proc
                      [] f[1] = "finish_it"     -> finish_it]
StepSetup     == single_step_setup \o <<Break("finish_it", "")>>
StepEntry     == <<"step_setup", "">>

CallTypes         == <<"Send", "Recv">>
DeadlockFunctions == {<<"deadlock_setup", "">>}
                       \cup {<<"deadlock_catch", CallTypes[i]>> : i \in DOMAIN CallTypes}
DeadlockProc      == [f \in DeadlockFunctions |->
                        IF f[1] = "deadlock_setup" THEN deadlock_setup(CallTypes)
                                                   ELSE deadlock_catch(f[2])]
DeadlockSetup     == deadlock_user_setup
DeadlockEntry     == <<"deadlock_setup", "">>

(* The example of docs/USAGE, and the same second breakpoint.              *)
UserFunctions == {<<"get_info", "">>, <<"finish_it", "">>}
UserProc      == [f \in UserFunctions |->
                    IF f[1] = "get_info" THEN get_info ELSE finish_it]
UserSetup     == usage_setup \o <<Break("finish_it", "")>>
UserEntry     == <<"get_info", "">>

(* What the theorems about sessions ask of a script: the procedures whose  *)
(* answers are their own, those that await their steps, those that do not  *)
(* end the session, and those that resume once.                            *)
AgentProcs == {StepSetup, DeadlockSetup, UserSetup}
                \cup {StepProc[f] : f \in StepFunctions}
                \cup {DeadlockProc[f] : f \in DeadlockFunctions}
                \cup {UserProc[f] : f \in UserFunctions}

ASSUME AgentsAssumption ==
  /\ \A p \in AgentProcs : AnswersFollow(p) /\ StepsAwaited(p)
  /\ \A p \in AgentProcs \ {finish_it} : NeverExits(p)
  /\ \A p \in AgentProcs \ {DeadlockProc[f] : f \in DeadlockFunctions} : ResumesOnce(p)
  /\ AgentProcs \ {finish_it, StepSetup, UserSetup} \subseteq AgentProcedures(CallTypes)
=============================================================================
