--------------------------- MODULE MCTrapAndAlarm ---------------------------
(***************************************************************************)
(* A view for the model-checking of TrapAndAlarm.                          *)
(***************************************************************************)
EXTENDS TrapAndAlarm

(* Return values and signals are read by no guard and by no property but   *)
(* the type invariant: states that differ in nothing else have the same    *)
(* behaviours, and no step changes these alone.                            *)
MCView == <<machine, disastrOS_time, context, pid, parent, children, init_pcb,
            last_pid, poolVars, schedVars, wait_arg, trapVars>>
=============================================================================
