----------------------------- MODULE MCProcesses ----------------------------
(***************************************************************************)
(* A view for the model-checking of Processes.                             *)
(***************************************************************************)
EXTENDS Processes

InUse == PCB \ ToSet(pcb_pool)

(* Return values and SIGCHLD are read by no guard, the fields of a free    *)
(* block but its status are set when it is handed out, and of that status  *)
(* the code only asks whether it is Waiting, which it never is.  The call  *)
(* of a process matters while it waits.  So states that differ in nothing  *)
(* else have the same behaviours.                                          *)
MCView ==
  <<machine, disastrOS_time, context, init_pcb, last_pid, poolVars, running, ready_list,
    waiting_list, zombie_list, timer_list, children,
    [p \in InUse |-> <<pid[p], parent[p], status[p], "SIGHUP" \in signals[p]>>],
    [p \in InUse |-> IF p \in waiting_list THEN wait_arg[p] ELSE NULL]>>
=============================================================================
