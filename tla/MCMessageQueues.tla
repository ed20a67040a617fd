--------------------------- MODULE MCMessageQueues --------------------------
(***************************************************************************)
(* Values for the constants of MessageQueues that a .cfg cannot write.     *)
(***************************************************************************)
EXTENDS MessageQueues

(* Open modes.  With CREATE, the bit EXCL is not looked at.                *)
MCModes == {{}, {DSOS_CREATE}, {DSOS_EXCL}}

(* Queue sizes: without a bound, useless, and small.                       *)
MCMaxMsgs == {-1, 0, 1}

(* Return values and signals are read by no guard: states that differ in   *)
(* nothing else have the same behaviours.                                  *)
MCView == <<machine, disastrOS_time, context, pid, parent, children, init_pcb,
            last_pid, poolVars, schedVars, wait_arg, mqVars>>
=============================================================================
