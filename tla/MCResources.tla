----------------------------- MODULE MCResources ----------------------------
(***************************************************************************)
(* Values for the constants of Resources that a .cfg cannot write.         *)
(***************************************************************************)
EXTENDS Resources

(* One id more than there are resources, and two types for one of them.    *)
MCOpenArgs == {<<0, 0>>, <<0, 1>>, <<1, 0>>, <<2, 0>>}

(* Open modes.  With CREATE, the bit EXCL is tested on a resource without  *)
(* users, and changes nothing.                                             *)
MCModes == {{}, {DSOS_CREATE}, {DSOS_EXCL}}

(* Return values and signals are read by no guard: states that differ in   *)
(* nothing else have the same behaviours.                                  *)
MCView == <<machine, disastrOS_time, context, pid, parent, children, init_pcb,
            last_pid, poolVars, schedVars, wait_arg, resourceVars>>
=============================================================================
