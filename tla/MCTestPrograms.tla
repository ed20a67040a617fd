--------------------------- MODULE MCTestPrograms ---------------------------
(***************************************************************************)
(* A view for the model-checking of TestPrograms.                          *)
(***************************************************************************)
EXTENDS TestPrograms

(* The clock is read only to be compared with the awakening times: states  *)
(* in which the timers ring after the same number of ticks have the same   *)
(* behaviours, as long as the clock is below its bound.                    *)
MCView ==
  <<machine, running, context, pcbVars, poolVars, ready_list, waiting_list, zombie_list, status,
    [i \in DOMAIN timer_list |-> [timer_list[i] EXCEPT !.awakening_time = @ - disastrOS_time]],
    callVars, mqVars, progVars>>
=============================================================================
