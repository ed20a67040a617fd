------------------------------ MODULE Lifecycle -----------------------------
(***************************************************************************)
(* What the process calls promise, by pid and without PCBs, lists or       *)
(* timers: a pid is born once, moves between ready, running and waiting,   *)
(* may stay as a zombie after its exit, and is reaped once, after which it *)
(* is never seen again.  At most one process runs at a time.               *)
(***************************************************************************)
EXTENDS Naturals

CONSTANT NoPid

VARIABLES
  up,        \* the program has not ended
  born,      \* pids 0 .. born-1 were given
  run,       \* the pid that runs, or NoPid
  ready, waiting, zombies

vars == <<up, born, run, ready, waiting, zombies>>

Init ==
  /\ up = TRUE
  /\ born = 1
  /\ run = 0
  /\ ready = {}
  /\ waiting = {}
  /\ zombies = {}

Boot ==
  /\ run = NoPid
  /\ run' = born
  /\ born' = born + 1
  /\ UNCHANGED <<up, ready, waiting, zombies>>

Spawn ==
  /\ run # NoPid
  /\ ready' = ready \cup {born}
  /\ born' = born + 1
  /\ UNCHANGED <<up, run, waiting, zombies>>

(* Some waiting processes become ready and one of the ready ones takes the *)
(* place of the running one.                                               *)
Switch(woken) ==
  /\ run # NoPid
  /\ run' \in ready \cup woken
  /\ ready' = ((ready \cup woken) \ {run'}) \cup {run}
  /\ waiting' = waiting \ woken
  /\ UNCHANGED <<up, born, zombies>>

Block ==
  /\ run # NoPid
  /\ waiting' = waiting \cup {run}
  /\ IF ready = {} THEN run' = NoPid ELSE run' \in ready
  /\ ready' = ready \ {run'}
  /\ UNCHANGED <<up, born, zombies>>

(* The running process ends, as a zombie, or reaped at once by a process   *)
(* that waits for it.                                                      *)
Exit ==
  /\ run # NoPid
  /\ run' \in ready
  /\ ready' = ready \ {run'}
  /\ zombies' = zombies \cup {run}
  /\ UNCHANGED <<up, born, waiting>>

ExitAwaited ==
  /\ run # NoPid
  /\ run' \in waiting
  /\ waiting' = waiting \ {run'}
  /\ UNCHANGED <<up, born, ready, zombies>>

Reap(dead) ==
  /\ run # NoPid
  /\ zombies' = zombies \ {dead}
  /\ UNCHANGED <<up, born, run, ready, waiting>>

End ==
  /\ up' = FALSE
  /\ UNCHANGED <<born, run, ready, waiting, zombies>>

Next ==
  /\ up
  /\ \/ Boot
     \/ Spawn
     \/ \E woken \in SUBSET waiting : Switch(woken)
     \/ Block
     \/ Exit
     \/ ExitAwaited
     \/ \E dead \in zombies : Reap(dead)
     \/ End

Spec == Init /\ [][Next]_vars
=============================================================================
