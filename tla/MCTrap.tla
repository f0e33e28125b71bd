------------------------------- MODULE MCTrap -------------------------------
(* Two harts and a process that moves between them, and two processes that *)
(* take turns on one hart.                                                 *)
EXTENDS Trap

MCBoot == {<<{0, 1}, {1}>>, <<{0}, {1, 2}>>}
=============================================================================
