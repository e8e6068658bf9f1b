---------------------------- MODULE MCProcesses ----------------------------
(* A Job with one partition and two generations; a Comet and a Logic with     *)
(* two requests and one call; a replay over two dead letters of a task for    *)
(* two recipients, with two records of its own.                               *)
EXTENDS Processes

CONSTANTS p1, h1, h2, c1, u1, u2, r1

=============================================================================
