---------------------------------- MODULE MCHmi ----------------------------------
(***************************************************************************)
(* Model checking of Hmi: enough presses to go round the colours twice and *)
(* to fill the queue.                                                      *)
(***************************************************************************)
EXTENDS Hmi
===============================================================================
