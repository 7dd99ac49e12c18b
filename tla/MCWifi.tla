--------------------------------- MODULE MCWifi ---------------------------------
(***************************************************************************)
(* Model checking of Wifi with small queues, so that they fill up.         *)
(***************************************************************************)
EXTENDS Wifi
===============================================================================
