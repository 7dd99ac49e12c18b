-------------------------------- MODULE MCFirmware --------------------------------
(***************************************************************************)
(* Model checking of Firmware with the consoles it contains: a polite      *)
(* client and one that types what it likes, over a read buffer and an      *)
(* array of arguments small enough to be exceeded.                         *)
(***************************************************************************)
EXTENDS Firmware

MCClients == {"polite", "other"}
MCPolite == {"polite"}

\* Known and unknown names, without arguments and with one too many.
MCRequests ==
  [name : {"HELP", "x"}, args : {<<>>}]
    \cup {[name |-> "SYS_FW_VER", args |-> <<"x", "x", "x">>]}

\* Anything is typed and nothing else happens; clients interfere with each
\* other; the machine interferes with the clients.
MCSettings ==
  { [platform |-> "emulator", sessions |-> 1, requests |-> 0, typed |-> 4,
     addresses |-> 0, restarts |-> 0],
    [platform |-> "emulator", sessions |-> 3, requests |-> 2, typed |-> 1,
     addresses |-> 0, restarts |-> 0],
    [platform |-> "esp32", sessions |-> 2, requests |-> 1, typed |-> 0,
     addresses |-> 2, restarts |-> 1] }

MCTyped == {"HELP", "x", "=", ";", "nl"}
===============================================================================
