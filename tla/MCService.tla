------------------------------- MODULE MCService -------------------------------
(***************************************************************************)
(* Model checking of Service: the uses of a service, by a controller and,  *)
(* where a run needs one, a second client that interferes.                 *)
(***************************************************************************)
EXTENDS Service

MCClients == {"controller", "other"}
Controller == {"controller"}
Other == {"other"}

\* On FreeRTOS, nothing but a handler: the other uses are changes of this one.
Bare ==
  [platform |-> "esp32", main |-> FALSE, semaphore |-> FALSE, driver |-> FALSE,
   starters |-> {}, stoppers |-> {}, notifiers |-> {}, waiters |-> {}, starts |-> 1]

Posix(u) == [u EXCEPT !.platform = "posix"]

\* CORE and HMI: started once, fed by a driver, never stopped.
DriverUse == [Bare EXCEPT !.driver = TRUE, !.starters = Controller, !.starts = 2]

\* A client that starts a service and notifies it.
NotifyUse == Posix([Bare EXCEPT !.starters = Controller, !.notifiers = Controller])

\* A client that also stops the service and waits until it has terminated.
StopUse ==
  [Bare EXCEPT !.semaphore = TRUE, !.starters = Controller, !.notifiers = Controller,
               !.stoppers = Controller, !.waiters = Controller]

\* A main that may return, in a service that is not the network console.
ReturnUse == [Bare EXCEPT !.main = TRUE, !.semaphore = TRUE, !.starters = Controller]

ProperUses ==
  {DriverUse, NotifyUse, StopUse, Posix(StopUse), ReturnUse, Posix(ReturnUse)}

ASSUME ProperAssumption == \A u \in ProperUses : Proper(u)

\* Two clients that start the service; one stops it, the other notifies it.
AnyUse ==
  [Bare EXCEPT !.semaphore = TRUE, !.driver = TRUE, !.starters = MCClients,
               !.stoppers = Controller, !.notifiers = Other, !.starts = 2]

\* The network console: a main, which two clients may start.
MainUse == [Bare EXCEPT !.main = TRUE, !.driver = TRUE, !.starters = MCClients, !.starts = 2]

AnyUses == {AnyUse, Posix(AnyUse), MainUse}

\* A client that starts the service again when it has terminated.
RestartUses == {Posix([StopUse EXCEPT !.notifiers = {}, !.starts = 2])}
===============================================================================
