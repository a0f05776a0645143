--------------------------------- MODULE MCHsm ---------------------------------
(***************************************************************************)
(* Harts that are up: their states, and the devices through which they     *)
(* interrupt one another, each on a small instance.  They share no state:  *)
(* a behaviour is one of one component, and the other stays in one of its  *)
(* initial states.                                                         *)
(***************************************************************************)
EXTENDS Hsm, IpiDevices

VARIABLE component

\* IpiDevices: four harts, in another order than their ids
SomeOrder == [p \in 0 .. 3 |-> (3 * p + 2) % 4]
-------------------------------------------------------------------------------
InitOfOne ==
  /\ component \in {"hsm", "devices"}
  /\ InitBooted
  /\ component # "devices" => device = "mswi"
  /\ IpiDevicesInit

NextOfOne ==
  /\ UNCHANGED component
  /\ \/ component = "hsm" /\ Next /\ UNCHANGED ipiDeviceVars
     \/ component = "devices" /\ IpiDevicesNext /\ UNCHANGED hsmVars

FairSpecOfOne == InitOfOne /\ [][NextOfOne]_<<component, hsmVars, ipiDeviceVars>> /\ Fairness
================================================================================
