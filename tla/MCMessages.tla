------------------------------- MODULE MCMessages -------------------------------
(***************************************************************************)
(* The parts of the monitor that exchange messages, each on a small        *)
(* instance.  They share no state: a behaviour is one of one part, `part', *)
(* and the others stay in one of their initial states.                     *)
(***************************************************************************)
EXTENDS Rpmi, RpmiClients, Bridge

CONSTANTS h1, h2, a, b, x
VARIABLE part

\* Rpmi: rings with room for two messages, for one and, with the one slot that
\* rpmi_shmem_probe() takes as well, for none.
NoMessage == [q \in RpmiQueue |-> 1]
OneMessage == [q \in RpmiQueue |-> 2]
TwoMessages == [q \in RpmiQueue |-> IF q = "A2P_ACK" THEN 2 ELSE 3]
\* Setting the doorbell up; using it; calls enough for tokens to come round.
FiveBudgets ==
  {[request |-> 2, posted |-> 0, poll |-> 0, note |-> 1, expire |-> 0, ready |-> NoRpmiHart],
   [request |-> 1, posted |-> 0, poll |-> 0, note |-> 1, expire |-> 1, ready |-> NoRpmiHart],
   [request |-> 1, posted |-> 0, poll |-> 0, note |-> 3, expire |-> 0, ready |-> h1],
   [request |-> 0, posted |-> 1, poll |-> 1, note |-> 2, expire |-> 0, ready |-> h1],
   [request |-> 3, posted |-> 1, poll |-> 0, note |-> 0, expire |-> 1, ready |-> h1]}

\* Bridge: a is the source, b at the other end, x a domain on the way.
EntryAll == {<<a, x>>, <<x, a>>, <<x, b>>, <<a, b>>, <<b, x>>}

\* RpmiClients: what the PuC is, and which of the drivers looks at it.
Fact(topic, auto, usable, boot) ==
  [topic |-> topic, autonomous |-> auto, usable |-> usable, upAtBoot |-> boot,
   types |-> <<"t1", "t2", "t3", "t4">>, resets |-> {"COLD"}, msis |-> 3, reserved |-> {1}]
SomeFacts ==
  {Fact("cppc", TRUE, TRUE, TRUE), Fact("cppc", TRUE, TRUE, FALSE),
   Fact("cppc", FALSE, TRUE, FALSE), Fact("cppc", FALSE, FALSE, FALSE),
   Fact("suspend", TRUE, TRUE, FALSE), Fact("reset", TRUE, TRUE, FALSE),
   Fact("msi", TRUE, TRUE, FALSE), Fact("events", TRUE, TRUE, TRUE)}
-------------------------------------------------------------------------------
IdleRpmi == left = (CHOOSE l \in Budgets : TRUE) /\ RpmiInit
IdleClients == facts = (CHOOSE f \in PucFacts : TRUE) /\ ClientInit
IdleBridge == bcur = Host /\ BridgeInit

Init ==
  \/ part = "rpmi" /\ RpmiInit /\ IdleClients /\ IdleBridge
  \/ part = "clients" /\ IdleRpmi /\ ClientInit /\ IdleBridge
  \/ part = "bridge" /\ IdleRpmi /\ IdleClients /\ BridgeInit

Next ==
  /\ UNCHANGED part
  /\ \/ part = "rpmi" /\ RpmiNext /\ UNCHANGED <<clientsVars, bridgeVars>>
     \/ part = "clients" /\ ClientNext /\ UNCHANGED <<rpmiVars, bridgeVars>>
     \/ part = "bridge" /\ BridgeNext /\ UNCHANGED <<rpmiVars, clientsVars>>

Spec == Init /\ [][Next]_<<part, rpmiVars, clientsVars, bridgeVars>> /\ RpmiFairness

\* The behaviours of the bridge alone
BridgePart == part = "bridge" /\ Init /\ [][Next]_<<part, rpmiVars, clientsVars, bridgeVars>>
================================================================================
