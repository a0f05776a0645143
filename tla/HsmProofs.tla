------------------------------ MODULE HsmProofs -------------------------------
(***************************************************************************)
(* Proofs about hart states (Hsm), for any number of harts: the types; the *)
(* arguments of a start do not change under way, with a platform that      *)
(* powers harts or without; without one, hsm_state says what the hart does *)
(* and moves as the SBI extension says.  And about the devices that a hart *)
(* is woken by (IpiDevices): a kick reaches its hart.                      *)
(***************************************************************************)
EXTENDS Hsm, IpiDevices, TLAPS

-------------------------------------------------------------------------------
(* Hart states *)

(***************************************************************************)
(* Where a hart is and what its state says, where no platform powers       *)
(* harts: the inductive form of StateMatchesHart.  It names the state at   *)
(* every label, for the next step of the hart's own goes by it, and the    *)
(* labels that only a platform leads to.                                   *)
(***************************************************************************)
StateInv ==
  \A h \in Hart :
    /\ pc[h] \notin {"off", "reset", "start_call", "start_fail"} /\ ~told[h]
    /\ present[h] <=> pc[h] # "entry"
    /\ pc[h] = "main" => hsm_state[h] \in {"STOPPED", "START_PENDING"}
    /\ pc[h] \in {"smode", "start_kick", "ipi_send", "scan"} => hsm_state[h] = "STARTED"
    /\ pc[h] = "stop_call" => hsm_state[h] = "STOP_PENDING"
    /\ pc[h] \in {"wait", "wait_store"} =>
         hsm_state[h] \in {"STOPPED", "START_PENDING", "STOP_PENDING"}
    /\ pc[h] \in {"loop_init", "loop", "wfi"} => hsm_state[h] \in {"STOPPED", "START_PENDING"}
    /\ pc[h] \in {"enter", "started"} => hsm_state[h] \in {"START_PENDING", "RESUME_PENDING"}
    /\ pc[h] \in {"suspend_call", "suspend_store"} => hsm_state[h] = "SUSPEND_PENDING"
    /\ pc[h] \in {"sleep", "resume"} => hsm_state[h] = "SUSPENDED"

(***************************************************************************)
(* What keeps start arguments from being changed, with a platform or       *)
(* without: a hart writes its own resume arguments while it is             *)
(* SUSPEND_PENDING, which no other hart changes; and until the boot hart   *)
(* has left image_main() every hart of the table is STOPPED, for there is  *)
(* nobody in S-mode to start one.                                          *)
(***************************************************************************)
BootOrder ==
  \A b \in Hart : pc[b] = "main" =>
    /\ b = BootHart
    /\ \A h \in Hart :
         /\ pc[h] \in {"main", "entry", "wait", "wait_store", "loop_init", "loop", "wfi"}
         /\ ~told[h]
         /\ present[h] => hsm_state[h] = "STOPPED"
         /\ pc[h] # "entry" => present[h]

ArgsInv ==
  /\ BootOrder
  /\ \A h \in Hart : pc[h] = "suspend_call" => hsm_state[h] = "SUSPEND_PENDING"
-------------------------------------------------------------------------------
\* Both kinds of initial states have the types.
LEMMA InitTypes == (Init => TypeOK) /\ (InitBooted => TypeOK)
<1>1. 0 \in 0 .. N
  BY HartAssumption
<1>2. Init => TypeOK
  BY <1>1 DEF Init, TypeOK, State, Label, Kind
<1>3. InitBooted => TypeOK
  BY <1>1 DEF InitBooted, TypeOK, State, Label, Kind
<1> QED
  BY <1>2, <1>3

\* Every step keeps them.
LEMMA NextTypes == TypeOK /\ [Next]_hsmVars => TypeOK'
<1> SUFFICES ASSUME TypeOK, [Next]_hsmVars PROVE TypeOK'
  OBVIOUS
<1> USE HartAssumption, PlatformAssumption
    DEF TypeOK, State, Label, Kind, Goto, SetState, ipiVars, callVars
<1>1. ASSUME NEW h \in Hart, TrapIpi(h) PROVE TypeOK'
  BY <1>1 DEF TrapIpi, IpiProcess
<1>2. ASSUME NEW h \in Hart, WaitLoopWake(h) PROVE TypeOK'
  BY <1>2 DEF WaitLoopWake, IpiProcess
<1>3. ASSUME NEW h \in Hart, SleepIpi(h) PROVE TypeOK'
  BY <1>3 DEF SleepIpi, IpiProcess
<1>4. ASSUME NEW h \in Hart, PlatformCallPoll(h) PROVE TypeOK'
  BY <1>4 DEF PlatformCallPoll, IpiProcess
<1>5. ASSUME NEW h \in Hart, WaitLoopInit(h) PROVE TypeOK'
  BY <1>5 DEF WaitLoopInit, IpiHartInit
<1>6. ASSUME NEW h \in Hart, HartInit(h) PROVE TypeOK'
  BY <1>6 DEF HartInit
<1>7. ASSUME NEW h \in Hart, NEW a \in Arg, BootHartStart(h, a) PROVE TypeOK'
  BY <1>7 DEF BootHartStart
<1>8. ASSUME NEW h \in Hart, HartWait(h) PROVE TypeOK'
  BY <1>8 DEF HartWait
<1>9. ASSUME NEW h \in Hart, HartWaitStore(h) PROVE TypeOK'
  BY <1>9 DEF HartWaitStore
<1>10. ASSUME NEW h \in Hart, WaitLoopCheck(h) PROVE TypeOK'
  BY <1>10 DEF WaitLoopCheck
<1>11. ASSUME NEW h \in Hart, ResumeFromReset(h) PROVE TypeOK'
  BY <1>11 DEF ResumeFromReset
<1>12. ASSUME NEW h \in Hart, HartRuntimeInit(h) PROVE TypeOK'
  BY <1>12 DEF HartRuntimeInit, IpiHartInit
<1>13. ASSUME NEW h \in Hart, HartEnterSmode(h) PROVE TypeOK'
  BY <1>13 DEF HartEnterSmode
<1>14. ASSUME NEW h \in Hart, PlatformStart(h) PROVE TypeOK'
  BY <1>14 DEF PlatformStart
<1>15. ASSUME NEW h \in Hart, PlatformStartFails(h) PROVE TypeOK'
  BY <1>15 DEF PlatformStartFails
<1>16. ASSUME NEW h \in Hart, HartStartKick(h) PROVE TypeOK'
  BY <1>16 DEF HartStartKick
<1>17. ASSUME NEW h \in Hart, HartStartFail(h) PROVE TypeOK'
  BY <1>17 DEF HartStartFail
<1>18. ASSUME NEW h \in Hart, HartStopped(h) PROVE TypeOK'
  BY <1>18 DEF HartStopped
<1>19. ASSUME NEW h \in Hart, SmodeIpiSent(h) PROVE TypeOK'
  BY <1>19 DEF SmodeIpiSent, IpiSend
<1>20. ASSUME NEW h \in Hart, SystemSuspendScan(h) PROVE TypeOK'
  BY <1>20 DEF SystemSuspendScan
<1>21. ASSUME NEW h \in Hart, SystemSuspendLast(h) PROVE TypeOK'
  BY <1>21 DEF SystemSuspendLast
<1>22. ASSUME NEW h \in Hart, SystemSuspendRefused(h) PROVE TypeOK'
  BY <1>22 DEF SystemSuspendRefused
<1>23. ASSUME NEW h \in Hart, NEW a \in Arg, NEW agreed \in BOOLEAN, HartSuspendCall(h, agreed, a) PROVE TypeOK'
  BY <1>23 DEF HartSuspendCall
<1>24. ASSUME NEW h \in Hart, HartSuspendRefused(h) PROVE TypeOK'
  BY <1>24 DEF HartSuspendRefused
<1>25. ASSUME NEW h \in Hart, HartSuspended(h) PROVE TypeOK'
  BY <1>25 DEF HartSuspended
<1>26. ASSUME NEW h \in Hart, HartResume(h) PROVE TypeOK'
  BY <1>26 DEF HartResume
<1>27. ASSUME NEW h \in Hart, SmodeAck(h) PROVE TypeOK'
  BY <1>27 DEF SmodeAck
<1>28. ASSUME NEW h \in Hart, HartStop(h) PROVE TypeOK'
  BY <1>28 DEF HartStop
<1>29. ASSUME NEW h \in Hart, SystemSuspend(h) PROVE TypeOK'
  BY <1>29 DEF SystemSuspend
<1>30. ASSUME NEW h \in Hart, SleepWake(h) PROVE TypeOK'
  BY <1>30 DEF SleepWake
<1>31. ASSUME NEW h \in Hart, NEW k \in Kind, HartSuspend(h, k) PROVE TypeOK'
  BY <1>31 DEF HartSuspend
<1>32. ASSUME NEW h \in Hart, NEW t \in Hart, SmodeSendIpi(h, t) PROVE TypeOK'
  BY <1>32 DEF SmodeSendIpi
<1>33. ASSUME NEW h \in Hart, NEW a \in Arg, NEW t \in Hart, HartStart(h, t, a) PROVE TypeOK'
  BY <1>33 DEF HartStart
<1>34. ASSUME NEW h \in Hart, PowerDown(h) PROVE TypeOK'
  BY <1>34 DEF PowerDown
<1>35. ASSUME NEW h \in Hart, PowerWake(h) PROVE TypeOK'
  BY <1>35 DEF PowerWake
<1>36. CASE UNCHANGED hsmVars
  BY <1>36 DEF hsmVars
<1> HIDE DEF TypeOK, State, Label, Kind, Goto, SetState, ipiVars, callVars
<1>37. ASSUME NEW h \in Hart, IpiStep(h) PROVE TypeOK'
  BY <1>37, <1>1, <1>2, <1>3, <1>4 DEF IpiStep
<1>38. ASSUME NEW h \in Hart, MonitorStep(h) PROVE TypeOK'
  BY <1>38, <1>6, <1>7, <1>8, <1>9, <1>10, <1>11, <1>12, <1>13, <1>14, <1>15, <1>16,
     <1>17, <1>18, <1>19, <1>20, <1>21, <1>22, <1>23, <1>24, <1>25, <1>26 DEF MonitorStep
<1>39. ASSUME NEW h \in Hart, OutsideStep(h) PROVE TypeOK'
  BY <1>39, <1>27, <1>28, <1>29, <1>30, <1>31, <1>32, <1>33, <1>34, <1>35 DEF OutsideStep
<1> QED
  BY <1>5, <1>36, <1>37, <1>38, <1>39 DEF Next

\* The types are an invariant: hsm_state is always one of the SBI's states, and a
\* call under way has a target and an index within the hart table.
THEOREM TypesHold == (Spec => []TypeOK) /\ (BootedSpec => []TypeOK)
<1>1. Spec => []TypeOK
  BY InitTypes, NextTypes, PTL DEF Spec
<1>2. BootedSpec => []TypeOK
  BY InitTypes, NextTypes, PTL DEF BootedSpec
<1> QED
  BY <1>1, <1>2
-------------------------------------------------------------------------------
\* Without a platform every step keeps StateInv.  The step that matters is
\* hsm_hart_boot(): a hart it finds STOPPED is in the wait loop or on its way there.
LEMMA NextStateInv ==
  PlatformPower = FALSE /\ TypeOK /\ StateInv /\ [Next]_hsmVars => StateInv'
<1> SUFFICES ASSUME PlatformPower = FALSE, TypeOK, StateInv, [Next]_hsmVars PROVE StateInv'
  OBVIOUS
<1> USE DEF TypeOK, StateInv, Goto, SetState, ipiVars, callVars
<1>1. ASSUME NEW h \in Hart, TrapIpi(h) PROVE StateInv'
  BY <1>1 DEF TrapIpi, IpiProcess
<1>2. ASSUME NEW h \in Hart, WaitLoopWake(h) PROVE StateInv'
  BY <1>2 DEF WaitLoopWake, IpiProcess
<1>3. ASSUME NEW h \in Hart, SleepIpi(h) PROVE StateInv'
  BY <1>3 DEF SleepIpi, IpiProcess
<1>4. ASSUME NEW h \in Hart, PlatformCallPoll(h) PROVE StateInv'
  BY <1>4 DEF PlatformCallPoll, IpiProcess
<1>5. ASSUME NEW h \in Hart, WaitLoopInit(h) PROVE StateInv'
  BY <1>5 DEF WaitLoopInit, IpiHartInit
<1>6. ASSUME NEW h \in Hart, HartInit(h) PROVE StateInv'
  BY <1>6 DEF HartInit
<1>7. ASSUME NEW h \in Hart, NEW a \in Arg, BootHartStart(h, a) PROVE StateInv'
  BY <1>7 DEF BootHartStart
<1>8. ASSUME NEW h \in Hart, HartWait(h) PROVE StateInv'
  BY <1>8 DEF HartWait
<1>9. ASSUME NEW h \in Hart, HartWaitStore(h) PROVE StateInv'
  BY <1>9 DEF HartWaitStore
<1>10. ASSUME NEW h \in Hart, WaitLoopCheck(h) PROVE StateInv'
  BY <1>10 DEF WaitLoopCheck
<1>11. ASSUME NEW h \in Hart, ResumeFromReset(h) PROVE StateInv'
  BY <1>11 DEF ResumeFromReset
<1>12. ASSUME NEW h \in Hart, HartRuntimeInit(h) PROVE StateInv'
  BY <1>12 DEF HartRuntimeInit, IpiHartInit
<1>13. ASSUME NEW h \in Hart, HartEnterSmode(h) PROVE StateInv'
  BY <1>13 DEF HartEnterSmode
<1>14. ASSUME NEW h \in Hart, PlatformStart(h) PROVE StateInv'
  BY <1>14 DEF PlatformStart
<1>15. ASSUME NEW h \in Hart, PlatformStartFails(h) PROVE StateInv'
  BY <1>15 DEF PlatformStartFails
<1>16. ASSUME NEW h \in Hart, HartStartKick(h) PROVE StateInv'
  BY <1>16 DEF HartStartKick
<1>17. ASSUME NEW h \in Hart, HartStartFail(h) PROVE StateInv'
  BY <1>17 DEF HartStartFail
<1>18. ASSUME NEW h \in Hart, HartStopped(h) PROVE StateInv'
  BY <1>18 DEF HartStopped
<1>19. ASSUME NEW h \in Hart, SmodeIpiSent(h) PROVE StateInv'
  BY <1>19 DEF SmodeIpiSent, IpiSend
<1>20. ASSUME NEW h \in Hart, SystemSuspendScan(h) PROVE StateInv'
  BY <1>20 DEF SystemSuspendScan
<1>21. ASSUME NEW h \in Hart, SystemSuspendLast(h) PROVE StateInv'
  BY <1>21 DEF SystemSuspendLast
<1>22. ASSUME NEW h \in Hart, SystemSuspendRefused(h) PROVE StateInv'
  BY <1>22 DEF SystemSuspendRefused
<1>23. ASSUME NEW h \in Hart, NEW a \in Arg, NEW agreed \in BOOLEAN, HartSuspendCall(h, agreed, a) PROVE StateInv'
  BY <1>23 DEF HartSuspendCall
<1>24. ASSUME NEW h \in Hart, HartSuspendRefused(h) PROVE StateInv'
  BY <1>24 DEF HartSuspendRefused
<1>25. ASSUME NEW h \in Hart, HartSuspended(h) PROVE StateInv'
  BY <1>25 DEF HartSuspended
<1>26. ASSUME NEW h \in Hart, HartResume(h) PROVE StateInv'
  BY <1>26 DEF HartResume
<1>27. ASSUME NEW h \in Hart, SmodeAck(h) PROVE StateInv'
  BY <1>27 DEF SmodeAck
<1>28. ASSUME NEW h \in Hart, HartStop(h) PROVE StateInv'
  BY <1>28 DEF HartStop
<1>29. ASSUME NEW h \in Hart, SystemSuspend(h) PROVE StateInv'
  BY <1>29 DEF SystemSuspend
<1>30. ASSUME NEW h \in Hart, SleepWake(h) PROVE StateInv'
  BY <1>30 DEF SleepWake
<1>31. ASSUME NEW h \in Hart, NEW k \in Kind, HartSuspend(h, k) PROVE StateInv'
  BY <1>31 DEF HartSuspend
<1>32. ASSUME NEW h \in Hart, NEW t \in Hart, SmodeSendIpi(h, t) PROVE StateInv'
  BY <1>32 DEF SmodeSendIpi
<1>33. ASSUME NEW h \in Hart, NEW a \in Arg, NEW t \in Hart, HartStart(h, t, a) PROVE StateInv'
  BY <1>33 DEF HartStart
<1>34. ASSUME NEW h \in Hart, PowerDown(h) PROVE StateInv'
  BY <1>34 DEF PowerDown
<1>35. ASSUME NEW h \in Hart, PowerWake(h) PROVE StateInv'
  BY <1>35 DEF PowerWake
<1>36. CASE UNCHANGED hsmVars
  BY <1>36 DEF hsmVars
<1> HIDE DEF TypeOK, StateInv, Goto, SetState, ipiVars, callVars
<1>37. ASSUME NEW h \in Hart, IpiStep(h) PROVE StateInv'
  BY <1>37, <1>1, <1>2, <1>3, <1>4 DEF IpiStep
<1>38. ASSUME NEW h \in Hart, MonitorStep(h) PROVE StateInv'
  BY <1>38, <1>6, <1>7, <1>8, <1>9, <1>10, <1>11, <1>12, <1>13, <1>14, <1>15, <1>16,
     <1>17, <1>18, <1>19, <1>20, <1>21, <1>22, <1>23, <1>24, <1>25, <1>26 DEF MonitorStep
<1>39. ASSUME NEW h \in Hart, OutsideStep(h) PROVE StateInv'
  BY <1>39, <1>27, <1>28, <1>29, <1>30, <1>31, <1>32, <1>33, <1>34, <1>35 DEF OutsideStep
<1> QED
  BY <1>5, <1>36, <1>37, <1>38, <1>39 DEF Next

\* ... and both kinds of initial states have it.
LEMMA InitStateInv == (Init => StateInv) /\ (InitBooted => StateInv)
<1>1. Init => StateInv
  <2> SUFFICES ASSUME Init, NEW h \in Hart PROVE StateInv!(h)
    BY DEF StateInv
  <2>1. CASE h = BootHart
    <3>1. pc[h] = "main" /\ hsm_state[h] = "STOPPED" /\ told[h] = FALSE
      BY <2>1 DEF Init
    <3>2. present[h]
      BY <2>1, Zenon DEF Init
    <3> QED
      BY <3>1, <3>2
  <2>2. CASE h # BootHart
    <3>1. pc[h] = "entry" /\ told[h] = FALSE
      BY <2>2 DEF Init
    <3>2. ~present[h]
      BY <2>2, Zenon DEF Init
    <3> QED
      BY <3>1, <3>2
  <2> QED
    BY <2>1, <2>2
<1>2. InitBooted => StateInv
  BY DEF InitBooted, StateInv
<1> QED
  BY <1>1, <1>2

\* Without a platform, StateInv is an invariant.
LEMMA StateInvariant ==
  ASSUME PlatformPower = FALSE
  PROVE  (Spec => []StateInv) /\ (BootedSpec => []StateInv)
<1>1. TypeOK /\ StateInv /\ [Next]_hsmVars => StateInv'
  BY NextStateInv
<1>2. Spec => []StateInv
  BY <1>1, InitTypes, NextTypes, InitStateInv, PTL DEF Spec
<1>3. BootedSpec => []StateInv
  BY <1>1, InitTypes, NextTypes, InitStateInv, PTL DEF BootedSpec
<1> QED
  BY <1>2, <1>3

\* Where no platform powers harts, hsm_state does not lie: a hart in S-mode is
\* STARTED, one in the wait loop is STOPPED or about to leave it, one asleep is
\* SUSPENDED, whatever the others start, stop and suspend.
THEOREM StatesAreTrue ==
  ASSUME PlatformPower = FALSE
  PROVE  (Spec => []StateMatchesHart) /\ (BootedSpec => []StateMatchesHart)
<1>1. StateInv => StateMatchesHart
  BY DEF StateInv, StateMatchesHart
<1> QED
  BY <1>1, StateInvariant, PTL
-------------------------------------------------------------------------------
\* At the start every hart of the table is STOPPED; or the boot is over.
LEMMA InitArgsInv == (Init => ArgsInv) /\ (InitBooted => ArgsInv)
<1>1. ASSUME Init PROVE ArgsInv
  <2>1. /\ pc = [h \in Hart |-> IF h = BootHart THEN "main" ELSE "entry"]
        /\ hsm_state = [h \in Hart |-> IF h = BootHart THEN "STOPPED" ELSE "STARTED"]
    BY <1>1 DEF Init
  <2>2. \A h \in Hart : /\ pc[h] \in {"main", "entry"} /\ (pc[h] = "main" <=> h = BootHart)
                         /\ (h = BootHart => hsm_state[h] = "STOPPED")
    BY <2>1
  <2>3. \A h \in Hart : ~told[h] /\ (present[h] <=> h = BootHart)
    BY <1>1 DEF Init
  <2>4. BootOrder
    BY <2>2, <2>3 DEF BootOrder
  <2> QED
    BY <2>2, <2>4 DEF ArgsInv
<1>2. InitBooted => ArgsInv
  BY DEF InitBooted, ArgsInv, BootOrder
<1> QED
  BY <1>1, <1>2

\* Every step keeps the order of the boot and the suspending hart's state.
LEMMA NextArgsInv == TypeOK /\ ArgsInv /\ [Next]_hsmVars => ArgsInv'
<1> SUFFICES ASSUME TypeOK, ArgsInv, [Next]_hsmVars PROVE ArgsInv'
  OBVIOUS
<1> USE DEF TypeOK, ArgsInv, BootOrder, Goto, SetState, ipiVars, callVars
<1>1. ASSUME NEW h \in Hart, TrapIpi(h) PROVE ArgsInv'
  BY <1>1 DEF TrapIpi, IpiProcess
<1>2. ASSUME NEW h \in Hart, WaitLoopWake(h) PROVE ArgsInv'
  BY <1>2 DEF WaitLoopWake, IpiProcess
<1>3. ASSUME NEW h \in Hart, SleepIpi(h) PROVE ArgsInv'
  BY <1>3 DEF SleepIpi, IpiProcess
<1>4. ASSUME NEW h \in Hart, PlatformCallPoll(h) PROVE ArgsInv'
  BY <1>4 DEF PlatformCallPoll, IpiProcess
<1>5. ASSUME NEW h \in Hart, WaitLoopInit(h) PROVE ArgsInv'
  BY <1>5 DEF WaitLoopInit, IpiHartInit
<1>6. ASSUME NEW h \in Hart, HartInit(h) PROVE ArgsInv'
  BY <1>6 DEF HartInit
<1>7. ASSUME NEW h \in Hart, NEW a \in Arg, BootHartStart(h, a) PROVE ArgsInv'
  BY <1>7 DEF BootHartStart
<1>8. ASSUME NEW h \in Hart, HartWait(h) PROVE ArgsInv'
  BY <1>8 DEF HartWait
<1>9. ASSUME NEW h \in Hart, HartWaitStore(h) PROVE ArgsInv'
  BY <1>9 DEF HartWaitStore
<1>10. ASSUME NEW h \in Hart, WaitLoopCheck(h) PROVE ArgsInv'
  BY <1>10 DEF WaitLoopCheck
<1>11. ASSUME NEW h \in Hart, ResumeFromReset(h) PROVE ArgsInv'
  BY <1>11 DEF ResumeFromReset
<1>12. ASSUME NEW h \in Hart, HartRuntimeInit(h) PROVE ArgsInv'
  BY <1>12 DEF HartRuntimeInit, IpiHartInit
<1>13. ASSUME NEW h \in Hart, HartEnterSmode(h) PROVE ArgsInv'
  BY <1>13 DEF HartEnterSmode
<1>14. ASSUME NEW h \in Hart, PlatformStart(h) PROVE ArgsInv'
  BY <1>14 DEF PlatformStart
<1>15. ASSUME NEW h \in Hart, PlatformStartFails(h) PROVE ArgsInv'
  BY <1>15 DEF PlatformStartFails
<1>16. ASSUME NEW h \in Hart, HartStartKick(h) PROVE ArgsInv'
  BY <1>16 DEF HartStartKick
<1>17. ASSUME NEW h \in Hart, HartStartFail(h) PROVE ArgsInv'
  BY <1>17 DEF HartStartFail
<1>18. ASSUME NEW h \in Hart, HartStopped(h) PROVE ArgsInv'
  BY <1>18 DEF HartStopped
<1>19. ASSUME NEW h \in Hart, SmodeIpiSent(h) PROVE ArgsInv'
  BY <1>19 DEF SmodeIpiSent, IpiSend
<1>20. ASSUME NEW h \in Hart, SystemSuspendScan(h) PROVE ArgsInv'
  BY <1>20 DEF SystemSuspendScan
<1>21. ASSUME NEW h \in Hart, SystemSuspendLast(h) PROVE ArgsInv'
  BY <1>21 DEF SystemSuspendLast
<1>22. ASSUME NEW h \in Hart, SystemSuspendRefused(h) PROVE ArgsInv'
  BY <1>22 DEF SystemSuspendRefused
<1>23. ASSUME NEW h \in Hart, NEW a \in Arg, NEW agreed \in BOOLEAN, HartSuspendCall(h, agreed, a) PROVE ArgsInv'
  BY <1>23 DEF HartSuspendCall
<1>24. ASSUME NEW h \in Hart, HartSuspendRefused(h) PROVE ArgsInv'
  BY <1>24 DEF HartSuspendRefused
<1>25. ASSUME NEW h \in Hart, HartSuspended(h) PROVE ArgsInv'
  BY <1>25 DEF HartSuspended
<1>26. ASSUME NEW h \in Hart, HartResume(h) PROVE ArgsInv'
  BY <1>26 DEF HartResume
<1>27. ASSUME NEW h \in Hart, SmodeAck(h) PROVE ArgsInv'
  BY <1>27 DEF SmodeAck
<1>28. ASSUME NEW h \in Hart, HartStop(h) PROVE ArgsInv'
  BY <1>28 DEF HartStop
<1>29. ASSUME NEW h \in Hart, SystemSuspend(h) PROVE ArgsInv'
  BY <1>29 DEF SystemSuspend
<1>30. ASSUME NEW h \in Hart, SleepWake(h) PROVE ArgsInv'
  BY <1>30 DEF SleepWake
<1>31. ASSUME NEW h \in Hart, NEW k \in Kind, HartSuspend(h, k) PROVE ArgsInv'
  BY <1>31 DEF HartSuspend
<1>32. ASSUME NEW h \in Hart, NEW t \in Hart, SmodeSendIpi(h, t) PROVE ArgsInv'
  BY <1>32 DEF SmodeSendIpi
<1>33. ASSUME NEW h \in Hart, NEW a \in Arg, NEW t \in Hart, HartStart(h, t, a) PROVE ArgsInv'
  BY <1>33 DEF HartStart
<1>34. ASSUME NEW h \in Hart, PowerDown(h) PROVE ArgsInv'
  BY <1>34 DEF PowerDown
<1>35. ASSUME NEW h \in Hart, PowerWake(h) PROVE ArgsInv'
  BY <1>35 DEF PowerWake
<1>36. CASE UNCHANGED hsmVars
  BY <1>36 DEF hsmVars
<1> HIDE DEF TypeOK, ArgsInv, BootOrder, Goto, SetState, ipiVars, callVars
<1>37. ASSUME NEW h \in Hart, IpiStep(h) PROVE ArgsInv'
  BY <1>37, <1>1, <1>2, <1>3, <1>4 DEF IpiStep
<1>38. ASSUME NEW h \in Hart, MonitorStep(h) PROVE ArgsInv'
  BY <1>38, <1>6, <1>7, <1>8, <1>9, <1>10, <1>11, <1>12, <1>13, <1>14, <1>15, <1>16,
     <1>17, <1>18, <1>19, <1>20, <1>21, <1>22, <1>23, <1>24, <1>25, <1>26 DEF MonitorStep
<1>39. ASSUME NEW h \in Hart, OutsideStep(h) PROVE ArgsInv'
  BY <1>39, <1>27, <1>28, <1>29, <1>30, <1>31, <1>32, <1>33, <1>34, <1>35 DEF OutsideStep
<1> QED
  BY <1>5, <1>36, <1>37, <1>38, <1>39 DEF Next

\* "The target reads the arguments once it sees START_PENDING": from then until
\* it is in S-mode nobody changes them, however many harts try to start it, with
\* a platform that powers harts, and refuses starts, or without.
THEOREM StartArgumentsKept == (Spec => StartArgsStable) /\ (BootedSpec => StartArgsStable)
<1> DEFINE Kept ==
      \A h \in Hart :
        /\ present[h] /\ present'[h]
        /\ hsm_state[h] \in {"START_PENDING", "RESUME_PENDING", "SUSPENDED"}
        /\ hsm_state'[h] # "STOPPED"
        => start'[h] = start[h]
<1>1. TypeOK /\ ArgsInv /\ [Next]_hsmVars => [Kept]_hsmVars
  <2> SUFFICES ASSUME TypeOK, ArgsInv, [Next]_hsmVars, start' # start PROVE Kept
    BY DEF hsmVars
  <2>1. ASSUME NEW b \in Hart, NEW a \in Arg, BootHartStart(b, a) PROVE Kept
    BY <2>1 DEF BootHartStart, Goto, TypeOK, ArgsInv, BootOrder
  <2>2. ASSUME NEW s \in Hart, NEW agreed \in BOOLEAN, NEW a \in Arg, HartSuspendCall(s, agreed, a)
        PROVE  Kept
    BY <2>2 DEF HartSuspendCall, Goto, TypeOK, ArgsInv
  <2>3. ASSUME NEW s \in Hart, NEW t \in Hart, NEW a \in Arg, HartStart(s, t, a) PROVE Kept
    BY <2>3 DEF HartStart, TypeOK
  <2> HIDE DEF Kept
  <2>4. PICK h \in Hart : IpiStep(h) \/ WaitLoopInit(h) \/ MonitorStep(h) \/ OutsideStep(h)
    BY DEF Next, hsmVars
  <2>5. ~IpiStep(h) /\ ~WaitLoopInit(h)
    BY DEF IpiStep, TrapIpi, WaitLoopWake, SleepIpi, PlatformCallPoll, WaitLoopInit
  <2>6. CASE MonitorStep(h)
    BY <2>1, <2>2, <2>6
    DEF MonitorStep, HartInit, HartWait, HartWaitStore, WaitLoopCheck, ResumeFromReset,
        HartRuntimeInit, HartEnterSmode, PlatformStart, PlatformStartFails, HartStartKick,
        HartStartFail, HartStopped, SmodeIpiSent, SystemSuspendScan, SystemSuspendLast,
        SystemSuspendRefused, HartSuspendRefused, HartSuspended, HartResume
  <2>7. CASE OutsideStep(h)
    BY <2>3, <2>7
    DEF OutsideStep, SmodeAck, HartStop, SystemSuspend, SleepWake, HartSuspend, SmodeSendIpi,
        PowerDown, PowerWake
  <2> QED
    BY <2>4, <2>5, <2>6, <2>7
<1>2. Spec => [][Kept]_hsmVars
  BY <1>1, InitTypes, NextTypes, InitArgsInv, NextArgsInv, PTL DEF Spec
<1>3. BootedSpec => [][Kept]_hsmVars
  BY <1>1, InitTypes, NextTypes, InitArgsInv, NextArgsInv, PTL DEF BootedSpec
<1> QED
  BY <1>2, <1>3 DEF StartArgsStable
-------------------------------------------------------------------------------
\* A store to hsm_state of a hart of the table that follows the HSM moves.
LEMMA StoreIsMove ==
  ASSUME TypeOK, NEW h \in Hart, NEW s \in State, present[h], UNCHANGED present, SetState(h, s),
         <<hsm_state[h], s>> \in Lifecycle!Moves
  PROVE  Lifecycle!Move(h)
<1>1. s \in Lifecycle!State
  BY DEF State, Lifecycle!State
<1> QED
  BY <1>1 DEF Lifecycle!Move, SetState, TypeOK

\* Where no platform powers harts the stores to hsm_state lead a hart along the
\* moves of the SBI HSM extension and no others, whatever harts start, stop and
\* suspend it: the safety half of the refinement of HartLifecycle.
THEOREM LifecycleIsFollowed ==
  ASSUME PlatformPower = FALSE
  PROVE  (Spec => LifecycleMoves) /\ (BootedSpec => LifecycleMoves)
<1> DEFINE L == [h \in Hart |-> IF present[h] THEN hsm_state[h] ELSE "STOPPED"]
           Ok == L' = L \/ \E i \in Hart : Lifecycle!Move(i)
<1>1. Init => Lifecycle!LifecycleInit
  BY DEF Init, Lifecycle!LifecycleInit
<1>2. InitBooted => Lifecycle!LifecycleInit
  BY DEF InitBooted, Lifecycle!LifecycleInit
<1>3. TypeOK /\ StateInv /\ ArgsInv /\ [Next]_hsmVars => Ok
  <2> SUFFICES ASSUME TypeOK, StateInv, ArgsInv, [Next]_hsmVars PROVE Ok
    OBVIOUS
  <2>0. ASSUME UNCHANGED <<hsm_state, present>> PROVE Ok
    BY <2>0
  <2>1. ASSUME NEW h \in Hart, NEW s \in State, present[h], UNCHANGED present, SetState(h, s),
               <<hsm_state[h], s>> \in Lifecycle!Moves
        PROVE  Ok
    BY <2>1, StoreIsMove
  <2>2. ASSUME NEW h \in Hart, HartInit(h) PROVE Ok
    BY <2>2 DEF HartInit, TypeOK
  <2> HIDE DEF Ok
  <2>3. ASSUME NEW h \in Hart, NEW s \in State, NEW from \in State, hsm_state[h] = from,
               <<from, s>> \in Lifecycle!Moves, present[h], UNCHANGED present, SetState(h, s)
        PROVE  Ok
    BY <2>1, <2>3
  <2>4. ASSUME NEW h \in Hart, NEW a \in Arg, BootHartStart(h, a) PROVE Ok
    <3>1. hsm_state[h] = "STOPPED" /\ present[h]
      BY <2>4 DEF BootHartStart, Goto, ArgsInv, BootOrder
    <3> QED
      BY <2>4, <2>3, <3>1 DEF BootHartStart, State, Lifecycle!Moves
  <2>5. ASSUME NEW h \in Hart, HartWaitStore(h) PROVE Ok
    <3>1. present[h] /\ hsm_state[h] \in {"STOPPED", "START_PENDING", "STOP_PENDING"}
      BY <2>5 DEF HartWaitStore, Goto, StateInv
    <3>2. CASE hsm_state[h] = "STOPPED"
      BY <2>5, <2>0, <3>2 DEF HartWaitStore, SetState, TypeOK
    <3> QED
      BY <2>5, <2>3, <3>1, <3>2 DEF HartWaitStore, State, Lifecycle!Moves
  <2>6. ASSUME NEW h \in Hart, HartEnterSmode(h) PROVE Ok
    <3>1. present[h] /\ hsm_state[h] \in {"START_PENDING", "RESUME_PENDING"}
      BY <2>6 DEF HartEnterSmode, Goto, StateInv
    <3> QED
      BY <2>6, <2>3, <3>1 DEF HartEnterSmode, State, Lifecycle!Moves
  <2>7. ASSUME NEW h \in Hart, NEW t \in Hart, NEW a \in Arg, HartStart(h, t, a) PROVE Ok
    BY <2>7, <2>3 DEF HartStart, State, Lifecycle!Moves
  <2>8. ASSUME NEW h \in Hart, HartStop(h) PROVE Ok
    <3>1. present[h]
      BY <2>8 DEF HartStop, Goto, StateInv
    <3> QED
      BY <2>8, <2>3, <3>1 DEF HartStop, State, Lifecycle!Moves
  <2>9. ASSUME NEW h \in Hart, NEW k \in Kind, HartSuspend(h, k) PROVE Ok
    <3>1. present[h]
      BY <2>9 DEF HartSuspend, Goto, StateInv
    <3> QED
      BY <2>9, <2>3, <3>1 DEF HartSuspend, State, Lifecycle!Moves
  <2>10. ASSUME NEW h \in Hart, SystemSuspendLast(h) PROVE Ok
    <3>1. present[h]
      BY <2>10 DEF SystemSuspendLast, Goto, StateInv
    <3> QED
      BY <2>10, <2>3, <3>1 DEF SystemSuspendLast, State, Lifecycle!Moves
  <2>11. ASSUME NEW h \in Hart, HartSuspendRefused(h) PROVE Ok
    <3>1. present[h] /\ hsm_state[h] = "SUSPEND_PENDING"
      BY <2>11 DEF HartSuspendRefused, Goto, StateInv
    <3> QED
      BY <2>11, <2>3, <3>1 DEF HartSuspendRefused, State, Lifecycle!Moves
  <2>12. ASSUME NEW h \in Hart, HartSuspended(h) PROVE Ok
    <3>1. present[h] /\ hsm_state[h] = "SUSPEND_PENDING"
      BY <2>12 DEF HartSuspended, Goto, StateInv
    <3> QED
      BY <2>12, <2>3, <3>1 DEF HartSuspended, State, Lifecycle!Moves
  <2>13. ASSUME NEW h \in Hart, HartResume(h) PROVE Ok
    <3>1. present[h] /\ hsm_state[h] = "SUSPENDED"
      BY <2>13 DEF HartResume, Goto, StateInv
    <3> QED
      BY <2>13, <2>3, <3>1 DEF HartResume, State, Lifecycle!Moves
  <2>14. ASSUME NEW h \in Hart, ResumeFromReset(h) \/ HartStartFail(h) PROVE Ok
    BY <2>14 DEF ResumeFromReset, HartStartFail, Goto, StateInv
  <2>15. ASSUME NEW h \in Hart, IpiStep(h) \/ WaitLoopInit(h) PROVE Ok
    BY <2>15, <2>0
    DEF IpiStep, TrapIpi, WaitLoopWake, SleepIpi, PlatformCallPoll, WaitLoopInit
  <2>16. ASSUME NEW h \in Hart, MonitorStep(h) PROVE Ok
    BY <2>16, <2>0, <2>2, <2>4, <2>5, <2>6, <2>10, <2>11, <2>12, <2>13, <2>14
    DEF MonitorStep, HartWait, WaitLoopCheck, HartRuntimeInit, PlatformStart,
        PlatformStartFails, HartStartKick, HartStopped, SmodeIpiSent, SystemSuspendScan,
        SystemSuspendRefused, HartSuspendCall
  <2>17. ASSUME NEW h \in Hart, OutsideStep(h) PROVE Ok
    BY <2>17, <2>0, <2>7, <2>8, <2>9
    DEF OutsideStep, SmodeAck, SystemSuspend, SleepWake, SmodeSendIpi, PowerDown, PowerWake
  <2> QED
    BY <2>0, <2>15, <2>16, <2>17 DEF Next, hsmVars
<1>4. TypeOK /\ StateInv /\ ArgsInv /\ [Next]_hsmVars => [\E h \in Hart : Lifecycle!Move(h)]_L
  BY <1>3
<1>5. Spec => LifecycleMoves
  BY <1>1, <1>4, InitTypes, NextTypes, InitStateInv, NextStateInv, InitArgsInv, NextArgsInv, PTL
  DEF Spec, LifecycleMoves, Lifecycle!LifecycleSafety
<1>6. BootedSpec => LifecycleMoves
  BY <1>2, <1>4, InitTypes, NextTypes, InitStateInv, NextStateInv, InitArgsInv, NextArgsInv, PTL
  DEF BootedSpec, LifecycleMoves, Lifecycle!LifecycleSafety
<1> QED
  BY <1>5, <1>6

-------------------------------------------------------------------------------
(* IpiDevices: a kick reaches its hart, for any number of harts in any order,    *)
(* any width of the PLIC's registers and any number of MSIs.  The invariant says *)
(* of each device what its registers hold, bit by bit.                           *)

IpiDeviceTypes ==
  /\ device \in {"mswi", "plicsw", "imsic"}
  /\ msip_reg \in [Position -> BOOLEAN]
  /\ enabled = [p \in Position |-> PlicswEnable(p)]
  /\ eip \in [Harts -> SUBSET Nat] /\ eie \in [Harts -> SUBSET Nat]
  /\ msi_ids \in [Harts -> SUBSET Nat]
  /\ nr_msis \in 0 .. Msis
  /\ DOMAIN owner = 0 .. Msis - 1
  /\ kicked \subseteq Harts
  /\ due \subseteq {m \in Nat : m < nr_msis}

\* The identities a hart has enabled, and those that are pending
Owns(h, i) == i >= FirstMsi /\ i - FirstMsi < nr_msis /\ owner[i - FirstMsi] = h
FileIsTrue ==
  \A h \in Harts : \A i \in Nat :
    /\ i \in eie[h] <=> i = IpiId \/ Owns(h, i)
    /\ i \in msi_ids[h] <=> Owns(h, i)
    /\ i \in eip[h] <=> (i = IpiId /\ h \in kicked)
                        \/ (i >= FirstMsi /\ i - FirstMsi \in due /\ owner[i - FirstMsi] = h)

RegistersAreTrue ==
  /\ device = "mswi" => \A h \in Harts : msip_reg[PositionOf(h)] <=> h \in kicked
  /\ device = "plicsw" => \A h \in Harts : SourceBit(PositionOf(h)) \in pending <=> h \in kicked
  /\ device = "imsic" => FileIsTrue
  /\ device # "imsic" => nr_msis = 0 /\ due = {}

DeviceInv == IpiDeviceTypes /\ RegistersAreTrue

\* Every hart has a position of its own.
LEMMA OwnPosition ==
  ASSUME NEW h \in Harts
  PROVE  /\ PositionOf(h) \in Position /\ PositionOf(h) \in Nat
         /\ \A g \in Harts : PositionOf(g) = PositionOf(h) => g = h
<1>1. \A g \in Harts : PositionOf(g) \in Position /\ Order[PositionOf(g)] = g
  BY DEF Harts, PositionOf
<1> QED
  BY <1>1, IpiDevicesAssumption DEF Position

\* Two positions have two sources, in one register or in two.
LEMMA OwnSource ==
  ASSUME NEW p \in Nat, NEW q \in Nat, SourceBit(p) = SourceBit(q)
  PROVE  p = q
<1> DEFINE a == p + 1
           b == q + 1
<1>1. WordBits \in Nat \ {0}
  BY IpiDevicesAssumption
<1>2. a \div WordBits = b \div WordBits /\ a % WordBits = b % WordBits
  BY DEF SourceBit
<1>3. \A n \in Nat : n = WordBits * (n \div WordBits) + (n % WordBits)
  BY <1>1
<1>4. a \in Nat /\ b \in Nat
  OBVIOUS
<1>5. a = WordBits * (a \div WordBits) + (a % WordBits)
  BY <1>3, <1>4
<1>6. b = WordBits * (b \div WordBits) + (b % WordBits)
  BY <1>3, <1>4
<1>7. a = b
  BY <1>2, <1>5, <1>6
<1> QED
  BY <1>7

\* So no two harts share a source.
LEMMA SourcesDiffer ==
  ASSUME NEW g \in Harts, NEW h \in Harts, SourceBit(PositionOf(g)) = SourceBit(PositionOf(h))
  PROVE  g = h
<1>1. PositionOf(g) \in Nat /\ PositionOf(h) \in Nat
  BY OwnPosition
<1>2. PositionOf(g) = PositionOf(h)
  BY <1>1, OwnSource
<1> QED
  BY <1>2, OwnPosition

\* What the invariant says of the interrupt.
LEMMA InvMeansKick == DeviceInv => KickReachesItsHart
<1> SUFFICES ASSUME DeviceInv, NEW h \in Harts
             PROVE  Irq(h) <=> (h \in kicked \/ \E m \in due : owner[m] = h)
  BY DEF KickReachesItsHart
<1>1. CASE device = "mswi"
  <2>1. Irq(h) <=> msip_reg[PositionOf(h)]
    BY <1>1 DEF Irq
  <2> QED
    BY <1>1, <2>1 DEF DeviceInv, RegistersAreTrue
<1>2. CASE device = "plicsw"
  <2>1. Irq(h) <=> pending \cap enabled[PositionOf(h)] # {}
    BY <1>2 DEF Irq
  <2>2. enabled[PositionOf(h)] = {SourceBit(PositionOf(h))}
    BY OwnPosition DEF DeviceInv, IpiDeviceTypes, PlicswEnable
  <2> QED
    BY <1>2, <2>1, <2>2 DEF DeviceInv, RegistersAreTrue
<1>3. CASE device = "imsic"
  <2>1. Irq(h) <=> eip[h] \cap eie[h] # {}
    BY <1>3 DEF Irq
  <2>2. FileIsTrue /\ eip[h] \subseteq Nat /\ due \subseteq {m \in Nat : m < nr_msis}
    BY <1>3 DEF DeviceInv, RegistersAreTrue, IpiDeviceTypes
  <2>3. ASSUME h \in kicked PROVE eip[h] \cap eie[h] # {}
    <3>1. IpiId \in Nat
      BY DEF IpiId
    <3> QED
      BY <2>2, <2>3, <3>1 DEF FileIsTrue
  <2>4. ASSUME NEW m \in due, owner[m] = h PROVE eip[h] \cap eie[h] # {}
    <3>1. m \in Nat /\ m < nr_msis
      BY <2>2
    <3>2. FirstMsi + m \in Nat /\ FirstMsi + m >= FirstMsi /\ (FirstMsi + m) - FirstMsi = m
      BY <3>1 DEF FirstMsi
    <3>3. FirstMsi + m \in eip[h] /\ FirstMsi + m \in eie[h]
      BY <2>2, <2>4, <3>1, <3>2 DEF FileIsTrue, Owns
    <3> QED
      BY <3>3
  <2>5. ASSUME NEW i \in eip[h] PROVE h \in kicked \/ \E m \in due : owner[m] = h
    BY <2>2, <2>5 DEF FileIsTrue
  <2> QED
    BY <2>1, <2>3, <2>4, <2>5
<1> QED
  BY <1>1, <1>2, <1>3 DEF DeviceInv, IpiDeviceTypes
-------------------------------------------------------------------------------
\* After the probes nothing is pending.
LEMMA InitDeviceInv == IpiDevicesInit => DeviceInv
<1> SUFFICES ASSUME IpiDevicesInit PROVE DeviceInv
  OBVIOUS
<1>1. IpiDeviceTypes
  BY IpiDevicesAssumption DEF IpiDevicesInit, IpiDeviceTypes, IpiId
<1>2. FileIsTrue
  BY DEF IpiDevicesInit, FileIsTrue, Owns, IpiId, FirstMsi
<1>3. \A h \in Harts : ~msip_reg[PositionOf(h)]
  BY OwnPosition DEF IpiDevicesInit
<1>4. RegistersAreTrue
  BY <1>2, <1>3 DEF IpiDevicesInit, RegistersAreTrue
<1> QED
  BY <1>1, <1>4 DEF DeviceInv

\* The send functions of the drivers.
LEMMA KickKeepsInv ==
  ASSUME DeviceInv, NEW h \in Harts, DeviceKick(h)
  PROVE  DeviceInv'
<1>1. IpiDeviceTypes /\ kicked' = kicked \cup {h} /\ device' = device
  BY DEF DeviceInv, DeviceKick
<1>2. CASE MswiSend(h)
  <2>1. /\ device = "mswi" /\ msip_reg' = [msip_reg EXCEPT ![PositionOf(h)] = TRUE]
        /\ UNCHANGED <<pending, enabled, eip, eie, nr_msis, owner, msi_ids, due>>
    BY <1>2 DEF MswiSend, plic, imsic
  <2>2. IpiDeviceTypes'
    BY <1>1, <2>1 DEF IpiDeviceTypes
  <2>3. \A g \in Harts : msip_reg'[PositionOf(g)] <=> g \in kicked'
    <3> TAKE g \in Harts
    <3>1. msip_reg[PositionOf(g)] <=> g \in kicked
      BY <2>1 DEF DeviceInv, RegistersAreTrue
    <3>2. CASE g = h
      BY <1>1, <2>1, <3>2, OwnPosition DEF IpiDeviceTypes
    <3>3. CASE g # h
      <4>1. PositionOf(g) # PositionOf(h) /\ PositionOf(g) \in Position
        BY <3>3, OwnPosition
      <4>2. msip_reg'[PositionOf(g)] = msip_reg[PositionOf(g)]
        BY <1>1, <2>1, <4>1 DEF IpiDeviceTypes
      <4> QED
        BY <1>1, <3>1, <3>3, <4>2
    <3> QED
      BY <3>2, <3>3
  <2>4. RegistersAreTrue'
    BY <1>1, <2>1, <2>3 DEF DeviceInv, RegistersAreTrue
  <2> QED
    BY <2>2, <2>4 DEF DeviceInv
<1>3. CASE PlicswSend(h)
  <2>1. /\ device = "plicsw" /\ pending' = pending \cup {SourceBit(PositionOf(h))}
        /\ UNCHANGED <<msip_reg, enabled, eip, eie, nr_msis, owner, msi_ids, due>>
    BY <1>3 DEF PlicswSend, imsic
  <2>2. IpiDeviceTypes'
    BY <1>1, <2>1 DEF IpiDeviceTypes
  <2>3. \A g \in Harts : SourceBit(PositionOf(g)) \in pending' <=> g \in kicked'
    BY <1>1, <2>1, SourcesDiffer DEF DeviceInv, RegistersAreTrue
  <2>4. RegistersAreTrue'
    BY <1>1, <2>1, <2>3 DEF DeviceInv, RegistersAreTrue
  <2> QED
    BY <2>2, <2>4 DEF DeviceInv
<1>4. CASE ImsicSend(h)
  <2>1. /\ device = "imsic" /\ eip' = [eip EXCEPT ![h] = @ \cup {IpiId}]
        /\ UNCHANGED <<msip_reg, pending, enabled, eie, nr_msis, owner, msi_ids, due>>
    BY <1>4 DEF ImsicSend, plic
  <2>2. IpiDeviceTypes'
    BY <1>1, <2>1 DEF IpiDeviceTypes, IpiId
  <2>3. \A g \in Harts : eip'[g] = IF g = h THEN eip[g] \cup {IpiId} ELSE eip[g]
    BY <1>1, <2>1 DEF IpiDeviceTypes
  <2>4. FileIsTrue
    BY <2>1 DEF DeviceInv, RegistersAreTrue
  <2>5. FileIsTrue'
    <3> SUFFICES ASSUME NEW g \in Harts, NEW i \in Nat
                 PROVE  /\ i \in eie'[g] <=> i = IpiId \/ Owns(g, i)'
                        /\ i \in msi_ids'[g] <=> Owns(g, i)'
                        /\ i \in eip'[g] <=> (i = IpiId /\ g \in kicked')
                             \/ (i >= FirstMsi /\ i - FirstMsi \in due' /\ owner'[i - FirstMsi] = g)
      BY DEF FileIsTrue
    <3>1. Owns(g, i)' <=> Owns(g, i)
      BY <2>1 DEF Owns
    <3>2. /\ i \in eie'[g] <=> i = IpiId \/ Owns(g, i)'
          /\ i \in msi_ids'[g] <=> Owns(g, i)'
      BY <2>1, <2>4, <3>1 DEF FileIsTrue
    <3>3. i \in eip'[g] <=> i \in eip[g] \/ (i = IpiId /\ g = h)
      BY <2>3
    <3>4. g \in kicked' <=> g \in kicked \/ g = h
      BY <1>1
    <3> QED
      BY <2>1, <2>4, <3>2, <3>3, <3>4 DEF FileIsTrue
  <2>6. RegistersAreTrue'
    BY <1>1, <2>1, <2>5 DEF RegistersAreTrue
  <2> QED
    BY <2>2, <2>6 DEF DeviceInv
<1> QED
  BY <1>2, <1>3, <1>4 DEF DeviceKick

\* The clear functions of the drivers, a claim of the IMSIC's at a time.
LEMMA ClearKeepsInv ==
  ASSUME DeviceInv, NEW h \in Harts, ClearIpi(h)
  PROVE  DeviceInv'
<1>1. IpiDeviceTypes /\ device' = device
  BY DEF DeviceInv, ClearIpi
<1>2. CASE MswiClear(h)
  <2>1. /\ device = "mswi" /\ msip_reg' = [msip_reg EXCEPT ![PositionOf(h)] = FALSE]
        /\ kicked' = kicked \ {h}
        /\ UNCHANGED <<pending, enabled, eip, eie, nr_msis, owner, msi_ids, due>>
    BY <1>2 DEF MswiClear, plic, imsic
  <2>2. IpiDeviceTypes'
    BY <1>1, <2>1 DEF IpiDeviceTypes
  <2>3. \A g \in Harts : msip_reg'[PositionOf(g)] <=> g \in kicked'
    <3> TAKE g \in Harts
    <3>1. msip_reg[PositionOf(g)] <=> g \in kicked
      BY <2>1 DEF DeviceInv, RegistersAreTrue
    <3>2. CASE g = h
      BY <1>1, <2>1, <3>2, OwnPosition DEF IpiDeviceTypes
    <3>3. CASE g # h
      <4>1. PositionOf(g) # PositionOf(h) /\ PositionOf(g) \in Position
        BY <3>3, OwnPosition
      <4>2. msip_reg'[PositionOf(g)] = msip_reg[PositionOf(g)]
        BY <1>1, <2>1, <4>1 DEF IpiDeviceTypes
      <4> QED
        BY <2>1, <3>1, <3>3, <4>2
    <3> QED
      BY <3>2, <3>3
  <2>4. RegistersAreTrue'
    BY <1>1, <2>1, <2>3 DEF DeviceInv, RegistersAreTrue
  <2> QED
    BY <2>2, <2>4 DEF DeviceInv
<1>3. CASE PlicswClear(h)
  <2>1. PICK b \in pending \cap enabled[PositionOf(h)] : pending' = pending \ {b}
    BY <1>3 DEF PlicswClear
  <2>2. b = SourceBit(PositionOf(h))
    BY <1>1, <2>1, OwnPosition DEF IpiDeviceTypes, PlicswEnable
  <2>3. /\ device = "plicsw" /\ kicked' = kicked \ {h}
        /\ UNCHANGED <<msip_reg, enabled, eip, eie, nr_msis, owner, msi_ids, due>>
    BY <1>3 DEF PlicswClear, imsic
  <2>4. IpiDeviceTypes'
    BY <1>1, <2>3 DEF IpiDeviceTypes
  <2>5. \A g \in Harts : SourceBit(PositionOf(g)) \in pending' <=> g \in kicked'
    BY <2>1, <2>2, <2>3, SourcesDiffer DEF DeviceInv, RegistersAreTrue
  <2>6. RegistersAreTrue'
    BY <1>1, <2>3, <2>5 DEF DeviceInv, RegistersAreTrue
  <2> QED
    BY <2>4, <2>6 DEF DeviceInv
<1>4. CASE ImsicClear(h)
  <2> DEFINE ready == eip[h] \cap eie[h]
  <2>1. /\ device = "imsic"
        /\ UNCHANGED <<msip_reg, pending, enabled, eie, nr_msis, owner, msi_ids>>
    BY <1>4 DEF ImsicClear, plic
  <2>2. FileIsTrue
    BY <2>1 DEF DeviceInv, RegistersAreTrue
  <2>3. CASE ready = {}
    <3>1. eip' = eip /\ due' = due /\ kicked' = kicked
      BY <1>4, <2>3 DEF ImsicClear
    <3>2. IpiDeviceTypes'
      BY <1>1, <2>1, <3>1 DEF IpiDeviceTypes
    <3>3. FileIsTrue'
      BY <2>1, <2>2, <3>1 DEF FileIsTrue, Owns
    <3> QED
      BY <1>1, <2>1, <3>2, <3>3 DEF DeviceInv, RegistersAreTrue
  <2>4. CASE ready # {}
    <3>1. PICK top \in ready :
            /\ eip' = [eip EXCEPT ![h] = @ \ {top}]
            /\ due' = IF top >= FirstMsi /\ top - FirstMsi < nr_msis
                      THEN due \ {top - FirstMsi} ELSE due
            /\ kicked' = IF top = IpiId THEN kicked \ {h} ELSE kicked
      BY <1>4, <2>4 DEF ImsicClear
    <3>2. top \in Nat /\ top \in eip[h] /\ top \in eie[h]
      BY <1>1 DEF IpiDeviceTypes
    <3>3. IpiDeviceTypes'
      BY <1>1, <2>1, <3>1, <3>2 DEF IpiDeviceTypes
    <3>4. \A g \in Harts : eip'[g] = IF g = h THEN eip[g] \ {top} ELSE eip[g]
      BY <1>1, <3>1 DEF IpiDeviceTypes
    <3>5. CASE top = IpiId
      <4>1. due' = due /\ kicked' = kicked \ {h}
        BY <3>1, <3>5 DEF IpiId, FirstMsi
      <4>2. \A g \in Harts : \A i \in Nat :
              i \in eip'[g] <=> (i = IpiId /\ g \in kicked')
                                \/ (i >= FirstMsi /\ i - FirstMsi \in due /\ owner[i - FirstMsi] = g)
        <5> TAKE g \in Harts
        <5> TAKE i \in Nat
        <5>1. i \in eip[g] <=> (i = IpiId /\ g \in kicked)
                               \/ (i >= FirstMsi /\ i - FirstMsi \in due /\ owner[i - FirstMsi] = g)
          BY <2>2 DEF FileIsTrue
        <5>2. ~(IpiId >= FirstMsi)
          BY DEF IpiId, FirstMsi
        <5> QED
          BY <3>4, <3>5, <4>1, <5>1, <5>2
      <4>3. FileIsTrue'
        BY <2>1, <2>2, <4>1, <4>2 DEF FileIsTrue, Owns
      <4> QED
        BY <1>1, <2>1, <3>3, <4>3 DEF DeviceInv, RegistersAreTrue
    <3>6. CASE top # IpiId
      <4>1. top >= FirstMsi /\ top - FirstMsi < nr_msis /\ owner[top - FirstMsi] = h
        BY <2>2, <3>2, <3>6 DEF FileIsTrue, Owns
      <4>2. due' = due \ {top - FirstMsi} /\ kicked' = kicked
        BY <3>1, <3>6, <4>1
      <4>3. \A i \in Nat : i >= FirstMsi /\ i - FirstMsi = top - FirstMsi => i = top
        <5>1. \A i, j \in Nat : i >= FirstMsi /\ j >= FirstMsi /\ i - FirstMsi = j - FirstMsi => i = j
          BY DEF FirstMsi
        <5> QED
          BY <3>2, <4>1, <5>1
      <4>4. \A g \in Harts : \A i \in Nat :
              i \in eip'[g] <=> (i = IpiId /\ g \in kicked)
                                \/ (i >= FirstMsi /\ i - FirstMsi \in due' /\ owner[i - FirstMsi] = g)
        <5> TAKE g \in Harts
        <5> TAKE i \in Nat
        <5>1. i \in eip[g] <=> (i = IpiId /\ g \in kicked)
                               \/ (i >= FirstMsi /\ i - FirstMsi \in due /\ owner[i - FirstMsi] = g)
          BY <2>2 DEF FileIsTrue
        <5>2. CASE i = top
          <6>1. i - FirstMsi \notin due' /\ i # IpiId
            BY <3>6, <4>2, <5>2
          <6>2. i \notin eip'[g]
            BY <3>4, <4>1, <5>1, <5>2, <6>1
          <6> QED
            BY <6>1, <6>2
        <5>3. CASE i # top
          <6>1. i \in eip'[g] <=> i \in eip[g]
            BY <3>4, <5>3
          <6>2. i >= FirstMsi => (i - FirstMsi \in due' <=> i - FirstMsi \in due)
            BY <4>2, <4>3, <5>3
          <6> QED
            BY <5>1, <6>1, <6>2
        <5> QED
          BY <5>2, <5>3
      <4>5. FileIsTrue'
        BY <2>1, <2>2, <4>2, <4>4 DEF FileIsTrue, Owns
      <4> QED
        BY <1>1, <2>1, <3>3, <4>5 DEF DeviceInv, RegistersAreTrue
    <3> QED
      BY <3>5, <3>6
  <2> QED
    BY <2>3, <2>4
<1> QED
  BY <1>2, <1>3, <1>4 DEF ClearIpi

\* irqchip_msi_request(), the messages, and imsic_hart_init().
LEMMA MsisKeepInv ==
  ASSUME DeviceInv, \/ \E h \in Harts : MsiRequest(h) \/ HartComesBack(h)
                    \/ \E m \in 0 .. Msis - 1 : MsiArrives(m)
  PROVE  DeviceInv'
<1>1. IpiDeviceTypes /\ Msis \in Nat
  BY IpiDevicesAssumption DEF DeviceInv
<1>2. ASSUME NEW h \in Harts, MsiRequest(h) PROVE DeviceInv'
  <2>1. /\ device = "imsic" /\ nr_msis < Msis /\ nr_msis' = nr_msis + 1
        /\ owner' = [owner EXCEPT ![nr_msis] = h]
        /\ msi_ids' = [msi_ids EXCEPT ![h] = @ \cup {FirstMsi + nr_msis}]
        /\ eie' = [eie EXCEPT ![h] = @ \cup {FirstMsi + nr_msis}]
        /\ UNCHANGED <<device, msip_reg, pending, enabled, eip, kicked, due>>
    BY <1>2 DEF MsiRequest, plic
  <2>2. FileIsTrue /\ nr_msis \in Nat
    BY <1>1, <2>1 DEF DeviceInv, RegistersAreTrue, IpiDeviceTypes
  <2>3. IpiDeviceTypes'
    <3>1. /\ msi_ids' \in [Harts -> SUBSET Nat] /\ eie' \in [Harts -> SUBSET Nat]
      BY <1>1, <2>1, <2>2 DEF IpiDeviceTypes, FirstMsi
    <3>2. nr_msis' \in 0 .. Msis /\ DOMAIN owner' = 0 .. Msis - 1
      BY <1>1, <2>1, <2>2 DEF IpiDeviceTypes
    <3>3. due' \subseteq {m \in Nat : m < nr_msis'}
      BY <1>1, <2>1, <2>2 DEF IpiDeviceTypes
    <3> QED
      BY <1>1, <2>1, <3>1, <3>2, <3>3 DEF IpiDeviceTypes
  <2>4. owner'[nr_msis] = h /\ \A m \in 0 .. nr_msis - 1 : owner'[m] = owner[m]
    BY <1>1, <2>1, <2>2 DEF IpiDeviceTypes
  <2>5. \A g \in Harts : /\ eie'[g] = IF g = h THEN eie[g] \cup {FirstMsi + nr_msis} ELSE eie[g]
                         /\ msi_ids'[g] = IF g = h THEN msi_ids[g] \cup {FirstMsi + nr_msis} ELSE msi_ids[g]
    BY <1>1, <2>1 DEF IpiDeviceTypes
  <2>6. \A g \in Harts : \A i \in Nat : Owns(g, i)' <=> Owns(g, i) \/ (g = h /\ i = FirstMsi + nr_msis)
    <3> TAKE g \in Harts
    <3> TAKE i \in Nat
    <3>1. CASE i >= FirstMsi /\ i - FirstMsi < nr_msis
      <4>1. i - FirstMsi \in 0 .. nr_msis - 1 /\ i # FirstMsi + nr_msis /\ i - FirstMsi < nr_msis + 1
        BY <2>2, <3>1 DEF FirstMsi
      <4> QED
        BY <2>1, <2>4, <3>1, <4>1 DEF Owns
    <3>2. CASE i = FirstMsi + nr_msis
      <4>1. i >= FirstMsi /\ i - FirstMsi = nr_msis /\ ~(nr_msis < nr_msis) /\ nr_msis < nr_msis + 1
        BY <2>2, <3>2 DEF FirstMsi
      <4> QED
        BY <2>1, <2>4, <3>2, <4>1 DEF Owns
    <3>3. CASE ~(i >= FirstMsi /\ i - FirstMsi < nr_msis) /\ i # FirstMsi + nr_msis
      <4>1. ~(i >= FirstMsi /\ i - FirstMsi < nr_msis + 1)
        BY <2>2, <3>3 DEF FirstMsi
      <4> QED
        BY <2>1, <3>3, <4>1 DEF Owns
    <3> QED
      BY <3>1, <3>2, <3>3
  <2>7. \A m \in due : owner'[m] = owner[m]
    BY <1>1, <2>2, <2>4 DEF IpiDeviceTypes
  <2>8. \A g \in Harts : \A i \in Nat :
          /\ i \in eie'[g] <=> i = IpiId \/ Owns(g, i)'
          /\ i \in msi_ids'[g] <=> Owns(g, i)'
    <3> TAKE g \in Harts
    <3> TAKE i \in Nat
    <3>1. (i \in eie[g] <=> i = IpiId \/ Owns(g, i)) /\ (i \in msi_ids[g] <=> Owns(g, i))
      BY <2>2 DEF FileIsTrue
    <3>2. Owns(g, i)' <=> Owns(g, i) \/ (g = h /\ i = FirstMsi + nr_msis)
      BY <2>6
    <3>3. /\ i \in eie'[g] <=> i \in eie[g] \/ (g = h /\ i = FirstMsi + nr_msis)
          /\ i \in msi_ids'[g] <=> i \in msi_ids[g] \/ (g = h /\ i = FirstMsi + nr_msis)
      BY <2>5
    <3> QED
      BY <3>1, <3>2, <3>3
  <2>9. \A g \in Harts : \A i \in Nat :
          i \in eip'[g] <=> (i = IpiId /\ g \in kicked')
                            \/ (i >= FirstMsi /\ i - FirstMsi \in due' /\ owner'[i - FirstMsi] = g)
    BY <2>1, <2>2, <2>7 DEF FileIsTrue
  <2>10. FileIsTrue'
    BY <2>8, <2>9 DEF FileIsTrue
  <2> QED
    BY <2>1, <2>3, <2>10 DEF DeviceInv, RegistersAreTrue
<1>3. ASSUME NEW h \in Harts, HartComesBack(h) PROVE DeviceInv'
  <2>1. /\ device = "imsic" /\ eie' = [eie EXCEPT ![h] = {IpiId} \cup msi_ids[h]]
        /\ UNCHANGED <<device, msip_reg, pending, enabled, eip, nr_msis, owner, msi_ids, kicked, due>>
    BY <1>3 DEF HartComesBack, ImsicHartInit, plic
  <2>2. FileIsTrue
    BY <2>1 DEF DeviceInv, RegistersAreTrue
  <2>3. IpiDeviceTypes'
    BY <1>1, <2>1 DEF IpiDeviceTypes, IpiId
  <2>4. \A g \in Harts : eie'[g] = IF g = h THEN {IpiId} \cup msi_ids[g] ELSE eie[g]
    BY <1>1, <2>1 DEF IpiDeviceTypes
  <2>5. FileIsTrue'
    <3> SUFFICES ASSUME NEW g \in Harts, NEW i \in Nat
                 PROVE  /\ i \in eie'[g] <=> i = IpiId \/ Owns(g, i)'
                        /\ i \in msi_ids'[g] <=> Owns(g, i)'
                        /\ i \in eip'[g] <=> (i = IpiId /\ g \in kicked')
                             \/ (i >= FirstMsi /\ i - FirstMsi \in due' /\ owner'[i - FirstMsi] = g)
      BY DEF FileIsTrue
    <3>1. Owns(g, i)' <=> Owns(g, i)
      BY <2>1 DEF Owns
    <3>2. i \in msi_ids[g] <=> Owns(g, i)
      BY <2>2 DEF FileIsTrue
    <3>3. i \in eie[g] <=> i = IpiId \/ Owns(g, i)
      BY <2>2 DEF FileIsTrue
    <3>4. i \in eie'[g] <=> i = IpiId \/ Owns(g, i)
      BY <2>4, <3>2, <3>3
    <3>5. i \in eip[g] <=> (i = IpiId /\ g \in kicked)
                             \/ (i >= FirstMsi /\ i - FirstMsi \in due /\ owner[i - FirstMsi] = g)
      BY <2>2 DEF FileIsTrue
    <3> QED
      BY <2>1, <3>1, <3>2, <3>4, <3>5
  <2> QED
    BY <2>1, <2>3, <2>5 DEF DeviceInv, RegistersAreTrue
<1>4. ASSUME NEW m \in 0 .. Msis - 1, MsiArrives(m) PROVE DeviceInv'
  <2>1. /\ m < nr_msis /\ eip' = [eip EXCEPT ![owner[m]] = @ \cup {FirstMsi + m}]
        /\ due' = due \cup {m}
        /\ UNCHANGED <<device, msip_reg, pending, enabled, eie, nr_msis, owner, msi_ids, kicked>>
    BY <1>4 DEF MsiArrives, plic
  <2>2. m \in Nat /\ nr_msis # 0
    BY <1>1, <2>1 DEF IpiDeviceTypes
  <2>3. device = "imsic" /\ FileIsTrue
    BY <2>2 DEF DeviceInv, RegistersAreTrue
  <2>4. IpiDeviceTypes'
    <3>1. eip' \in [Harts -> SUBSET Nat]
      <4>1. FirstMsi + m \in Nat /\ eip \in [Harts -> SUBSET Nat]
        BY <1>1, <2>2 DEF FirstMsi, IpiDeviceTypes
      <4>2. CASE owner[m] \in Harts
        BY <2>1, <4>1, <4>2
      <4>3. CASE owner[m] \notin Harts
        <5>1. eip' = eip
          BY <2>1, <4>1, <4>3
        <5> QED
          BY <4>1, <5>1
      <4> QED
        BY <4>2, <4>3
    <3>2. due' \subseteq {k \in Nat : k < nr_msis'}
      BY <1>1, <2>1, <2>2 DEF IpiDeviceTypes
    <3> QED
      BY <1>1, <2>1, <3>1, <3>2 DEF IpiDeviceTypes
  <2>5. \A g \in Harts : eip'[g] = IF g = owner[m] THEN eip[g] \cup {FirstMsi + m} ELSE eip[g]
    BY <1>1, <2>1 DEF IpiDeviceTypes
  <2>6. \A g \in Harts : \A i \in Nat :
          i \in eip'[g] <=> (i = IpiId /\ g \in kicked)
                            \/ (i >= FirstMsi /\ i - FirstMsi \in due' /\ owner[i - FirstMsi] = g)
    <3> TAKE g \in Harts
    <3> TAKE i \in Nat
    <3>1. i = FirstMsi + m <=> i >= FirstMsi /\ i - FirstMsi = m
      BY <2>2 DEF FirstMsi
    <3>2. i \in eip[g] <=> (i = IpiId /\ g \in kicked)
                           \/ (i >= FirstMsi /\ i - FirstMsi \in due /\ owner[i - FirstMsi] = g)
      BY <2>3 DEF FileIsTrue
    <3> QED
      BY <2>1, <2>5, <3>1, <3>2
  <2>7. FileIsTrue'
    BY <2>1, <2>3, <2>6 DEF FileIsTrue, Owns
  <2> QED
    BY <2>1, <2>3, <2>4, <2>7 DEF DeviceInv, RegistersAreTrue
<1> QED
  BY <1>2, <1>3, <1>4

\* No kick, claim, request, message or restart breaks it.
LEMMA NextDeviceInv == DeviceInv /\ [IpiDevicesNext]_ipiDeviceVars => DeviceInv'
<1> SUFFICES ASSUME DeviceInv, [IpiDevicesNext]_ipiDeviceVars PROVE DeviceInv'
  OBVIOUS
<1>1. CASE UNCHANGED ipiDeviceVars
  BY <1>1 DEF ipiDeviceVars, DeviceInv, IpiDeviceTypes, RegistersAreTrue, FileIsTrue, Owns
<1> QED
  BY <1>1, KickKeepsInv, ClearKeepsInv, MsisKeepInv DEF IpiDevicesNext

\* A hart has its interrupt exactly when it was kicked, or has an MSI to handle,
\* and has not cleared it since, on an ACLINT, an Andes PLIC or an IMSIC
\* (aclint_mswi_send(), plicsw_send(), imsic_ipi_send(), the clear functions,
\* irqchip_msi_request(), imsic_hart_init()).
THEOREM KicksReachTheirHarts == IpiDevicesSpec => []KickReachesItsHart
BY InvMeansKick, InitDeviceInv, NextDeviceInv, PTL DEF IpiDevicesSpec
===============================================================================
