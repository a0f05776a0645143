----------------------------- MODULE HartLifecycle -----------------------------
(***************************************************************************)
(* The hart states of the SBI HSM extension and the moves between them, as *)
(* S-mode may rely on them: what hsm.c promises of hsm_state.  A start     *)
(* that was accepted happens, and every transient state is left.           *)
(***************************************************************************)
CONSTANT Hart

VARIABLE state   \* [Hart -> State]

State == {"STOPPED", "START_PENDING", "STARTED", "STOP_PENDING",
          "SUSPEND_PENDING", "SUSPENDED", "RESUME_PENDING"}

Moves == {<<"STOPPED", "START_PENDING">>,    <<"START_PENDING", "STARTED">>,
          <<"STARTED", "STOP_PENDING">>,     <<"STOP_PENDING", "STOPPED">>,
          <<"STARTED", "SUSPEND_PENDING">>,  <<"SUSPEND_PENDING", "STARTED">>,
          <<"SUSPEND_PENDING", "SUSPENDED">>, <<"SUSPENDED", "RESUME_PENDING">>,
          <<"RESUME_PENDING", "STARTED">>,
          <<"START_PENDING", "STOPPED">>}   \* the platform could not start it

Transient == {"START_PENDING", "STOP_PENDING", "SUSPEND_PENDING", "RESUME_PENDING"}

Move(h) ==
  \E s \in State : /\ <<state[h], s>> \in Moves
                   /\ state' = [state EXCEPT ![h] = s]

Leave(h) == state[h] \in Transient /\ Move(h)

LifecycleInit == state \in [Hart -> {"STOPPED", "STARTED"}]

LifecycleSafety == LifecycleInit /\ [][\E h \in Hart : Move(h)]_state

LifecycleSpec == LifecycleSafety /\ \A h \in Hart : WF_state(Leave(h))
================================================================================
