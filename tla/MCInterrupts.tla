------------------------------ MODULE MCInterrupts ------------------------------
(***************************************************************************)
(* What must happen in the end: IPIs are taken, timers fire, the boot      *)
(* ends, each on a small instance.  They share no state: a behaviour is    *)
(* one of one component, and the others stay in one of their initial       *)
(* states.                                                                 *)
(***************************************************************************)
EXTENDS Ipi, Timer, Boot

VARIABLE component

\* Timer: one hart that two domains share, and two harts; a node whose external
\* interrupts come between the timer ones, after one whose "reg" cannot be read
TimerNodes ==
  << [reg |-> FALSE, irqs |-> <<<<0, TRUE>>>>],
     [reg |-> TRUE, irqs |-> <<<<1, FALSE>>, <<1, TRUE>>, <<0, FALSE>>, <<0, TRUE>>>>] >>
SomeBoards ==
  { [nodes |-> TimerNodes, fallback |-> FALSE, first |-> 0, harts |-> {0, 1},
     calls |-> (0 :> 2) @@ (1 :> 1), sstc |-> FALSE],
    [nodes |-> <<>>, fallback |-> TRUE, first |-> 1, harts |-> {0, 1},
     calls |-> (0 :> 2) @@ (1 :> 1), sstc |-> FALSE],
    [nodes |-> <<>>, fallback |-> TRUE, first |-> 0, harts |-> {0},
     calls |-> (0 :> 3), sstc |-> FALSE],
    [nodes |-> <<>>, fallback |-> FALSE, first |-> 0, harts |-> {0},
     calls |-> (0 :> 3), sstc |-> TRUE],
    [nodes |-> TimerNodes, fallback |-> FALSE, first |-> 0, harts |-> {0},
     calls |-> (0 :> 3), sstc |-> TRUE] }

\* Boot: cpus one of which is disabled or not; the domains of the harts
Cpu(i, e, d) == [id |-> i, enabled |-> e, dom |-> d]
Inst(p, ok, poss, b, n, f) ==
  [phandle |-> p, ok |-> ok, possible |-> poss, boot |-> b, next |-> n, from |-> f]
CpuLists == {<<Cpu(1, TRUE, a), Cpu(0, TRUE, b), Cpu(2, e, IF e THEN 20 ELSE 10)>> :
               a \in {0, 10}, b \in {0, 20}, e \in BOOLEAN}
InstLists == {<<Inst(10, ok, {0, 1, 2}, 1, TRUE, {20}), Inst(20, TRUE, {0, 2}, 2, ok, {10})>> : ok \in BOOLEAN}
SomeNoSmode == {{}, {0, 2}}
SomeNamed == {-1, 1}
SomeTrees == {[cpus |-> c, inst |-> i] : c \in CpuLists, i \in InstLists}
-------------------------------------------------------------------------------
\* The component itself, or one of its initial states for good.
Or(c, pin, init) == (component # c => pin) /\ init
OneBoard == CHOOSE b \in SomeBoards : b.sstc
OneTree == CHOOSE t \in SomeTrees : TRUE
InitOfOne ==
  /\ component \in {"ipi", "timer", "boot"}
  /\ Init
  /\ Or("timer", board = OneBoard, TimerInit)
  /\ Or("boot", tree = OneTree /\ nosmode = {} /\ named = -1, BootInit)

NextOfOne ==
  /\ UNCHANGED component
  /\ \/ component = "ipi" /\ Next /\ UNCHANGED <<timerVars, bootVars>>
     \/ component = "timer" /\ TimerNext /\ UNCHANGED <<vars, bootVars>>
     \/ component = "boot" /\ BootNext /\ UNCHANGED <<vars, timerVars>>

\* The clock runs where there is the timer.
FairSpecOfOne ==
  /\ InitOfOne /\ [][NextOfOne]_<<component, vars, timerVars, bootVars>>
  /\ Fairness /\ BootFairness
  /\ WF_timerVars(component = "timer" /\ Tick)
  /\ \A h \in 0 .. 1 : WF_timerVars(h \in H /\ MonitorStep(h))
================================================================================
