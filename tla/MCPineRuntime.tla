---------------------------- MODULE MCPineRuntime ----------------------------
(* Bounds for checking PineRuntime. *)
EXTENDS PineRuntime

CONSTANT v        \* the value that is not a bool

\* A bar whose close time the provider gives, and one that leaves it out.
ClosedBar == [time |-> 10, timeClose |-> 11, high |-> 2, low |-> 1, close |-> 2,
              volume |-> 0]
UnclosedBar == [time |-> 20, timeClose |-> None, high |-> 2, low |-> 2,
                close |-> 2, volume |-> 0]
AllBars == {ClosedBar, UnclosedBar}
OneBar == {ClosedBar}

\* A tick that raises the high, and a final one that lowers the low and is too
\* early for the second bar.
RaisingTick == [price |-> 3, volume |-> 1, time |-> None, final |-> FALSE]
LowTick == [price |-> 0, volume |-> 1, time |-> 11, final |-> TRUE]
AllTicks == {RaisingTick, LowTick}

\* The life of one runtime over all bars, ticks and types, without indicator and
\* varip state; from the first export on with them, over two bars, float series
\* and ticks that raise, and no change of islastconfirmedhistory, which nothing
\* depends on.
Explored ==
  /\ \A i \in DOMAIN chartBars : chartBars[i].time = UnclosedBar.time <=> i = 2
  /\ IF saved = <<>>
     THEN memory = None /\ varip = None
     ELSE /\ ~barstate.lastHistory /\ Len(chartBars) <= 2
          /\ \A i \in DOMAIN chartBars : chartBars[i].low # LowTick.price
          /\ \A n \in DOMAIN series \ {BarName} :
               /\ series[n].dtype = "float"
               /\ \A i \in DOMAIN series[n].history : series[n].history[i] \in {NA, v}
               /\ series[n].current \in {NA, v}
=============================================================================
