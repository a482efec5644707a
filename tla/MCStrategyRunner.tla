-------------------------- MODULE MCStrategyRunner --------------------------
(* Bounds for checking StrategyRunner. *)
EXTENDS StrategyRunner

CONSTANTS s1, v5

IdentityOne == [series |-> s1, profile |-> v5]

BarAt(time) == [time |-> time, timeClose |-> None, high |-> 2, low |-> 1,
                close |-> 2, volume |-> 0]
Tick(price) == [price |-> price, volume |-> 1, time |-> None, final |-> FALSE]

Historical(time) == [bar |-> BarAt(time), ticks |-> <<>>]
Live(time, prices) ==
  [bar |-> BarAt(time), ticks |-> [i \in DOMAIN prices |-> Tick(prices[i])]]

\* The first bars have the exposed indices -1, 0 and 1.
OneBarBefore == -1

\* Feeds with historical bars, before and after a live one.
HistoricalFeeds ==
  {<<Historical(10), Historical(20), Live(30, <<1>>)>>,
   <<Live(10, <<3, 0>>), Historical(20)>>}

\* Feeds of live bars only.
LiveFeeds == {<<Live(10, <<3, 0>>), Live(20, <<1>>)>>, <<Live(10, <<1, 3, 0>>)>>}

AllFeeds == HistoricalFeeds \cup LiveFeeds

BarPositions == {<<0, 0>>} \cup ((0..2) \X {10, 20, 30})
FirstPosition == <<0, 0>>

Buy == [kind |-> "order", id |-> "L"]
Cancel == [kind |-> "cancel", id |-> "L"]
Clear == [kind |-> "cancel_all", id |-> "*"]
Rule == [kind |-> "risk", id |-> "max_drawdown"]
SomeCommands == {Buy, Cancel, Clear, Rule}

\* A script that submits the same command twice in a pass and repeats itself,
\* and one that is silent in the first bar and then cancels.
Passes == (1..3) \X (0..2)
Repeating == [p \in Passes |-> <<Buy, Rule, Buy>>]
Changing ==
  [p \in Passes |-> CASE p[1] = 1 -> (IF p[2] = 0 THEN <<>> ELSE <<Buy, Cancel>>)
                      [] p[1] = 2 -> <<Buy, Clear, Buy>>
                      [] p[1] = 3 -> <<Cancel>>]
BothScripts == {Repeating, Changing}
=============================================================================
