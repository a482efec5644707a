-------------------------- MODULE MCStrategyContext --------------------------
(* Bounds for checking StrategyContext. *)
EXTENDS StrategyContext

CONSTANTS s1, v5

IdentityOne == [series |-> s1, profile |-> v5]

\* An order, its cancel, cancel_all and a risk rule.
AllCommands ==
  {[kind |-> "order", id |-> "L"], [kind |-> "cancel", id |-> "L"],
   [kind |-> "cancel_all", id |-> "*"], [kind |-> "risk", id |-> "max_drawdown"]}

\* None of the properties reads the scalar history: it moves on an empty tape
\* only.  The tape and its checkpoint together hold three events at most.
SmallStates ==
  /\ events # <<>> => /\ closedtrades = NoTrades
                      /\ savedContext # <<>> => savedContext[1].closedtrades = NoTrades
  /\ saved # <<>> => Len(events) + Len(saved[1].events) \leq 3
=============================================================================
