---------------------------- MODULE StrategyContext ----------------------------
(***************************************************************************)
(* The strategy facade of pinelib/strategy: context.py, intent_context.py  *)
(* and strategy_checkpoint.py over the intent tape.  Each strategy call    *)
(* records an intent on the tape, at the bar the attached runtime stands   *)
(* on and in the scope of the facade, and only then changes the book of    *)
(* pending orders and risk rules.                                          *)
(*                                                                         *)
(* Abstractions.  A command is the pair of its kind and its id.  The four  *)
(* kinds that create an order (entry, order, exit, close) differ only in   *)
(* the fields the tape seals, and are the kind "order".  The bar of the    *)
(* runtime is the parameter pos of the operations: StrategyRunner composes *)
(* this module with the runtime.                                           *)
(***************************************************************************)
EXTENDS IntentTape, Integers

CONSTANTS
  Counts,      \* numbers the closedtrades counter is set to
  MaxOrders,   \* bound on pending orders and on risk rules
  MaxCommits   \* bound on the committed rows of closedtrades

Kinds == {"order", "cancel", "cancel_all", "risk"}

ASSUME ContextAssumption ==
  /\ Counts \subseteq Nat
  /\ MaxOrders \in Nat
  /\ MaxCommits \in Nat
  /\ "" \notin Phases
  /\ \A c \in Commands : DOMAIN c = {"kind", "id"} /\ c.kind \in Kinds

VARIABLES
  pending,      \* pending_orders: the id and the status of each
  rules,        \* risk_rules
  scope,        \* _intent_phase and _intent_recalc_iteration
  closedtrades, \* _closedtrades: current and history
  savedContext  \* <<>>, or what the saved checkpoint holds besides the tape

contextVars == <<pending, rules, scope, closedtrades, savedContext>>
allVars == <<vars, contextVars>>

-----------------------------------------------------------------------------

FirstScope == [phase |-> InitialPhase, recalc |-> 0]
NoTrades == [current |-> 0, history |-> <<>>]

ContextInit ==
  /\ Init
  /\ pending = <<>>
  /\ rules = <<>>
  /\ scope = FirstScope
  /\ closedtrades = NoTrades
  /\ savedContext = <<>>

AttachRuntime(id) == SetSeriesIdentity(id) /\ UNCHANGED contextVars

TapeScope(pos) == [pos |-> pos, phase |-> scope.phase, recalc |-> scope.recalc]

\* Mutant: the facade forgets the recalc iteration.
BeginFirstPass(pos, phase, recalc) ==
  /\ scope' = [phase |-> phase, recalc |-> 0]
  /\ BeginCallback([pos |-> pos, phase |-> phase, recalc |-> recalc])
  /\ UNCHANGED <<pending, rules, closedtrades, savedContext>>

BeginIntentCallback(pos, phase, recalc) ==
  /\ scope' = [phase |-> phase, recalc |-> recalc]
  /\ BeginCallback([pos |-> pos, phase |-> phase, recalc |-> recalc])
  /\ UNCHANGED <<pending, rules, closedtrades, savedContext>>

\* The scope is assigned before the tape rejects an empty phase ...
BeginIntentNoPhase(pos) ==
  /\ scope' = [phase |-> "", recalc |-> 0]
  /\ BeginCallbackNoPhase(pos)
  /\ UNCHANGED <<pending, rules, closedtrades, savedContext>>

\* ... or a negative recalc iteration.
BeginIntentBadRecalc(phase) ==
  /\ scope' = [phase |-> phase, recalc |-> -1]
  /\ UNCHANGED <<vars, pending, rules, closedtrades, savedContext>>

CommitIntents(pos) == CommitBar(pos) /\ UNCHANGED contextVars

\* _record_intent: the tape refuses the scope a failed begin left behind.
RecordIntent(pos, command, body) ==
  /\ TapeScope(pos) \in Scopes
  /\ RecordAutomatic(TapeScope(pos), command, body)

\* Mutant: the order enters the book whether or not its intent is recorded.
PlaceUnrecorded(pos, command, body) ==
  /\ command.kind = "order"
  /\ Len(pending) < MaxOrders
  /\ \/ RecordIntent(pos, command, body)
     \/ pos \in committed /\ UNCHANGED vars
  /\ pending' = Append(pending, [id |-> command.id, status |-> "pending"])
  /\ UNCHANGED <<rules, scope, closedtrades, savedContext>>

PlaceOrder(pos, command, body) ==
  /\ command.kind = "order"
  /\ Len(pending) < MaxOrders
  /\ RecordIntent(pos, command, body)
  /\ pending' = Append(pending, [id |-> command.id, status |-> "pending"])
  /\ UNCHANGED <<rules, scope, closedtrades, savedContext>>

Cancelled(order) == [order EXCEPT !.status = "cancelled"]

CancelOrder(pos, command, body) ==
  /\ command.kind = "cancel"
  /\ RecordIntent(pos, command, body)
  /\ pending' = [i \in DOMAIN pending |->
                   IF pending[i].id = command.id THEN Cancelled(pending[i])
                                                 ELSE pending[i]]
  /\ UNCHANGED <<rules, scope, closedtrades, savedContext>>

CancelAll(pos, command, body) ==
  /\ command.kind = "cancel_all"
  /\ RecordIntent(pos, command, body)
  /\ pending' = [i \in DOMAIN pending |-> Cancelled(pending[i])]
  /\ UNCHANGED <<rules, scope, closedtrades, savedContext>>

AddRiskRule(pos, command, body) ==
  /\ command.kind = "risk"
  /\ Len(rules) < MaxOrders
  /\ RecordIntent(pos, command, body)
  /\ rules' = Append(rules, command.id)
  /\ UNCHANGED <<pending, scope, closedtrades, savedContext>>

Submit(pos, command, body) ==
  \/ PlaceOrder(pos, command, body)
  \/ CancelOrder(pos, command, body)
  \/ CancelAll(pos, command, body)
  \/ AddRiskRule(pos, command, body)

\* The closedtrades setter, and the commit the runner makes for each bar.
SetClosedTrades(n) ==
  /\ closedtrades' = [closedtrades EXCEPT !.current = n]
  /\ UNCHANGED <<vars, pending, rules, scope, savedContext>>

CommitScalarHistory ==
  /\ Len(closedtrades.history) < MaxCommits
  /\ closedtrades' = [closedtrades EXCEPT !.history = Append(@, closedtrades.current)]
  /\ UNCHANGED <<vars, pending, rules, scope, savedContext>>

ExportStrategy ==
  /\ ExportState
  /\ savedContext' = <<[pending |-> pending, rules |-> rules, scope |-> scope,
                       closedtrades |-> closedtrades]>>
  /\ UNCHANGED <<pending, rules, scope, closedtrades>>

\* The checks of restore_strategy_state before it hands over to the tape.
ContextRestorable(state, tapeState) ==
  /\ state.scope.phase \in Phases
  /\ state.scope.recalc \geq 0
  /\ state.scope.phase = tapeState.callback.phase
  /\ state.scope.recalc = tapeState.callback.recalc

\* Mutant: the book of the attempt survives the rollback.
RestoreTapeOnly ==
  /\ savedContext # <<>>
  /\ ContextRestorable(savedContext[1], saved[1])
  /\ RestoreState
  /\ rules' = savedContext[1].rules
  /\ closedtrades' = savedContext[1].closedtrades
  /\ scope' = savedContext[1].scope
  /\ UNCHANGED <<pending, savedContext>>

\* Mutant: the facade keeps its own scope.
RestoreKeepingScope ==
  /\ savedContext # <<>>
  /\ ContextRestorable(savedContext[1], saved[1])
  /\ RestoreState
  /\ pending' = savedContext[1].pending
  /\ rules' = savedContext[1].rules
  /\ closedtrades' = savedContext[1].closedtrades
  /\ UNCHANGED <<scope, savedContext>>

RestoreStrategy ==
  /\ savedContext # <<>>
  /\ ContextRestorable(savedContext[1], saved[1])
  /\ RestoreState
  /\ pending' = savedContext[1].pending
  /\ rules' = savedContext[1].rules
  /\ closedtrades' = savedContext[1].closedtrades
  /\ scope' = savedContext[1].scope
  /\ UNCHANGED savedContext

\* The process ends and a new facade with a new tape is constructed.
NewContext ==
  /\ NewTape
  /\ pending' = <<>>
  /\ rules' = <<>>
  /\ scope' = FirstScope
  /\ closedtrades' = NoTrades
  /\ UNCHANGED savedContext

ContextNext ==
  \/ \E id \in Identities : AttachRuntime(id)
  \/ \E pos \in Positions :
       \/ \E phase \in Phases, recalc \in 0..MaxRecalc :
            BeginIntentCallback(pos, phase, recalc)
       \/ BeginIntentNoPhase(pos)
       \/ CommitIntents(pos)
       \/ \E command \in Commands, body \in Bodies : Submit(pos, command, body)
  \/ \E phase \in Phases : BeginIntentBadRecalc(phase)
  \/ \E n \in Counts : SetClosedTrades(n)
  \/ CommitScalarHistory
  \/ ExportStrategy
  \/ RestoreStrategy
  \/ NewContext

ContextSpec == ContextInit /\ [][ContextNext]_allVars
-----------------------------------------------------------------------------
(* Properties *)

\* The book and the tape tell of the same calls: an order is pending, and a risk
\* rule listed, only if its intent is on the tape, and an intent on the tape has
\* entered the book.  No rejected call, repeat, rollback or restart parts them.
BookMatchesTape ==
  LET recorded(kind) == {events[i].key.command.id :
                           i \in {j \in DOMAIN events : events[j].key.command.kind = kind}}
  IN  /\ {pending[i].id : i \in DOMAIN pending} = recorded("order")
      /\ {rules[i] : i \in DOMAIN rules} = recorded("risk")

\* A cancelled order has its cancel on the tape.
CancelsRecorded ==
  \A i \in DOMAIN pending : pending[i].status = "cancelled" =>
    \E j \in DOMAIN events :
      \/ events[j].key.command.kind = "cancel_all"
      \/ /\ events[j].key.command.kind = "cancel"
         /\ events[j].key.command.id = pending[i].id

ValidScope == scope.phase \in Phases /\ scope.recalc \geq 0

\* The scope of the facade is the callback open on the tape, except after a
\* begin that failed.
ScopeFollowsTape ==
  ValidScope => scope = [phase |-> callback.phase, recalc |-> callback.recalc]

\* A checkpoint taken under a valid scope can be restored on every context whose
\* tape has its identity, also in the middle of a callback and after a restart.
CheckpointRestorable ==
  (/\ savedContext # <<>>
   /\ saved[1].identity = identity
   /\ savedContext[1].scope.phase \in Phases
   /\ savedContext[1].scope.recalc \geq 0)
    => ContextRestorable(savedContext[1], saved[1]) /\ Restorable(saved[1])
=============================================================================
