------------------------------ MODULE IntentTape ------------------------------
(***************************************************************************)
(* The intent tape of pinelib/strategy/intent_tape.py together with its    *)
(* checkpoint (intent_checkpoint.py).  A tape belongs to one run of one    *)
(* strategy.  A callback scope (bar position, phase, recalc iteration) is  *)
(* opened by begin_callback; record derives a delivery key from the scope, *)
(* the command and an invocation ordinal, and appends an event only if the *)
(* key is new.  commit_bar seals a bar position.                           *)
(*                                                                         *)
(* Abstractions.  A hash of an identity is that identity (hashes do not    *)
(* collide).  A "command" is the pair (kind, command_id) and a "body" the  *)
(* validated business fields and source span of an event.  A position is   *)
(* the pair (bar_index, bar_open_time_utc_ms).  A call the code rejects    *)
(* before it assigns anything is a step that is not enabled; the one       *)
(* rejection that leaves assignments behind is BeginCallbackNoPhase.       *)
(***************************************************************************)
EXTENDS Naturals, Sequences

CONSTANTS
  Series,         \* values of (series_id, instrument_id, timeframe)
  Profiles,       \* semantic profiles
  Strict,         \* TRUE for a strict-production tape
  ContextId,      \* the identity its execution context names
  Positions,      \* bar positions with nonnegative components
  BadPositions,   \* bar positions with a negative component
  Origin,         \* the position (0, 0)
  Phases,         \* nonempty phase names
  InitialPhase,   \* "BAR_COMMIT"
  MaxRecalc,      \* bound on recalc_iteration
  Commands,
  Bodies,
  MaxOrdinal,     \* bound on the ordinals a caller passes explicitly
  MaxCalls,       \* bound on the automatic ordinals of one command
  MaxEvents       \* bound on the length of the tape

ASSUME TapeAssumption ==
  /\ ContextId \in [series : Series, profile : Profiles]
  /\ Strict \in BOOLEAN
  /\ Origin \in Positions
  /\ Positions \cap BadPositions = {}
  /\ InitialPhase \in Phases
  /\ MaxRecalc \in Nat
  /\ MaxOrdinal \in Nat
  /\ MaxCalls \in Nat
  /\ MaxEvents \in Nat

VARIABLES
  identity,   \* series identity and semantic profile of the tape
  events,     \* _events
  ordinals,   \* _event_ordinals
  byKey,      \* _by_key
  committed,  \* _committed_bars
  callback,   \* the open callback scope
  counts,     \* _invocation_counts (0 where the dict has no entry)
  saved,      \* <<>>, or the one checkpoint the host holds
  handed      \* history: per command, the sequence numbers returned to the
              \* automatic invocations of the open callback, in call order

tapeVars == <<events, ordinals, byKey, committed, callback, counts, handed>>
vars == <<identity, tapeVars, saved>>

-----------------------------------------------------------------------------

Identities == [series : Series, profile : Profiles]

Scopes == [pos : Positions, phase : Phases, recalc : 0..MaxRecalc]

Ordinals == 0..(MaxOrdinal + MaxCalls)

Keys == [series : Series, pos : Positions, phase : Phases,
         recalc : 0..MaxRecalc, command : Commands, ordinal : Ordinals]

Events == [key : Keys, profile : Profiles, body : Bodies, sequence : Nat]

InitialScope == [pos |-> Origin, phase |-> InitialPhase, recalc |-> 0]

NoCounts == [c \in Commands |-> 0]
NothingHanded == [c \in Commands |-> <<>>]

DeliveryKey(scope, command, ordinal) ==
  [series |-> identity.series, pos |-> scope.pos, phase |-> scope.phase,
   recalc |-> scope.recalc, command |-> command, ordinal |-> ordinal]

KeysIn(evs) == {evs[i].key : i \in DOMAIN evs}

\* The index restore rebuilds from a list of events whose keys are distinct.
IndexOf(evs) ==
  [k \in KeysIn(evs) |-> evs[CHOOSE i \in DOMAIN evs : evs[i].key = k]]

Init ==
  /\ identity \in IF Strict THEN {ContextId} ELSE Identities
  /\ events = <<>>
  /\ ordinals = <<>>
  /\ byKey = [k \in {} |-> <<>>]
  /\ committed = {}
  /\ callback = InitialScope
  /\ counts = NoCounts
  /\ saved = <<>>
  /\ handed = NothingHanded

\* Mutant: a tape with events is only held to its series.
SetSeriesOnly(id) ==
  /\ Strict => id = ContextId
  /\ events # <<>> => id.series = identity.series
  /\ identity' = id
  /\ UNCHANGED <<tapeVars, saved>>

SetSeriesIdentity(id) ==
  /\ Strict => id = ContextId
  /\ events # <<>> => id = identity
  /\ identity' = id
  /\ UNCHANGED <<tapeVars, saved>>

BeginCallback(scope) ==
  /\ callback' = scope
  /\ counts' = NoCounts
  /\ handed' = NothingHanded
  /\ UNCHANGED <<identity, events, ordinals, byKey, committed, saved>>

\* Mutant: the empty phase is assigned as well.
BeginCallbackEmptied(pos) ==
  /\ callback' = [callback EXCEPT !.pos = pos, !.phase = ""]
  /\ UNCHANGED <<identity, events, ordinals, byKey, committed, counts, saved,
                 handed>>

\* An empty phase is rejected after the position has been assigned.
BeginCallbackNoPhase(pos) ==
  /\ callback' = [callback EXCEPT !.pos = pos]
  /\ UNCHANGED <<identity, events, ordinals, byKey, committed, counts, saved,
                 handed>>

\* Mutant: only the last bar stays sealed.
CommitOnlyBar(pos) ==
  /\ committed' = {pos}
  /\ UNCHANGED <<identity, events, ordinals, byKey, callback, counts, saved,
                 handed>>

CommitBar(pos) ==
  /\ committed' = committed \cup {pos}
  /\ UNCHANGED <<identity, events, ordinals, byKey, callback, counts, saved,
                 handed>>

\* Mutant: sequence numbers start at one.
EventFromOne(key, body) ==
  [key |-> key, profile |-> identity.profile, body |-> body,
   sequence |-> IF key \in DOMAIN byKey THEN byKey[key].sequence
                                        ELSE Len(events) + 1]

\* The event a call produces: a repeated key keeps the sequence number of the
\* event it repeats.
EventFor(key, body) ==
  [key |-> key, profile |-> identity.profile, body |-> body,
   sequence |-> IF key \in DOMAIN byKey THEN byKey[key].sequence
                                        ELSE Len(events)]

\* Mutant: the list of ordinals keeps the place of the event instead.
StorePlace(key, body) ==
  /\ key \notin DOMAIN byKey
  /\ Len(events) < MaxEvents
  /\ events' = Append(events, EventFor(key, body))
  /\ ordinals' = Append(ordinals, Len(events))
  /\ byKey' = [k \in DOMAIN byKey \cup {key} |->
                 IF k = key THEN EventFor(key, body) ELSE byKey[k]]

\* record() up to its state changes; the event is new.
StoreNew(key, body) ==
  /\ key \notin DOMAIN byKey
  /\ Len(events) < MaxEvents
  /\ events' = Append(events, EventFor(key, body))
  /\ ordinals' = Append(ordinals, key.ordinal)
  /\ byKey' = [k \in DOMAIN byKey \cup {key} |->
                 IF k = key THEN EventFor(key, body) ELSE byKey[k]]

\* record() of a key the tape holds: accepted only with the same content.
RepeatOld(key, body) ==
  /\ key \in DOMAIN byKey
  /\ byKey[key] = EventFor(key, body)
  /\ UNCHANGED <<events, ordinals, byKey>>

Deliver(key, body) == StoreNew(key, body) \/ RepeatOld(key, body)

\* Mutant: a repeated delivery does not count as an invocation.
RecordCountingNew(scope, command, body) ==
  LET key == DeliveryKey(scope, command, counts[command])
  IN  /\ scope.pos \notin committed
      /\ counts[command] < MaxCalls
      /\ Deliver(key, body)
      /\ counts' = [counts EXCEPT ![command] =
                      IF key \in DOMAIN byKey THEN @ ELSE @ + 1]
      /\ handed' = [handed EXCEPT ![command] =
                      Append(@, EventFor(key, body).sequence)]
      /\ UNCHANGED <<identity, committed, callback, saved>>

\* record() without invocation_ordinal; scope is the open callback's unless
\* the caller passes position, phase or recalc iteration itself.
RecordAutomatic(scope, command, body) ==
  LET key == DeliveryKey(scope, command, counts[command])
  IN  /\ scope.pos \notin committed
      /\ counts[command] < MaxCalls
      /\ Deliver(key, body)
      /\ counts' = [counts EXCEPT ![command] = @ + 1]
      /\ handed' = [handed EXCEPT ![command] =
                      Append(@, EventFor(key, body).sequence)]
      /\ UNCHANGED <<identity, committed, callback, saved>>

\* Mutant: an explicit ordinal passes a sealed bar.
RecordUnsealed(scope, command, ordinal, body) ==
  /\ Deliver(DeliveryKey(scope, command, ordinal), body)
  /\ UNCHANGED <<identity, committed, callback, counts, saved, handed>>

\* record() with an explicit invocation_ordinal leaves the counts alone.
RecordExplicit(scope, command, ordinal, body) ==
  /\ scope.pos \notin committed
  /\ Deliver(DeliveryKey(scope, command, ordinal), body)
  /\ UNCHANGED <<identity, committed, callback, counts, saved, handed>>

Checkpoint ==
  [identity |-> identity, events |-> events, ordinals |-> ordinals,
   keyMap |-> [k \in DOMAIN byKey |-> byKey[k].sequence],
   committed |-> committed, callback |-> callback, counts |-> counts,
   handed |-> handed]

\* Mutant: the checkpoint forgets the sealed bars.
ExportUnsealed ==
  /\ saved' = <<[Checkpoint EXCEPT !.committed = {}]>>
  /\ UNCHANGED <<identity, tapeVars>>

ExportState ==
  /\ saved' = <<Checkpoint>>
  /\ UNCHANGED <<identity, tapeVars>>

\* The checks restore_intent_tape_state makes before it assigns anything.
Restorable(state) ==
  /\ state.identity = identity
  /\ Len(state.ordinals) = Len(state.events)
  /\ \A i \in DOMAIN state.events :
       LET event == state.events[i]
       IN  /\ event.sequence = i - 1
           /\ event.profile = identity.profile
           /\ event.key = DeliveryKey(event.key, event.key.command,
                                      state.ordinals[i])
           /\ \A j \in 1..(i - 1) : state.events[j].key # event.key
  /\ state.keyMap = [k \in KeysIn(state.events) |->
                       IndexOf(state.events)[k].sequence]
  /\ state.committed \subseteq Positions

RestoreState ==
  /\ saved # <<>>
  /\ Restorable(saved[1])
  /\ events' = saved[1].events
  /\ ordinals' = saved[1].ordinals
  /\ byKey' = IndexOf(saved[1].events)
  /\ committed' = saved[1].committed
  /\ callback' = saved[1].callback
  /\ counts' = saved[1].counts
  /\ handed' = saved[1].handed
  /\ UNCHANGED <<identity, saved>>

\* The process ends and a new tape is constructed; the checkpoint survives.
NewTape ==
  /\ identity' \in IF Strict THEN {ContextId} ELSE Identities
  /\ events' = <<>>
  /\ ordinals' = <<>>
  /\ byKey' = [k \in {} |-> <<>>]
  /\ committed' = {}
  /\ callback' = InitialScope
  /\ counts' = NoCounts
  /\ handed' = NothingHanded
  /\ UNCHANGED saved

Next ==
  \/ \E id \in Identities : SetSeriesIdentity(id)
  \/ \E scope \in Scopes : BeginCallback(scope)
  \/ \E pos \in Positions : BeginCallbackNoPhase(pos)
  \/ \E pos \in Positions \cup BadPositions : CommitBar(pos)
  \/ \E scope \in Scopes, command \in Commands, body \in Bodies :
       \/ RecordAutomatic(scope, command, body)
       \/ \E ordinal \in 0..MaxOrdinal :
            RecordExplicit(scope, command, ordinal, body)
  \/ ExportState
  \/ RestoreState
  \/ NewTape

Spec == Init /\ [][Next]_vars
-----------------------------------------------------------------------------
(* Properties *)

\* Every variable of the tape has its type.
TypeOK ==
  /\ identity \in Identities
  /\ events \in Seq(Events)
  /\ ordinals \in Seq(Ordinals)
  /\ DOMAIN byKey \subseteq Keys
  /\ byKey \in [DOMAIN byKey -> Events]
  /\ committed \subseteq Positions \cup BadPositions
  /\ callback \in Scopes
  /\ counts \in [Commands -> 0..MaxCalls]
  /\ handed \in [Commands -> Seq(Nat)]

\* The list of events, the list of their ordinals and the idempotency index
\* describe the same deliveries: the n-th event has sequence n, its ordinal is
\* the one its key was derived with, and the index finds exactly the events of
\* the list, so no key occurs twice.
IndexFaithful ==
  /\ Len(ordinals) = Len(events)
  /\ DOMAIN byKey = KeysIn(events)
  /\ \A i \in DOMAIN events :
       /\ events[i].sequence = i - 1
       /\ events[i].key.ordinal = ordinals[i]
       /\ byKey[events[i].key] = events[i]

\* Every event on the tape was recorded under the identity the tape has now:
\* set_series_identity cannot relabel a tape that holds events, and restore
\* cannot bring in the events of another series or profile.
OneIdentity ==
  \A i \in DOMAIN events : /\ events[i].key.series = identity.series
                           /\ events[i].profile = identity.profile

\* Two automatic invocations of the same command in one callback never get
\* the same event, whether they were first deliveries, repeats, or follow a
\* restore in the middle of the callback.
DistinctInvocations ==
  \A c \in Commands : \A m, n \in DOMAIN handed[c] :
    m # n => handed[c][m] # handed[c][n]

\* What export_state wrote, restore_state accepts on every tape with the same
\* identity, whatever calls were made before the export and since, unless a
\* bar with a negative position had been committed.
ExportRestorable ==
  (/\ saved # <<>>
   /\ saved[1].identity = identity
   /\ saved[1].committed \cap BadPositions = {}) => Restorable(saved[1])

EventsAt(pos) ==
  {events[i] : i \in {j \in DOMAIN events : events[j].key.pos = pos}}

Replaced == RestoreState \/ NewTape

\* The events of a committed bar change only when a checkpoint replaces the
\* tape: no call adds, removes or rewrites an event of a sealed bar.
SealedBarsFrozen ==
  [][\A pos \in committed : Replaced \/ EventsAt(pos)' = EventsAt(pos)]_vars

\* The tape is append-only between checkpoints: no call reorders, drops or
\* rewrites an event, and none lets go of a sealed bar.
AppendOnly ==
  [][Replaced \/ /\ Len(events) <= Len(events')
                 /\ \A i \in DOMAIN events : events'[i] = events[i]
                 /\ committed \subseteq committed']_vars

EntriesOf(evs) ==
  [i \in DOMAIN evs |->
     [key |-> evs[i].key,
      content |-> [profile |-> evs[i].profile, body |-> evs[i].body]]]

Log == INSTANCE IntentLog WITH
         Keys <- Keys,
         Contents <- [profile : Profiles, body : Bodies],
         Seals <- Positions \cup BadPositions,
         log <- EntriesOf(events),
         sealed <- committed,
         kept <- [n \in DOMAIN saved |->
                    [log |-> EntriesOf(saved[n].events),
                     sealed |-> saved[n].committed]]

\* The tape implements the exactly-once log: a delivery is appended once, in
\* order, unless its bar is sealed; a checkpoint keeps and brings back both.
ImplementsLog == Log!LogSpec
=============================================================================
