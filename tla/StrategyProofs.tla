---------------------------- MODULE StrategyProofs ----------------------------
(***************************************************************************)
(* Proofs about the intent tape, the facade over it and the runner that    *)
(* drives both, for every value of their constants: every feed, every      *)
(* script, any number of calls that raise and of processes that die, and   *)
(* any recovery.                                                           *)
(*                                                                         *)
(* The first part is about IntentTape alone.  None of its invariants is    *)
(* inductive: the index mirrors the list only while restore brings back a  *)
(* well-formed list, and an invocation gets a fresh event only while the   *)
(* ordinals on the tape are those the counts have handed out.  IInv joins  *)
(* the invariants of the live tape (Live) to the same facts about the      *)
(* checkpoint (SavedOK).                                                   *)
(*                                                                         *)
(* The second part is about StrategyContext.  Every step of the facade is  *)
(* a step of the tape or leaves it alone, so what the first part shows     *)
(* holds under the facade.  CInv adds what relates the two: the book to    *)
(* the events, the scope to the open callback, and the same of the saved   *)
(* pair.                                                                   *)
(*                                                                         *)
(* The third part is about StrategyRunner.  The runner only makes calls    *)
(* the facade and the tape allow, so what is proved of them holds in a     *)
(* run; and the seals of the tape, the bars and rows of the runtime and    *)
(* those of the facade, kept in two checkpoints, stay together (RInv).     *)
(*                                                                         *)
(* The last part is that a run delivers its tape exactly once (DInv).      *)
(***************************************************************************)
EXTENDS StrategyRunner, FiniteSetTheorems, TLAPS

\* No two events of a list have the same key.
KeysDistinct(evs) ==
  \A i, j \in DOMAIN evs : evs[i].key = evs[j].key => i = j

\* The n-th automatic invocation of a command in the open callback was
\* answered with an event of ordinal n - 1.
HandedRight(evs, cnt, hd) ==
  \A c \in Commands :
    /\ Len(hd[c]) = cnt[c]
    /\ \A n \in DOMAIN hd[c] : /\ hd[c][n] < Len(evs)
                               /\ evs[hd[c][n] + 1].key.ordinal = n - 1

Live ==
  /\ TypeOK
  /\ IndexFaithful
  /\ OneIdentity
  /\ HandedRight(events, counts, handed)

\* What is true of an exported state.
SavedOK(st) ==
  /\ st.identity \in Identities
  /\ st.events \in Seq(Events)
  /\ st.ordinals \in Seq(Ordinals)
  /\ st.committed \subseteq Positions \cup BadPositions
  /\ st.callback \in Scopes
  /\ st.counts \in [Commands -> 0..MaxCalls]
  /\ st.handed \in [Commands -> Seq(Nat)]
  /\ Len(st.ordinals) = Len(st.events)
  /\ KeysDistinct(st.events)
  /\ \A i \in DOMAIN st.events :
       /\ st.events[i].sequence = i - 1
       /\ st.events[i].key.ordinal = st.ordinals[i]
       /\ st.events[i].key.series = st.identity.series
       /\ st.events[i].profile = st.identity.profile
  /\ st.keyMap = [k \in KeysIn(st.events) |-> IndexOf(st.events)[k].sequence]
  /\ HandedRight(st.events, st.counts, st.handed)

IInv ==
  /\ Live
  /\ saved # <<>> => saved = <<saved[1]>> /\ SavedOK(saved[1])

-----------------------------------------------------------------------------

LEMMA AppendFacts ==
  ASSUME NEW S, NEW s \in Seq(S), NEW x \in S
  PROVE  /\ Append(s, x) \in Seq(S)
         /\ Len(Append(s, x)) = Len(s) + 1
         /\ DOMAIN Append(s, x) = DOMAIN s \cup {Len(s) + 1}
         /\ \A i \in DOMAIN s : Append(s, x)[i] = s[i]
         /\ Append(s, x)[Len(s) + 1] = x
         /\ Append(s, x) \in [1..(Len(s) + 1) -> S]
         /\ DOMAIN s = 1..Len(s)
<1>1. /\ Append(s, x) \in Seq(S)
      /\ Len(Append(s, x)) = Len(s) + 1
      /\ DOMAIN Append(s, x) = DOMAIN s \cup {Len(s) + 1}
      /\ \A i \in DOMAIN s : Append(s, x)[i] = s[i]
      /\ Append(s, x)[Len(s) + 1] = x
  OBVIOUS
<1>2. \A t \in Seq(S) : t \in [1..Len(t) -> S] /\ DOMAIN t = 1..Len(t)
  OBVIOUS
<1>3. QED
  BY <1>1, <1>2

\* Looking up the key of an event of a list without duplicates finds it.
LEMMA IndexOfFinds ==
  ASSUME NEW evs \in Seq(Events), KeysDistinct(evs)
  PROVE  /\ IndexOf(evs) \in [KeysIn(evs) -> Events]
         /\ KeysIn(evs) \subseteq Keys
         /\ \A i \in DOMAIN evs : IndexOf(evs)[evs[i].key] = evs[i]
<1>1. \A i \in DOMAIN evs : evs[i] \in Events /\ evs[i].key \in Keys
  <2>1. \A i \in DOMAIN evs : evs[i] \in Events
    OBVIOUS
  <2>2. QED
    BY <2>1 DEF Events
<1>2. KeysIn(evs) \subseteq Keys
  BY <1>1 DEF KeysIn
<1>3. ASSUME NEW k \in KeysIn(evs)
      PROVE  /\ (CHOOSE i \in DOMAIN evs : evs[i].key = k) \in DOMAIN evs
             /\ evs[CHOOSE i \in DOMAIN evs : evs[i].key = k].key = k
  BY <1>3 DEF KeysIn
<1>4. IndexOf(evs) \in [KeysIn(evs) -> Events]
  BY <1>1, <1>3 DEF IndexOf
<1>5. ASSUME NEW i \in DOMAIN evs
      PROVE  IndexOf(evs)[evs[i].key] = evs[i]
  <2>1. evs[i].key \in KeysIn(evs)
    BY DEF KeysIn
  <2>2. (CHOOSE j \in DOMAIN evs : evs[j].key = evs[i].key) = i
    BY <1>3, <2>1 DEF KeysDistinct
  <2>3. QED
    BY <2>1, <2>2 DEF IndexOf
<1>6. QED
  BY <1>2, <1>4, <1>5

\* The index of a live tape shows that its keys are distinct.
LEMMA LiveKeysDistinct ==
  ASSUME TypeOK, IndexFaithful
  PROVE  KeysDistinct(events)
<1> SUFFICES ASSUME NEW i \in DOMAIN events, NEW j \in DOMAIN events,
                    events[i].key = events[j].key
             PROVE  i = j
  BY DEF KeysDistinct
<1>1. events[i] = events[j]
  BY DEF IndexFaithful
<1>2. events[i].sequence = i - 1 /\ events[j].sequence = j - 1
  BY DEF IndexFaithful
<1>3. i \in Nat /\ j \in Nat
  BY DEF TypeOK
<1>4. QED
  BY <1>1, <1>2, <1>3

\* The index of a live tape is the one restore would rebuild.
LEMMA LiveIndex ==
  ASSUME TypeOK, IndexFaithful
  PROVE  byKey = IndexOf(events)
<1>1. /\ IndexOf(events) \in [KeysIn(events) -> Events]
      /\ \A i \in DOMAIN events : IndexOf(events)[events[i].key] = events[i]
  BY LiveKeysDistinct, IndexOfFinds DEF TypeOK
<1>2. byKey \in [KeysIn(events) -> Events]
  BY DEF TypeOK, IndexFaithful
<1>3. \A k \in KeysIn(events) : byKey[k] = IndexOf(events)[k]
  BY <1>1 DEF KeysIn, IndexFaithful
<1>4. QED
  BY <1>1, <1>2, <1>3

\* What the two branches of record have in common: the lists only grow, the
\* index keeps mirroring them, and the returned event is the one of the key.
LEMMA DeliverKeeps ==
  ASSUME TypeOK, IndexFaithful, OneIdentity,
         NEW key \in Keys, NEW body \in Bodies,
         key.series = identity.series,
         Deliver(key, body),
         identity' = identity
  PROVE  /\ events' \in Seq(Events)
         /\ ordinals' \in Seq(Ordinals)
         /\ DOMAIN byKey' \subseteq Keys
         /\ byKey' \in [DOMAIN byKey' -> Events]
         /\ IndexFaithful'
         /\ OneIdentity'
         /\ Len(events) <= Len(events')
         /\ \A i \in DOMAIN events : events'[i] = events[i]
         /\ EventFor(key, body).sequence \in Nat
         /\ EventFor(key, body).sequence < Len(events')
         /\ events'[EventFor(key, body).sequence + 1].key = key
<1> DEFINE new == EventFor(key, body)
<1>1. CASE StoreNew(key, body)
  <2>1. /\ key \notin DOMAIN byKey
        /\ events' = Append(events, new)
        /\ ordinals' = Append(ordinals, key.ordinal)
        /\ byKey' = [k \in DOMAIN byKey \cup {key} |->
                       IF k = key THEN new ELSE byKey[k]]
    BY <1>1 DEF StoreNew
  <2>2. new = [key |-> key, profile |-> identity.profile, body |-> body,
               sequence |-> Len(events)]
    BY <2>1 DEF EventFor
  <2>3. events \in Seq(Events) /\ ordinals \in Seq(Ordinals)
    BY DEF TypeOK
  <2>4. new \in Events
    BY <2>2, <2>3 DEF Events, TypeOK, Identities
  <2>5. key.ordinal \in Ordinals
    BY DEF Keys
  <2> HIDE DEF new
  <2>6. /\ events' \in Seq(Events)
        /\ Len(events') = Len(events) + 1
        /\ \A i \in DOMAIN events : events'[i] = events[i]
        /\ events'[Len(events) + 1] = new
        /\ DOMAIN events' = DOMAIN events \cup {Len(events) + 1}
    BY <2>1, <2>3, <2>4
  <2>7. /\ ordinals' \in Seq(Ordinals)
        /\ Len(ordinals') = Len(ordinals) + 1
        /\ \A i \in DOMAIN ordinals : ordinals'[i] = ordinals[i]
        /\ ordinals'[Len(ordinals) + 1] = key.ordinal
    BY <2>1, <2>3, <2>5
  <2>8. /\ DOMAIN byKey' = DOMAIN byKey \cup {key}
        /\ byKey'[key] = new
        /\ \A k \in DOMAIN byKey : byKey'[k] = byKey[k]
    BY <2>1
  <2>9. DOMAIN byKey' \subseteq Keys /\ byKey' \in [DOMAIN byKey' -> Events]
    BY <2>1, <2>4 DEF TypeOK
  <2>10. Len(ordinals) = Len(events) /\ DOMAIN byKey = KeysIn(events)
    BY DEF IndexFaithful
  <2>11. DOMAIN byKey' = KeysIn(events)'
    BY <2>2, <2>6, <2>8, <2>10 DEF KeysIn
  <2>12. ASSUME NEW i \in DOMAIN events'
         PROVE  /\ events'[i].sequence = i - 1
                /\ events'[i].key.ordinal = ordinals'[i]
                /\ byKey'[events'[i].key] = events'[i]
                /\ events'[i].key.series = identity'.series
                /\ events'[i].profile = identity'.profile
    <3>1. CASE i \in DOMAIN events
      <4>1. i \in DOMAIN ordinals /\ events[i].key \in DOMAIN byKey
        BY <2>3, <2>10, <3>1 DEF KeysIn
      <4>2. /\ events[i].sequence = i - 1
            /\ events[i].key.ordinal = ordinals[i]
            /\ byKey[events[i].key] = events[i]
            /\ events[i].key.series = identity.series
            /\ events[i].profile = identity.profile
        BY <3>1 DEF IndexFaithful, OneIdentity
      <4>3. QED
        BY <2>6, <2>7, <2>8, <3>1, <4>1, <4>2
    <3>2. CASE i = Len(events) + 1
      BY <2>2, <2>3, <2>6, <2>7, <2>8, <2>10, <3>2
    <3>3. QED
      BY <2>6, <3>1, <3>2
  <2>13. IndexFaithful' /\ OneIdentity'
    BY <2>6, <2>7, <2>10, <2>11, <2>12 DEF IndexFaithful, OneIdentity
  <2>14. new.sequence = Len(events) /\ new.key = key
    BY <2>2
  <2>15. Len(events) \in Nat
    BY <2>3
  <2>16. QED
    BY <2>6, <2>7, <2>9, <2>13, <2>14, <2>15 DEF new
<1>2. CASE RepeatOld(key, body)
  <2>1. /\ key \in DOMAIN byKey
        /\ byKey[key] = new
        /\ UNCHANGED <<events, ordinals, byKey>>
    BY <1>2 DEF RepeatOld
  <2>2. PICK i \in DOMAIN events : events[i].key = key
    BY <2>1 DEF IndexFaithful, KeysIn
  <2>3. events[i] = new /\ new.sequence = i - 1
    BY <2>1, <2>2 DEF IndexFaithful
  <2>4. i \in 1..Len(events) /\ Len(events) \in Nat
    BY DEF TypeOK
  <2>5. IndexFaithful' /\ OneIdentity'
    BY <2>1 DEF IndexFaithful, OneIdentity, KeysIn
  <2> HIDE DEF new
  <2>6. new.sequence \in Nat /\ new.sequence < Len(events) /\ new.sequence + 1 = i
    BY <2>3, <2>4
  <2>7. QED
    BY <2>1, <2>2, <2>4, <2>5, <2>6 DEF TypeOK, new
<1>3. QED
  BY <1>1, <1>2 DEF Deliver

LEMMA KeyOfScope ==
  ASSUME TapeAssumption, TypeOK,
         NEW place \in Scopes, NEW command \in Commands,
         NEW ordinal \in Nat, ordinal <= MaxOrdinal + MaxCalls
  PROVE  /\ DeliveryKey(place, command, ordinal) \in Keys
         /\ DeliveryKey(place, command, ordinal).series = identity.series
         /\ DeliveryKey(place, command, ordinal).ordinal = ordinal
BY DEF TapeAssumption, TypeOK, Scopes, DeliveryKey, Keys, Ordinals, Identities

LEMMA InitLive ==
  ASSUME TapeAssumption, Init
  PROVE  IInv
<1>1. TypeOK
  BY DEF TapeAssumption, Init, TypeOK, Identities, Scopes, InitialScope,
         NoCounts, NothingHanded
<1>2. IndexFaithful /\ OneIdentity
  BY DEF Init, IndexFaithful, OneIdentity, KeysIn
<1>3. HandedRight(events, counts, handed)
  BY DEF Init, HandedRight, NoCounts, NothingHanded
<1>4. QED
  BY <1>1, <1>2, <1>3 DEF Init, IInv, Live

\* A new tape satisfies what the initial one does; the checkpoint is kept.
LEMMA NewTapeLive ==
  ASSUME TapeAssumption, NewTape
  PROVE  Live'
<1>1. TypeOK'
  BY DEF TapeAssumption, NewTape, TypeOK, Identities, Scopes, InitialScope,
         NoCounts, NothingHanded
<1>2. IndexFaithful' /\ OneIdentity'
  BY DEF NewTape, IndexFaithful, OneIdentity, KeysIn
<1>3. HandedRight(events, counts, handed)'
  BY DEF NewTape, HandedRight, NoCounts, NothingHanded
<1>4. QED
  BY <1>1, <1>2, <1>3 DEF Live

\* An automatic invocation is answered with the event of the next ordinal.
LEMMA RecordAutomaticLive ==
  ASSUME TapeAssumption, Live,
         NEW place \in Scopes, NEW command \in Commands, NEW body \in Bodies,
         RecordAutomatic(place, command, body)
  PROVE  Live'
<1> DEFINE n == counts[command]
           key == DeliveryKey(place, command, n)
           answer == EventFor(key, body).sequence
<1>1. /\ n < MaxCalls
      /\ Deliver(key, body)
      /\ counts' = [counts EXCEPT ![command] = @ + 1]
      /\ handed' = [handed EXCEPT ![command] = Append(@, answer)]
      /\ UNCHANGED <<identity, committed, callback, saved>>
  BY DEF RecordAutomatic
<1>2. /\ n \in Nat /\ n <= MaxOrdinal + MaxCalls
      /\ MaxCalls \in Nat
  BY <1>1 DEF Live, TypeOK, TapeAssumption
<1>3. key \in Keys /\ key.series = identity.series /\ key.ordinal = n
  BY <1>2, KeyOfScope DEF Live
<1> HIDE DEF key, n
<1>4. /\ events' \in Seq(Events)
      /\ ordinals' \in Seq(Ordinals)
      /\ DOMAIN byKey' \subseteq Keys
      /\ byKey' \in [DOMAIN byKey' -> Events]
      /\ IndexFaithful'
      /\ OneIdentity'
      /\ Len(events) <= Len(events')
      /\ \A i \in DOMAIN events : events'[i] = events[i]
      /\ answer \in Nat
      /\ answer < Len(events')
      /\ events'[answer + 1].key = key
  BY <1>1, <1>3, DeliverKeeps DEF Live
<1> HIDE DEF answer
<1>5. /\ counts \in [Commands -> 0..MaxCalls]
      /\ handed \in [Commands -> Seq(Nat)]
      /\ events \in Seq(Events)
  BY DEF Live, TypeOK
<1>6. counts' \in [Commands -> 0..MaxCalls] /\ handed' \in [Commands -> Seq(Nat)]
  <2>1. counts[command] \in Nat /\ counts[command] < MaxCalls /\ MaxCalls \in Nat
    BY <1>1, <1>2 DEF n
  <2>2. counts[command] + 1 \in 0..MaxCalls
    BY <2>1
  <2>3. counts' = [counts EXCEPT ![command] = counts[command] + 1]
    BY <1>1
  <2>4. counts' \in [Commands -> 0..MaxCalls]
    BY <1>5, <2>2, <2>3
  <2>5. handed[command] \in Seq(Nat)
    BY <1>5
  <2>6. Append(handed[command], answer) \in Seq(Nat)
    BY <1>4, <2>5
  <2>7. handed' = [handed EXCEPT ![command] = Append(handed[command], answer)]
    BY <1>1
  <2>8. handed' \in [Commands -> Seq(Nat)]
    BY <1>5, <2>6, <2>7
  <2> QED
    BY <2>4, <2>8
<1>7. TypeOK'
  BY <1>1, <1>4, <1>6 DEF Live, TypeOK
<1>8. ASSUME NEW c \in Commands
      PROVE  /\ Len(handed'[c]) = counts'[c]
             /\ \A m \in DOMAIN handed'[c] :
                  /\ handed'[c][m] < Len(events')
                  /\ events'[handed'[c][m] + 1].key.ordinal = m - 1
  <2>1. /\ Len(handed[c]) = counts[c]
        /\ \A m \in DOMAIN handed[c] :
             /\ handed[c][m] < Len(events)
             /\ events[handed[c][m] + 1].key.ordinal = m - 1
    BY DEF Live, HandedRight
  <2>2. handed[c] \in Seq(Nat) /\ Len(events) \in Nat /\ Len(events') \in Nat
    BY <1>4, <1>5
  <2>3. ASSUME NEW m \in DOMAIN handed[c]
        PROVE  /\ handed[c][m] < Len(events')
               /\ events'[handed[c][m] + 1].key.ordinal = m - 1
    <3>1. handed[c][m] \in Nat
      BY <2>2
    <3>2. handed[c][m] + 1 \in DOMAIN events
      BY <1>5, <2>1, <2>2, <3>1
    <3>3. handed[c][m] < Len(events) /\ Len(events) <= Len(events')
      BY <1>4, <2>1
    <3>4. events'[handed[c][m] + 1] = events[handed[c][m] + 1]
      BY <1>4, <3>2
    <3>5. QED
      BY <2>1, <2>2, <3>1, <3>3, <3>4
  <2>4. CASE c # command
    BY <1>1, <1>5, <2>1, <2>3, <2>4
  <2>5. CASE c = command
    <3>1. handed'[c] = Append(handed[c], answer) /\ counts'[c] = n + 1
      BY <1>1, <1>5, <2>5 DEF n
    <3>2. Len(handed[c]) = n
      BY <2>1, <2>5 DEF n
    <3>3. /\ Len(handed'[c]) = n + 1
          /\ DOMAIN handed'[c] = DOMAIN handed[c] \cup {n + 1}
          /\ \A m \in DOMAIN handed[c] : handed'[c][m] = handed[c][m]
          /\ handed'[c][n + 1] = answer
      <4> DEFINE longer == Append(handed[c], answer)
      <4>1. /\ Len(longer) = Len(handed[c]) + 1
            /\ DOMAIN longer = DOMAIN handed[c] \cup {Len(handed[c]) + 1}
            /\ \A m \in DOMAIN handed[c] : longer[m] = handed[c][m]
            /\ longer[Len(handed[c]) + 1] = answer
        <5>1. handed[c] \in Seq(Nat) /\ answer \in Nat
          BY <1>4, <2>2
        <5>2. QED
          BY ONLY <5>1, AppendFacts
      <4>2. handed'[c] = longer
        BY <3>1
      <4> HIDE DEF longer
      <4>3. QED
        BY <3>2, <4>1, <4>2
    <3>4. QED
      <4>1. ASSUME NEW m \in DOMAIN handed'[c]
            PROVE  /\ handed'[c][m] < Len(events')
                   /\ events'[handed'[c][m] + 1].key.ordinal = m - 1
        <5>1. CASE m \in DOMAIN handed[c]
          BY <2>3, <3>3, <5>1
        <5>2. CASE m = n + 1
          <6>1. handed'[c][m] = answer /\ m - 1 = n
            BY <1>2, <3>3, <5>2
          <6>2. QED
            BY <1>3, <1>4, <6>1
        <5>3. QED
          BY <3>3, <5>1, <5>2
      <4>2. QED
        BY <3>1, <3>3, <4>1
  <2>6. QED
    BY <2>4, <2>5
<1>9. HandedRight(events, counts, handed)'
  BY <1>8 DEF HandedRight
<1>10. QED
  BY <1>4, <1>7, <1>9 DEF Live

\* An explicit ordinal leaves the automatic invocations as they were.
LEMMA RecordExplicitLive ==
  ASSUME TapeAssumption, Live,
         NEW place \in Scopes, NEW command \in Commands, NEW body \in Bodies,
         NEW ordinal \in 0..MaxOrdinal,
         RecordExplicit(place, command, ordinal, body)
  PROVE  Live'
<1> DEFINE key == DeliveryKey(place, command, ordinal)
<1>1. /\ Deliver(key, body)
      /\ UNCHANGED <<identity, committed, callback, counts, saved, handed>>
  BY DEF RecordExplicit
<1>2. key \in Keys /\ key.series = identity.series
  BY KeyOfScope DEF Live, TapeAssumption
<1> HIDE DEF key
<1>3. /\ events' \in Seq(Events)
      /\ ordinals' \in Seq(Ordinals)
      /\ DOMAIN byKey' \subseteq Keys
      /\ byKey' \in [DOMAIN byKey' -> Events]
      /\ IndexFaithful'
      /\ OneIdentity'
      /\ Len(events) <= Len(events')
      /\ \A i \in DOMAIN events : events'[i] = events[i]
  BY <1>1, <1>2, DeliverKeeps DEF Live
<1>4. TypeOK'
  BY <1>1, <1>3 DEF Live, TypeOK
<1>5. ASSUME NEW c \in Commands, NEW m \in DOMAIN handed[c]
      PROVE  /\ handed[c][m] < Len(events')
             /\ events'[handed[c][m] + 1].key.ordinal = m - 1
  <2>1. /\ handed[c][m] < Len(events)
        /\ events[handed[c][m] + 1].key.ordinal = m - 1
    BY DEF Live, HandedRight
  <2>2. handed[c] \in Seq(Nat) /\ events \in Seq(Events)
    BY DEF Live, TypeOK
  <2>3. handed[c][m] \in Nat /\ Len(events) \in Nat /\ Len(events') \in Nat
    BY <1>3, <2>2
  <2>4. handed[c][m] + 1 \in DOMAIN events
    BY <2>1, <2>2, <2>3
  <2>5. QED
    BY <1>3, <2>1, <2>3, <2>4
<1>6. HandedRight(events, counts, handed)'
  BY <1>1, <1>5 DEF Live, HandedRight
<1>7. QED
  BY <1>3, <1>4, <1>6 DEF Live

\* What is exported is well formed.
LEMMA ExportOK ==
  ASSUME Live
  PROVE  SavedOK(Checkpoint)
<1>1. KeysDistinct(events) /\ byKey = IndexOf(events)
  BY LiveKeysDistinct, LiveIndex DEF Live
<1>2. DOMAIN byKey = KeysIn(events)
  BY DEF Live, IndexFaithful
<1>3. Checkpoint.keyMap = [k \in KeysIn(events) |-> IndexOf(events)[k].sequence]
  BY <1>1, <1>2 DEF Checkpoint
<1>4. QED
  BY <1>1, <1>3 DEF SavedOK, Checkpoint, Live, TypeOK, IndexFaithful,
                    OneIdentity

\* Restoring a well-formed checkpoint gives a well-formed tape.
LEMMA RestoreLive ==
  ASSUME Live, SavedOK(saved[1]), RestoreState
  PROVE  Live'
<1> DEFINE st == saved[1]
<1>1. /\ st.identity = identity
      /\ events' = st.events
      /\ ordinals' = st.ordinals
      /\ byKey' = IndexOf(st.events)
      /\ committed' = st.committed
      /\ callback' = st.callback
      /\ counts' = st.counts
      /\ handed' = st.handed
      /\ identity' = identity
  BY DEF RestoreState, Restorable
<1>2. SavedOK(st)
  OBVIOUS
<1> HIDE DEF st
<1>3. /\ st.events \in Seq(Events)
      /\ KeysDistinct(st.events)
  BY <1>2 DEF SavedOK
<1>4. /\ IndexOf(st.events) \in [KeysIn(st.events) -> Events]
      /\ KeysIn(st.events) \subseteq Keys
      /\ \A i \in DOMAIN st.events :
           IndexOf(st.events)[st.events[i].key] = st.events[i]
  BY <1>3, IndexOfFinds
<1>5. TypeOK'
  BY <1>1, <1>2, <1>4 DEF SavedOK, TypeOK, Live
<1>6. KeysIn(events)' = KeysIn(st.events)
  BY <1>1 DEF KeysIn
<1>7. IndexFaithful'
  BY <1>1, <1>2, <1>4, <1>6 DEF SavedOK, IndexFaithful
<1>8. OneIdentity'
  BY <1>1, <1>2 DEF SavedOK, OneIdentity
<1>9. HandedRight(events, counts, handed)'
  BY <1>1, <1>2 DEF SavedOK, HandedRight
<1>10. QED
  BY <1>5, <1>7, <1>8, <1>9 DEF Live

-----------------------------------------------------------------------------

\* Every operation of the tape preserves the invariant.
LEMMA NextKeepsIInv ==
  ASSUME TapeAssumption, IInv, [Next]_vars
  PROVE  IInv'
<1> USE DEF IInv
<1>1. ASSUME NEW id \in Identities, SetSeriesIdentity(id)
      PROVE  IInv'
  <2>1. /\ identity' = id
        /\ events # <<>> => id = identity
        /\ UNCHANGED <<events, ordinals, byKey, committed, callback, counts,
                       handed, saved>>
    BY <1>1 DEF SetSeriesIdentity, tapeVars
  <2>2. TypeOK'
    BY <2>1 DEF Live, TypeOK
  <2>3. IndexFaithful' /\ HandedRight(events, counts, handed)'
    BY <2>1 DEF Live, IndexFaithful, HandedRight, KeysIn
  <2>4. OneIdentity'
    BY <2>1 DEF Live, OneIdentity
  <2>5. QED
    BY <2>1, <2>2, <2>3, <2>4 DEF Live
<1>2. ASSUME NEW place \in Scopes, BeginCallback(place)
      PROVE  IInv'
  <2>1. TypeOK'
    BY <1>2 DEF BeginCallback, Live, TypeOK, NoCounts, NothingHanded,
                TapeAssumption
  <2>2. IndexFaithful' /\ OneIdentity'
    BY <1>2 DEF BeginCallback, Live, IndexFaithful, OneIdentity, KeysIn
  <2>3. HandedRight(events, counts, handed)'
    BY <1>2 DEF BeginCallback, HandedRight, NoCounts, NothingHanded
  <2>4. QED
    BY <1>2, <2>1, <2>2, <2>3 DEF BeginCallback, Live
<1>3. ASSUME NEW pos \in Positions, BeginCallbackNoPhase(pos)
      PROVE  IInv'
  <2>1. TypeOK'
    BY <1>3 DEF BeginCallbackNoPhase, Live, TypeOK, Scopes
  <2>2. /\ IndexFaithful' /\ OneIdentity'
        /\ HandedRight(events, counts, handed)'
    BY <1>3 DEF BeginCallbackNoPhase, Live, IndexFaithful, OneIdentity,
                KeysIn, HandedRight
  <2>3. QED
    BY <1>3, <2>1, <2>2 DEF BeginCallbackNoPhase, Live
<1>4. ASSUME NEW pos \in Positions \cup BadPositions, CommitBar(pos)
      PROVE  IInv'
  <2>1. TypeOK'
    BY <1>4 DEF CommitBar, Live, TypeOK
  <2>2. /\ IndexFaithful' /\ OneIdentity'
        /\ HandedRight(events, counts, handed)'
    BY <1>4 DEF CommitBar, Live, IndexFaithful, OneIdentity, KeysIn,
                HandedRight
  <2>3. QED
    BY <1>4, <2>1, <2>2 DEF CommitBar, Live
<1>5. ASSUME NEW place \in Scopes, NEW command \in Commands,
             NEW body \in Bodies, RecordAutomatic(place, command, body)
      PROVE  IInv'
  BY <1>5, RecordAutomaticLive DEF RecordAutomatic
<1>6. ASSUME NEW place \in Scopes, NEW command \in Commands,
             NEW body \in Bodies, NEW ordinal \in 0..MaxOrdinal,
             RecordExplicit(place, command, ordinal, body)
      PROVE  IInv'
  BY <1>6, RecordExplicitLive DEF RecordExplicit
<1>7. CASE ExportState
  <2>1. UNCHANGED <<identity, tapeVars>> /\ saved' = <<Checkpoint>>
    BY <1>7 DEF ExportState
  <2>2. Live'
    BY <2>1 DEF tapeVars, Live, TypeOK, IndexFaithful, OneIdentity, KeysIn,
                HandedRight
  <2>3. QED
    BY <2>1, <2>2, ExportOK
<1>8. CASE RestoreState
  BY <1>8, RestoreLive DEF RestoreState
<1>9. CASE NewTape
  BY <1>9, NewTapeLive DEF NewTape
<1>10. CASE UNCHANGED vars
  BY <1>10 DEF vars, tapeVars, Live, TypeOK, IndexFaithful, OneIdentity,
               KeysIn, HandedRight
<1>11. QED
  BY <1>1, <1>2, <1>3, <1>4, <1>5, <1>6, <1>7, <1>8, <1>9, <1>10 DEF Next

\* The inductive invariant holds throughout.
THEOREM Inductive == Spec => []IInv
<1>1. Init => IInv
  BY InitLive, TapeAssumption
<1>2. IInv /\ [Next]_vars => IInv'
  BY NextKeepsIInv, TapeAssumption
<1>3. QED
  BY <1>1, <1>2, PTL DEF Spec

\* Every variable of the tape keeps its type (the state intent_tape.py
\* declares in __init__).
THEOREM TypeCorrect == Spec => []TypeOK
<1>1. IInv => TypeOK
  BY DEF IInv, Live
<1>2. QED
  BY <1>1, Inductive, PTL

\* The idempotency index, the event list and the ordinal list agree after any
\* sequence of records, repeats, exports, restores and new tapes.
THEOREM IndexCorrect == Spec => []IndexFaithful
<1>1. IInv => IndexFaithful
  BY DEF IInv, Live
<1>2. QED
  BY <1>1, Inductive, PTL

\* No event of another identity is ever on the tape.
THEOREM IdentityCorrect == Spec => []OneIdentity
<1>1. IInv => OneIdentity
  BY DEF IInv, Live
<1>2. QED
  BY <1>1, Inductive, PTL

\* Automatic invocations of a command in a callback get distinct events.
THEOREM InvocationsDistinct == Spec => []DistinctInvocations
<1>1. ASSUME IInv
      PROVE  DistinctInvocations
  <2> SUFFICES ASSUME NEW c \in Commands,
                      NEW m \in DOMAIN handed[c], NEW n \in DOMAIN handed[c],
                      handed[c][m] = handed[c][n]
               PROVE  m = n
    BY DEF DistinctInvocations
  <2>1. /\ events[handed[c][m] + 1].key.ordinal = m - 1
        /\ events[handed[c][n] + 1].key.ordinal = n - 1
    BY <1>1 DEF IInv, Live, HandedRight
  <2>2. handed[c] \in Seq(Nat)
    BY <1>1 DEF IInv, Live, TypeOK
  <2>3. m \in Nat /\ n \in Nat
    BY <2>2
  <2>4. QED
    BY <2>1, <2>3
<1>2. QED
  BY <1>1, Inductive, PTL

\* restore_state accepts whatever export_state produced under this identity.
THEOREM ExportsRestorable == Spec => []ExportRestorable
<1>1. ASSUME IInv
      PROVE  ExportRestorable
  <2> SUFFICES ASSUME saved # <<>>, saved[1].identity = identity,
                      saved[1].committed \cap BadPositions = {}
               PROVE  Restorable(saved[1])
    BY DEF ExportRestorable
  <2> DEFINE st == saved[1]
  <2>1. SavedOK(st) /\ st.identity = identity /\ st.committed \cap BadPositions = {}
    BY <1>1 DEF IInv
  <2> HIDE DEF st
  <2>2. st.committed \subseteq Positions
    BY <2>1 DEF SavedOK
  <2>3. ASSUME NEW i \in DOMAIN st.events
        PROVE  /\ st.events[i].sequence = i - 1
               /\ st.events[i].profile = identity.profile
               /\ st.events[i].key = DeliveryKey(st.events[i].key,
                    st.events[i].key.command, st.ordinals[i])
               /\ \A j \in 1..(i - 1) : st.events[j].key # st.events[i].key
    <3>1. /\ st.events[i].sequence = i - 1
          /\ st.events[i].profile = identity.profile
          /\ st.events[i].key.ordinal = st.ordinals[i]
          /\ st.events[i].key.series = identity.series
      BY <2>1 DEF SavedOK
    <3>2. st.events \in Seq(Events) /\ KeysDistinct(st.events)
      BY <2>1 DEF SavedOK
    <3>3. i \in 1..Len(st.events) /\ Len(st.events) \in Nat
      BY <3>2
    <3>4. st.events[i] \in Events
      BY <3>2
    <3>5. st.events[i].key \in Keys
      BY <3>4 DEF Events
    <3>6. st.events[i].key = DeliveryKey(st.events[i].key,
                    st.events[i].key.command, st.ordinals[i])
      BY <3>1, <3>5 DEF Keys, DeliveryKey
    <3>7. \A j \in 1..(i - 1) : j \in DOMAIN st.events /\ j # i
      BY <3>2, <3>3
    <3>8. QED
      BY <3>1, <3>2, <3>6, <3>7 DEF KeysDistinct
  <2>4. Restorable(st)
    BY <2>1, <2>2, <2>3 DEF Restorable, SavedOK
  <2>5. QED
    BY <2>4 DEF st
<1>2. QED
  BY <1>1, Inductive, PTL

-----------------------------------------------------------------------------

\* What one call of record does to the events already there.
LEMMA RecordGrows ==
  ASSUME TapeAssumption, IInv,
         NEW place \in Scopes, NEW command \in Commands, NEW body \in Bodies,
         NEW ordinal \in Nat, ordinal <= MaxOrdinal + MaxCalls,
         place.pos \notin committed,
         Deliver(DeliveryKey(place, command, ordinal), body),
         identity' = identity
  PROVE  /\ Len(events) <= Len(events')
         /\ \A i \in DOMAIN events : events'[i] = events[i]
         /\ \A pos \in committed : EventsAt(pos)' = EventsAt(pos)
<1> DEFINE key == DeliveryKey(place, command, ordinal)
<1>1. key \in Keys /\ key.series = identity.series /\ key.pos = place.pos
  BY KeyOfScope DEF IInv, Live, DeliveryKey
<1>2. Deliver(key, body)
  OBVIOUS
<1> HIDE DEF key
<1>3. /\ events' \in Seq(Events)
      /\ Len(events) <= Len(events')
      /\ \A i \in DOMAIN events : events'[i] = events[i]
  BY <1>1, <1>2, DeliverKeeps DEF IInv, Live
<1>4. ASSUME NEW pos \in committed
      PROVE  EventsAt(pos)' = EventsAt(pos)
  <2>1. CASE RepeatOld(key, body)
    BY <2>1 DEF RepeatOld, EventsAt
  <2>2. CASE StoreNew(key, body)
    <3>1. /\ events' = Append(events, EventFor(key, body))
          /\ key \notin DOMAIN byKey
          /\ events \in Seq(Events)
      BY <2>2 DEF StoreNew, IInv, Live, TypeOK
    <3>2. EventFor(key, body).key = key
      BY DEF EventFor
    <3>3. /\ DOMAIN events' = DOMAIN events \cup {Len(events) + 1}
          /\ events'[Len(events) + 1].key = key
      BY <1>3, <3>1, <3>2
    <3>4. key.pos # pos
      BY <1>1
    <3>5. {j \in DOMAIN events' : events'[j].key.pos = pos}
            = {j \in DOMAIN events : events[j].key.pos = pos}
      BY <1>3, <3>3, <3>4
    <3>6. QED
      BY <1>3, <3>5 DEF EventsAt
  <2>3. QED
    BY <1>2, <2>1, <2>2 DEF Deliver
<1>5. QED
  BY <1>3, <1>4

\* Every step that is not a replacement of the tape only adds to it.
LEMMA StepGrows ==
  ASSUME TapeAssumption, IInv, [Next]_vars, ~Replaced
  PROVE  /\ Len(events) <= Len(events')
         /\ \A i \in DOMAIN events : events'[i] = events[i]
         /\ committed \subseteq committed'
         /\ \A pos \in committed : EventsAt(pos)' = EventsAt(pos)
<1>1. Len(events) \in Nat
  BY DEF IInv, Live, TypeOK
<1>2. CASE UNCHANGED <<events, committed>>
  BY <1>1, <1>2 DEF EventsAt
<1>3. ASSUME NEW pos \in Positions \cup BadPositions, CommitBar(pos)
      PROVE  UNCHANGED events /\ committed \subseteq committed'
  BY <1>3 DEF CommitBar
<1>4. ASSUME UNCHANGED events, committed \subseteq committed'
      PROVE  /\ Len(events) <= Len(events')
             /\ \A i \in DOMAIN events : events'[i] = events[i]
             /\ committed \subseteq committed'
             /\ \A pos \in committed : EventsAt(pos)' = EventsAt(pos)
  BY <1>1, <1>4 DEF EventsAt
<1>5. ASSUME NEW place \in Scopes, NEW command \in Commands,
             NEW body \in Bodies, RecordAutomatic(place, command, body)
      PROVE  /\ Len(events) <= Len(events')
             /\ \A i \in DOMAIN events : events'[i] = events[i]
             /\ committed \subseteq committed'
             /\ \A pos \in committed : EventsAt(pos)' = EventsAt(pos)
  <2>1. counts[command] \in Nat /\ counts[command] <= MaxOrdinal + MaxCalls
    BY DEF IInv, Live, TypeOK, TapeAssumption
  <2>2. /\ place.pos \notin committed
        /\ Deliver(DeliveryKey(place, command, counts[command]), body)
        /\ UNCHANGED <<identity, committed>>
    BY <1>5 DEF RecordAutomatic
  <2>3. QED
    BY <2>1, <2>2, RecordGrows
<1>6. ASSUME NEW place \in Scopes, NEW command \in Commands,
             NEW body \in Bodies, NEW ordinal \in 0..MaxOrdinal,
             RecordExplicit(place, command, ordinal, body)
      PROVE  /\ Len(events) <= Len(events')
             /\ \A i \in DOMAIN events : events'[i] = events[i]
             /\ committed \subseteq committed'
             /\ \A pos \in committed : EventsAt(pos)' = EventsAt(pos)
  <2>1. ordinal \in Nat /\ ordinal <= MaxOrdinal + MaxCalls
    BY DEF TapeAssumption
  <2>2. /\ place.pos \notin committed
        /\ Deliver(DeliveryKey(place, command, ordinal), body)
        /\ UNCHANGED <<identity, committed>>
    BY <1>6 DEF RecordExplicit
  <2>3. QED
    BY <2>1, <2>2, RecordGrows
<1>7. QED
  BY <1>2, <1>3, <1>4, <1>5, <1>6
  DEF Replaced, Next, SetSeriesIdentity, BeginCallback, BeginCallbackNoPhase,
      ExportState, vars, tapeVars

\* The events of a committed bar never change while the tape lives.
THEOREM SealsHold == Spec => SealedBarsFrozen
<1>1. IInv /\ [Next]_vars
        => [\A pos \in committed : Replaced \/ EventsAt(pos)' = EventsAt(pos)]_vars
  BY StepGrows, TapeAssumption
<1>2. QED
  BY <1>1, Inductive, PTL DEF Spec, SealedBarsFrozen

\* The tape only ever grows while it lives.
THEOREM TapeGrows == Spec => AppendOnly
<1>1. IInv /\ [Next]_vars
        => [Replaced \/ /\ Len(events) <= Len(events')
                        /\ \A i \in DOMAIN events : events'[i] = events[i]
                        /\ committed \subseteq committed']_vars
  BY StepGrows, TapeAssumption
<1>2. QED
  BY <1>1, Inductive, PTL DEF Spec, AppendOnly

-----------------------------------------------------------------------------

\* The keys of the log are the keys of the index.
LEMMA LogKeys ==
  ASSUME IInv
  PROVE  Log!KeysOf(EntriesOf(events)) = DOMAIN byKey
BY DEF IInv, Live, IndexFaithful, Log!KeysOf, EntriesOf, KeysIn

\* A record is an append to the log, or repeats what the log holds.
LEMMA RecordRefines ==
  ASSUME TapeAssumption, IInv,
         NEW place \in Scopes, NEW command \in Commands, NEW body \in Bodies,
         NEW ordinal \in Nat, ordinal <= MaxOrdinal + MaxCalls,
         place.pos \notin committed,
         Deliver(DeliveryKey(place, command, ordinal), body),
         UNCHANGED <<committed, saved>>
  PROVE  [Log!LogNext]_(Log!logVars)
<1> DEFINE key == DeliveryKey(place, command, ordinal)
           content == [profile |-> identity.profile, body |-> body]
<1>1. key \in Keys /\ key.pos \notin committed
  BY KeyOfScope DEF IInv, Live, DeliveryKey
<1>2. Deliver(key, body)
  OBVIOUS
<1>3. content \in [profile : Profiles, body : Bodies]
  BY DEF IInv, Live, TypeOK, Identities
<1> HIDE DEF key
<1>4. CASE RepeatOld(key, body)
  BY <1>4 DEF RepeatOld, Log!logVars
<1>5. CASE StoreNew(key, body)
  <2>1. /\ key \notin DOMAIN byKey
        /\ events' = Append(events, EventFor(key, body))
        /\ events \in Seq(Events)
    BY <1>5 DEF StoreNew, IInv, Live, TypeOK
  <2>2. /\ EventFor(key, body).key = key
        /\ EventFor(key, body).profile = identity.profile
        /\ EventFor(key, body).body = body
    BY DEF EventFor
  <2>3. EntriesOf(events') = Append(EntriesOf(events),
                                    [key |-> key, content |-> content])
    <3> DEFINE new == EventFor(key, body)
    <3>1. new \in Events
      BY <1>1, <2>1 DEF EventFor, Events, IInv, Live, TypeOK, Identities
    <3>2. /\ EntriesOf(events) \in Seq(Log!Entries)
          /\ Len(EntriesOf(events)) = Len(events)
      <4>1. \A i \in 1..Len(events) : events[i] \in Events
        BY <2>1
      <4>2. EntriesOf(events) \in [1..Len(events) -> Log!Entries]
        BY <2>1, <4>1 DEF EntriesOf, Log!Entries, Events
      <4>3. Len(events) \in Nat
        BY <2>1
      <4> HIDE DEF new
      <4>4. QED
        BY <4>2, <4>3
    <3> HIDE DEF new
    <3>3. /\ DOMAIN Append(events, new) = 1..(Len(events) + 1)
          /\ \A i \in 1..Len(events) : Append(events, new)[i] = events[i]
          /\ Append(events, new)[Len(events) + 1] = new
      BY <2>1, <3>1
    <3> DEFINE entry == [key |-> key, content |-> content]
               before == EntriesOf(events)
    <3>4. entry \in Log!Entries
      BY <1>1, <1>3 DEF Log!Entries
    <3>5. /\ new.key = key
          /\ [profile |-> new.profile, body |-> new.body] = content
      BY <2>2 DEF new
    <3>6. \A i \in 1..Len(events) :
            before[i] = [key |-> events[i].key,
                         content |-> [profile |-> events[i].profile,
                                      body |-> events[i].body]]
      BY <2>1 DEF EntriesOf
    <3>7. /\ EntriesOf(events') \in [1..(Len(events) + 1) -> Log!Entries]
          /\ \A i \in 1..Len(events) : EntriesOf(events')[i] = before[i]
          /\ EntriesOf(events')[Len(events) + 1] = entry
      <4>1. EntriesOf(Append(events, new)) =
              [i \in 1..(Len(events) + 1) |->
                 [key |-> Append(events, new)[i].key,
                  content |-> [profile |-> Append(events, new)[i].profile,
                               body |-> Append(events, new)[i].body]]]
        BY <3>3 DEF EntriesOf
      <4>2. Len(events) \in Nat /\ \A i \in 1..Len(events) : events[i] \in Events
        BY <2>1
      <4>3. \A i \in 1..(Len(events) + 1) : Append(events, new)[i] \in Events
        BY <3>1, <3>3, <4>2
      <4>4. events' = Append(events, new)
        BY <2>1 DEF new
      <4> HIDE DEF before, content
      <4>5. \A i \in 1..Len(events) : EntriesOf(events')[i] = before[i]
        <5> TAKE i \in 1..Len(events)
        <5>1. i \in 1..(Len(events) + 1) /\ Append(events, new)[i] = events[i]
          BY <3>3, <4>2
        <5>2. EntriesOf(Append(events, new))[i] =
                [key |-> events[i].key,
                 content |-> [profile |-> events[i].profile,
                              body |-> events[i].body]]
          BY <4>1, <5>1
        <5>3. QED
          BY <3>6, <4>4, <5>2
      <4>6. EntriesOf(events')[Len(events) + 1] = entry
        BY <3>3, <3>5, <4>1, <4>2, <4>4
      <4>7. EntriesOf(events') \in [1..(Len(events) + 1) -> Log!Entries]
        BY <4>1, <4>3, <4>4 DEF Log!Entries, Events
      <4>8. QED
        BY <4>5, <4>6, <4>7
    <3> HIDE DEF entry, before
    <3>8. /\ Append(before, entry) \in [1..(Len(events) + 1) -> Log!Entries]
          /\ \A i \in 1..Len(events) : Append(before, entry)[i] = before[i]
          /\ Append(before, entry)[Len(events) + 1] = entry
      <4>1. /\ before \in Seq(Log!Entries)
            /\ Len(before) = Len(events)
        BY <3>2 DEF before
      <4>2. /\ Append(before, entry) \in [1..(Len(before) + 1) -> Log!Entries]
            /\ \A i \in DOMAIN before : Append(before, entry)[i] = before[i]
            /\ Append(before, entry)[Len(before) + 1] = entry
            /\ DOMAIN before = 1..Len(before)
        BY ONLY <3>4, <4>1, AppendFacts
      <4>3. QED
        BY ONLY <4>1, <4>2
    <3>9. Len(events) \in Nat
      BY <2>1
    <3>10. \A i \in 1..(Len(events) + 1) :
             EntriesOf(events')[i] = Append(before, entry)[i]
      BY <3>7, <3>8, <3>9
    <3>11. EntriesOf(events') = Append(before, entry)
      BY <3>7, <3>8, <3>10
    <3>12. QED
      BY <3>11 DEF before, entry
  <2>4. key \notin Log!KeysOf(EntriesOf(events))
    BY <2>1, LogKeys
  <2>5. Log!Append1(key, content)
    BY <1>1, <2>3, <2>4 DEF Log!Append1
  <2>6. QED
    BY <1>1, <1>3, <2>5 DEF Log!LogNext
<1>6. QED
  BY <1>2, <1>4, <1>5 DEF Deliver

\* Every step of the tape is a step of the exactly-once log or changes none
\* of what the log shows.
LEMMA StepRefines ==
  ASSUME TapeAssumption, IInv, [Next]_vars
  PROVE  [Log!LogNext]_(Log!logVars)
<1>1. CASE UNCHANGED <<events, committed, saved>>
  BY <1>1 DEF Log!logVars
<1>2. ASSUME NEW pos \in Positions \cup BadPositions, CommitBar(pos)
      PROVE  [Log!LogNext]_(Log!logVars)
  <2>1. Log!Seal(pos)
    BY <1>2 DEF CommitBar, Log!Seal
  <2>2. QED
    BY <2>1 DEF Log!LogNext
<1>3. ASSUME NEW place \in Scopes, NEW command \in Commands,
             NEW body \in Bodies, RecordAutomatic(place, command, body)
      PROVE  [Log!LogNext]_(Log!logVars)
  <2>1. counts[command] \in Nat /\ counts[command] <= MaxOrdinal + MaxCalls
    BY DEF IInv, Live, TypeOK, TapeAssumption
  <2>2. /\ place.pos \notin committed
        /\ Deliver(DeliveryKey(place, command, counts[command]), body)
        /\ UNCHANGED <<committed, saved>>
    BY <1>3 DEF RecordAutomatic
  <2>3. QED
    BY <2>1, <2>2, RecordRefines
<1>4. ASSUME NEW place \in Scopes, NEW command \in Commands,
             NEW body \in Bodies, NEW ordinal \in 0..MaxOrdinal,
             RecordExplicit(place, command, ordinal, body)
      PROVE  [Log!LogNext]_(Log!logVars)
  <2>1. ordinal \in Nat /\ ordinal <= MaxOrdinal + MaxCalls
    BY DEF TapeAssumption
  <2>2. /\ place.pos \notin committed
        /\ Deliver(DeliveryKey(place, command, ordinal), body)
        /\ UNCHANGED <<committed, saved>>
    BY <1>4 DEF RecordExplicit
  <2>3. QED
    BY <2>1, <2>2, RecordRefines
<1>5. CASE ExportState
  <2>1. Log!Keep
    BY <1>5 DEF ExportState, Checkpoint, tapeVars, Log!Keep
  <2>2. QED
    BY <2>1 DEF Log!LogNext
<1>6. CASE RestoreState
  <2>1. Log!RollBack
    BY <1>6 DEF RestoreState, Log!RollBack, IInv
  <2>2. QED
    BY <2>1 DEF Log!LogNext
<1>7. CASE NewTape
  <2>1. Log!StartOver
    BY <1>7 DEF NewTape, EntriesOf, Log!StartOver
  <2>2. QED
    BY <2>1 DEF Log!LogNext
<1>8. QED
  BY <1>1, <1>2, <1>3, <1>4, <1>5, <1>6, <1>7
  DEF Next, SetSeriesIdentity, BeginCallback, BeginCallbackNoPhase, vars,
      tapeVars

\* The tape implements IntentLog: every delivery enters the log exactly once.
THEOREM TapeImplementsLog == Spec => ImplementsLog
<1>1. Init => Log!LogInit
  BY DEF Init, Log!LogInit, EntriesOf
<1>2. IInv /\ [Next]_vars => [Log!LogNext]_(Log!logVars)
  BY StepRefines, TapeAssumption
<1>3. QED
  BY <1>1, <1>2, Inductive, PTL DEF Spec, ImplementsLog, Log!LogSpec

-----------------------------------------------------------------------------

Ids == {c.id : c \in Commands}
Orders == [id : Ids, status : {"pending", "cancelled"}]

Told(evs, kind) ==
  {evs[i].key.command.id : i \in {j \in DOMAIN evs : evs[j].key.command.kind = kind}}

CancelOn(evs, id) ==
  \E j \in DOMAIN evs :
    \/ evs[j].key.command.kind = "cancel_all"
    \/ evs[j].key.command.kind = "cancel" /\ evs[j].key.command.id = id

BookOK(evs, pend, rls) ==
  /\ pend \in Seq(Orders)
  /\ rls \in Seq(Ids)
  /\ {pend[i].id : i \in DOMAIN pend} = Told(evs, "order")
  /\ {rls[i] : i \in DOMAIN rls} = Told(evs, "risk")
  /\ \A i \in DOMAIN pend : pend[i].status = "cancelled" => CancelOn(evs, pend[i].id)

ScopeOK(own, opened) ==
  own.phase \in Phases /\ own.recalc \geq 0 =>
    own = [phase |-> opened.phase, recalc |-> opened.recalc]

SavedPairOK(state, context) ==
  /\ state.committed \subseteq Positions
  /\ BookOK(state.events, context.pending, context.rules)
  /\ ScopeOK(context.scope, state.callback)

CInv ==
  /\ committed \subseteq Positions
  /\ BookOK(events, pending, rules)
  /\ ScopeOK(scope, callback)
  /\ savedContext # <<>> => saved # <<>> /\ SavedPairOK(saved[1], savedContext[1])

-----------------------------------------------------------------------------
(* The facade on the tape *)

\* Every call that changes the book records its intent.
LEMMA SubmitRecords ==
  ASSUME NEW pos, NEW command, NEW body, Submit(pos, command, body)
  PROVE  RecordIntent(pos, command, body)
BY DEF Submit, PlaceOrder, CancelOrder, CancelAll, AddRiskRule

\* A step of the facade is a step of the tape, or leaves the tape alone.
LEMMA StepOnTape ==
  ASSUME TapeAssumption, [ContextNext]_allVars
  PROVE  [Next]_vars
<1>1. ASSUME NEW id \in Identities, AttachRuntime(id)
      PROVE  Next
  BY <1>1 DEF AttachRuntime, Next
<1>2. ASSUME NEW pos \in Positions, NEW phase \in Phases, NEW recalc \in 0..MaxRecalc,
             BeginIntentCallback(pos, phase, recalc)
      PROVE  Next
  <2>1. [pos |-> pos, phase |-> phase, recalc |-> recalc] \in Scopes
    BY DEF Scopes
  <2>2. QED
    BY <1>2, <2>1 DEF BeginIntentCallback, Next
<1>3. ASSUME NEW pos \in Positions, BeginIntentNoPhase(pos)
      PROVE  Next
  BY <1>3 DEF BeginIntentNoPhase, Next
<1>4. ASSUME NEW pos \in Positions, CommitIntents(pos)
      PROVE  Next
  BY <1>4 DEF CommitIntents, Next
<1>5. ASSUME NEW pos \in Positions, NEW command \in Commands, NEW body \in Bodies,
             Submit(pos, command, body)
      PROVE  Next
  <2>1. TapeScope(pos) \in Scopes /\ RecordAutomatic(TapeScope(pos), command, body)
    BY <1>5, SubmitRecords DEF RecordIntent
  <2>2. QED
    BY <2>1 DEF Next
<1>6. ASSUME NEW phase \in Phases, BeginIntentBadRecalc(phase)
      PROVE  UNCHANGED vars
  BY <1>6 DEF BeginIntentBadRecalc
<1>7. ASSUME NEW n \in Counts, SetClosedTrades(n)
      PROVE  UNCHANGED vars
  BY <1>7 DEF SetClosedTrades
<1>8. CASE CommitScalarHistory
  BY <1>8 DEF CommitScalarHistory
<1>9. CASE ExportStrategy
  BY <1>9 DEF ExportStrategy, Next
<1>10. CASE RestoreStrategy
  BY <1>10 DEF RestoreStrategy, Next
<1>11. CASE NewContext
  BY <1>11 DEF NewContext, Next
<1>12. CASE UNCHANGED allVars
  BY <1>12 DEF allVars
<1>13. QED
  BY <1>1, <1>2, <1>3, <1>4, <1>5, <1>6, <1>7, <1>8, <1>9, <1>10, <1>11, <1>12
     DEF ContextNext

\* The facade implements the tape: whatever is called on it, also calls that
\* fail half way, rollbacks and restarts, the tape sees one of its own steps.
THEOREM FacadeImplementsTape == ContextSpec => Spec
<1>1. ContextInit => Init
  BY DEF ContextInit
<1>2. [ContextNext]_allVars => [Next]_vars
  BY StepOnTape, TapeAssumption
<1>3. QED
  BY <1>1, <1>2, PTL DEF ContextSpec, Spec

-----------------------------------------------------------------------------
(* The book *)

\* An accepted intent leaves the events there are, and what is new is its own.
LEMMA RecordAdds ==
  ASSUME TapeAssumption, IInv, NEW pos \in Positions, NEW command \in Commands,
         NEW body \in Bodies, RecordIntent(pos, command, body)
  PROVE  /\ \A i \in DOMAIN events : i \in DOMAIN events' /\ events'[i] = events[i]
         /\ \A i \in DOMAIN events' \ DOMAIN events : events'[i].key.command = command
         /\ \E i \in DOMAIN events' : events'[i].key.command = command
         /\ UNCHANGED <<committed, callback, saved>>
<1> DEFINE key == DeliveryKey(TapeScope(pos), command, counts[command])
<1>1. Deliver(key, body) /\ UNCHANGED <<committed, callback, saved>>
  BY DEF RecordIntent, RecordAutomatic
<1>2. key.command = command
  BY DEF DeliveryKey
<1> HIDE DEF key
<1>3. events \in Seq(Events)
  BY DEF IInv, Live, TypeOK
<1>4. CASE RepeatOld(key, body)
  <2>1. key \in KeysIn(events) /\ events' = events
    BY <1>4 DEF RepeatOld, IInv, Live, IndexFaithful
  <2>2. QED
    BY <1>1, <1>2, <2>1 DEF KeysIn
<1>5. CASE StoreNew(key, body)
  <2> DEFINE event == EventFor(key, body)
  <2>1. events' = Append(events, event) /\ event.key = key
    BY <1>5 DEF StoreNew, EventFor
  <2> HIDE DEF event
  <2>2. /\ DOMAIN events' = DOMAIN events \cup {Len(events) + 1}
        /\ \A i \in DOMAIN events : events'[i] = events[i]
        /\ events'[Len(events) + 1] = event
    BY <1>3, <2>1
  <2>3. QED
    BY <1>1, <1>2, <2>1, <2>2
<1>6. QED
  BY <1>1, <1>4, <1>5 DEF Deliver

\* What the tape tells of orders, rules and cancels after an accepted intent.
LEMMA RecordedGrows ==
  ASSUME TapeAssumption, IInv, NEW pos \in Positions, NEW command \in Commands,
         NEW body \in Bodies, RecordIntent(pos, command, body)
  PROVE  /\ \A kind : Told(events', kind) =
              IF command.kind = kind THEN Told(events, kind) \cup {command.id}
                                     ELSE Told(events, kind)
         /\ \A id : CancelOn(events, id) => CancelOn(events', id)
         /\ command.kind = "cancel" => CancelOn(events', command.id)
         /\ command.kind = "cancel_all" => \A id : CancelOn(events', id)
<1>1. /\ \A i \in DOMAIN events : i \in DOMAIN events' /\ events'[i] = events[i]
      /\ \A i \in DOMAIN events' : i \notin DOMAIN events => events'[i].key.command = command
      /\ \E i \in DOMAIN events' : events'[i].key.command = command
  BY RecordAdds
<1>2. ASSUME NEW kind
      PROVE  Told(events', kind) =
              IF command.kind = kind THEN Told(events, kind) \cup {command.id}
                                     ELSE Told(events, kind)
  <2>1. ASSUME NEW id
        PROVE  id \in Told(events, kind)
                 <=> \E i \in DOMAIN events : events[i].key.command.kind = kind
                                              /\ events[i].key.command.id = id
    BY DEF Told
  <2>2. ASSUME NEW id
        PROVE  id \in Told(events', kind)
                 <=> \E i \in DOMAIN events' : events'[i].key.command.kind = kind
                                               /\ events'[i].key.command.id = id
    BY DEF Told
  <2>3. ASSUME NEW id
        PROVE  id \in Told(events', kind)
                 <=> \/ id \in Told(events, kind)
                     \/ command.kind = kind /\ id = command.id
    <3>1. CASE id \in Told(events, kind)
      BY <1>1, <2>1, <2>2, <3>1
    <3>2. CASE command.kind = kind /\ id = command.id
      BY <1>1, <2>2, <3>2
    <3>3. ASSUME id \in Told(events', kind)
          PROVE  \/ id \in Told(events, kind)
                 \/ command.kind = kind /\ id = command.id
      <4>1. PICK i \in DOMAIN events' : events'[i].key.command.kind = kind
                                        /\ events'[i].key.command.id = id
        BY <2>2, <3>3
      <4>2. QED
        BY <1>1, <2>1, <4>1
    <3>4. QED
      BY <3>1, <3>2, <3>3
  <2>4. QED
    BY <2>3
<1>3. QED
  BY <1>1, <1>2 DEF CancelOn

\* An append adds its element to the elements of a sequence.
LEMMA AppendedImage ==
  ASSUME NEW S, NEW s \in Seq(S), NEW x \in S
  PROVE  {Append(s, x)[i] : i \in DOMAIN Append(s, x)} = {s[i] : i \in DOMAIN s} \cup {x}
<1>1. /\ DOMAIN Append(s, x) = DOMAIN s \cup {Len(s) + 1}
      /\ \A i \in DOMAIN s : Append(s, x)[i] = s[i]
      /\ Append(s, x)[Len(s) + 1] = x
  BY AppendFacts
<1> DEFINE t == Append(s, x)
           last == Len(s) + 1
<1> HIDE DEF t, last
<1>2. DOMAIN t = DOMAIN s \cup {last} /\ (\A i \in DOMAIN s : t[i] = s[i]) /\ t[last] = x
  BY <1>1 DEF t, last
<1>3. {t[i] : i \in DOMAIN t} = {s[i] : i \in DOMAIN s} \cup {x}
  BY <1>2
<1>4. QED
  BY <1>3 DEF t

\* An order enters the book with its intent.
LEMMA PlacedBook ==
  ASSUME NEW evs, NEW evs2, NEW pend, NEW rls, BookOK(evs, pend, rls),
         NEW id \in Ids,
         Told(evs2, "order") = Told(evs, "order") \cup {id},
         Told(evs2, "risk") = Told(evs, "risk"),
         \A x : CancelOn(evs, x) => CancelOn(evs2, x)
  PROVE  BookOK(evs2, Append(pend, [id |-> id, status |-> "pending"]), rls)
<1> DEFINE order == [id |-> id, status |-> "pending"]
           to == Append(pend, order)
           last == Len(pend) + 1
<1>1. order \in Orders /\ order.id = id /\ order.status = "pending"
  BY DEF Orders
<1> HIDE DEF order
<1>2. pend \in Seq(Orders)
  BY DEF BookOK
<1>3. /\ to \in Seq(Orders)
      /\ DOMAIN to = DOMAIN pend \cup {last}
      /\ \A i \in DOMAIN pend : to[i] = pend[i]
      /\ to[last] = order
  BY <1>1, <1>2, AppendFacts
<1> HIDE DEF to, last
<1>4. {to[i].id : i \in DOMAIN to} = {pend[i].id : i \in DOMAIN pend} \cup {id}
  BY <1>1, <1>3
<1>5. ASSUME NEW i \in DOMAIN to, to[i].status = "cancelled"
      PROVE  CancelOn(evs2, to[i].id)
  <2>1. i \in DOMAIN pend
    BY <1>1, <1>3, <1>5
  <2>2. QED
    BY <1>3, <1>5, <2>1 DEF BookOK
<1>6. BookOK(evs2, to, rls)
  BY <1>3, <1>4, <1>5, Zenon DEF BookOK
<1>7. QED
  BY <1>6 DEF to, order

\* Cancelling changes the status of orders and nothing else.
LEMMA CancelledBook ==
  ASSUME NEW evs, NEW evs2, NEW pend, NEW rls, BookOK(evs, pend, rls),
         NEW to \in [DOMAIN pend -> Orders],
         Told(evs2, "order") = Told(evs, "order"),
         Told(evs2, "risk") = Told(evs, "risk"),
         \A x : CancelOn(evs, x) => CancelOn(evs2, x),
         \A i \in DOMAIN pend : /\ to[i].id = pend[i].id
                                /\ to[i] = pend[i] \/ CancelOn(evs2, pend[i].id)
  PROVE  BookOK(evs2, to, rls)
<1>1. to \in Seq(Orders) /\ DOMAIN to = DOMAIN pend
  <2>1. DOMAIN pend = 1..Len(pend) /\ Len(pend) \in Nat
    BY DEF BookOK
  <2>2. QED
    BY <2>1
<1>2. {to[i].id : i \in DOMAIN to} = {pend[i].id : i \in DOMAIN pend}
  BY <1>1
<1>3. ASSUME NEW i \in DOMAIN to, to[i].status = "cancelled"
      PROVE  CancelOn(evs2, to[i].id)
  BY <1>1, <1>3, Zenon DEF BookOK
<1>4. QED
  BY <1>1, <1>2, <1>3, Zenon DEF BookOK

\* Cancelling an order keeps its id.
LEMMA CancelledOrder == \A o \in Orders : Cancelled(o) \in Orders /\ Cancelled(o).id = o.id
BY DEF Cancelled, Orders

\* A risk rule enters the book with its intent.
LEMMA RuledBook ==
  ASSUME NEW evs, NEW evs2, NEW pend, NEW rls, BookOK(evs, pend, rls),
         NEW id \in Ids,
         Told(evs2, "order") = Told(evs, "order"),
         Told(evs2, "risk") = Told(evs, "risk") \cup {id},
         \A x : CancelOn(evs, x) => CancelOn(evs2, x)
  PROVE  BookOK(evs2, pend, Append(rls, id))
<1> DEFINE to == Append(rls, id)
<1>1. rls \in Seq(Ids)
  BY DEF BookOK
<1>2. to \in Seq(Ids) /\ {to[i] : i \in DOMAIN to} = {rls[i] : i \in DOMAIN rls} \cup {id}
  BY <1>1, AppendFacts, AppendedImage
<1> HIDE DEF to
<1>3. BookOK(evs2, pend, to)
  BY <1>2, Zenon DEF BookOK
<1>4. QED
  BY <1>3 DEF to

\* What is in a book is an order.
LEMMA OrdersInBook == \A pend \in Seq(Orders) : \A i \in DOMAIN pend : pend[i] \in Orders
OBVIOUS

\* Every accepted call keeps book and tape together.
LEMMA SubmitKeepsBook ==
  ASSUME TapeAssumption, ContextAssumption, IInv, CInv,
         NEW pos \in Positions, NEW command \in Commands, NEW body \in Bodies,
         Submit(pos, command, body)
  PROVE  BookOK(events', pending', rules')
<1>1. /\ Told(events', "order") =
            IF command.kind = "order" THEN Told(events, "order") \cup {command.id}
                                      ELSE Told(events, "order")
      /\ Told(events', "risk") =
            IF command.kind = "risk" THEN Told(events, "risk") \cup {command.id}
                                     ELSE Told(events, "risk")
      /\ \A id : CancelOn(events, id) => CancelOn(events', id)
      /\ command.kind = "cancel" => CancelOn(events', command.id)
      /\ command.kind = "cancel_all" => \A id : CancelOn(events', id)
  BY SubmitRecords, RecordedGrows
<1>2. /\ BookOK(events, pending, rules) /\ command.id \in Ids
      /\ \A i \in DOMAIN pending : pending[i] \in Orders
  <2>1. BookOK(events, pending, rules) /\ command.id \in Ids
    BY DEF CInv, Ids
  <2>2. pending \in Seq(Orders)
    BY <2>1 DEF BookOK
  <2>3. QED
    BY <2>1, <2>2, OrdersInBook, Zenon
<1>3. CASE PlaceOrder(pos, command, body)
  <2>1. /\ command.kind = "order" /\ rules' = rules
        /\ pending' = Append(pending, [id |-> command.id, status |-> "pending"])
    BY <1>3 DEF PlaceOrder
  <2>2. /\ Told(events', "order") = Told(events, "order") \cup {command.id}
        /\ Told(events', "risk") = Told(events, "risk")
    BY <1>1, <2>1
  <2>3. QED
    BY <1>1, <1>2, <2>1, <2>2, PlacedBook
<1>4. CASE CancelOrder(pos, command, body)
  <2> DEFINE gone == {i \in DOMAIN pending : pending[i].id = command.id}
  <2>1. /\ command.kind = "cancel" /\ rules' = rules
        /\ pending' = [i \in DOMAIN pending |->
                         IF i \in gone THEN Cancelled(pending[i]) ELSE pending[i]]
    BY <1>4 DEF CancelOrder
  <2>2. /\ Told(events', "order") = Told(events, "order")
        /\ Told(events', "risk") = Told(events, "risk")
        /\ \A i \in DOMAIN pending : i \in gone => CancelOn(events', pending[i].id)
    BY <1>1, <2>1
  <2> HIDE DEF gone
  <2>3. /\ pending' \in [DOMAIN pending -> Orders]
        /\ \A i \in DOMAIN pending :
             pending'[i].id = pending[i].id /\ (pending'[i] = pending[i] \/ i \in gone)
    BY <1>2, <2>1, CancelledOrder
  <2>4. QED
    BY <1>1, <1>2, <2>1, <2>2, <2>3, CancelledBook
<1>5. CASE CancelAll(pos, command, body)
  <2> DEFINE gone == DOMAIN pending
  <2>1. /\ command.kind = "cancel_all" /\ rules' = rules
        /\ pending' = [i \in DOMAIN pending |->
                         IF i \in gone THEN Cancelled(pending[i]) ELSE pending[i]]
    BY <1>5 DEF CancelAll
  <2>2. /\ Told(events', "order") = Told(events, "order")
        /\ Told(events', "risk") = Told(events, "risk")
        /\ \A i \in DOMAIN pending : i \in gone => CancelOn(events', pending[i].id)
    BY <1>1, <2>1
  <2> HIDE DEF gone
  <2>3. /\ pending' \in [DOMAIN pending -> Orders]
        /\ \A i \in DOMAIN pending :
             pending'[i].id = pending[i].id /\ (pending'[i] = pending[i] \/ i \in gone)
    BY <1>2, <2>1, CancelledOrder
  <2>4. QED
    BY <1>1, <1>2, <2>1, <2>2, <2>3, CancelledBook
<1>6. CASE AddRiskRule(pos, command, body)
  <2>1. /\ command.kind = "risk" /\ pending' = pending
        /\ rules' = Append(rules, command.id)
    BY <1>6 DEF AddRiskRule
  <2>2. /\ Told(events', "order") = Told(events, "order")
        /\ Told(events', "risk") = Told(events, "risk") \cup {command.id}
    BY <1>1, <2>1
  <2>3. QED
    BY <1>1, <1>2, <2>1, <2>2, RuledBook
<1>7. QED
  BY <1>3, <1>4, <1>5, <1>6 DEF Submit

\* The recalculation of a begin that failed is not valid.
LEMMA NegativeOne == ~(-1 \geq 0)
OBVIOUS

\* A new facade and a new tape agree.
LEMMA EmptyBook == BookOK(<<>>, <<>>, <<>>)
BY DEF BookOK, Told

\* The invariant holds of a new facade ...
LEMMA ContextInitOK ==
  ASSUME ContextAssumption, ContextInit
  PROVE  CInv
<1>1. BookOK(events, pending, rules)
  BY EmptyBook DEF ContextInit, Init
<1>2. ScopeOK(scope, callback)
  BY DEF ContextInit, Init, ScopeOK, FirstScope, InitialScope
<1>3. QED
  BY <1>1, <1>2 DEF CInv, ContextInit, Init

\* ... and every step keeps it.
LEMMA ContextNextKeepsCInv ==
  ASSUME TapeAssumption, ContextAssumption, IInv, CInv, [ContextNext]_allVars
  PROVE  CInv'
<1> USE DEF CInv
<1>1. ASSUME UNCHANGED <<events, committed, callback, saved, savedContext, pending, rules, scope>>
      PROVE  CInv'
  BY <1>1
<1>2. ASSUME NEW id \in Identities, AttachRuntime(id)
      PROVE  CInv'
  BY <1>1, <1>2 DEF AttachRuntime, SetSeriesIdentity, tapeVars, contextVars
<1>3. ASSUME UNCHANGED <<events, committed, saved, savedContext, pending, rules>>,
             ScopeOK(scope', callback')
      PROVE  CInv'
  BY <1>3
<1>4. ASSUME NEW pos \in Positions, NEW phase \in Phases, NEW recalc \in 0..MaxRecalc,
             BeginIntentCallback(pos, phase, recalc)
      PROVE  CInv'
  BY <1>3, <1>4 DEF BeginIntentCallback, BeginCallback, ScopeOK
<1>5. ASSUME NEW pos \in Positions, BeginIntentNoPhase(pos)
      PROVE  CInv'
  BY <1>3, <1>5 DEF BeginIntentNoPhase, BeginCallbackNoPhase, ScopeOK, ContextAssumption
<1>6. ASSUME NEW phase \in Phases, BeginIntentBadRecalc(phase)
      PROVE  CInv'
  <2>1. scope' = [phase |-> phase, recalc |-> -1]
    BY <1>6 DEF BeginIntentBadRecalc
  <2>2. ~(scope'.recalc \geq 0)
    BY <2>1, NegativeOne
  <2>3. ScopeOK(scope', callback')
    BY <2>2 DEF ScopeOK
  <2>4. QED
    BY <1>3, <1>6, <2>3 DEF BeginIntentBadRecalc, vars, tapeVars
<1>7. ASSUME NEW pos \in Positions, CommitIntents(pos)
      PROVE  CInv'
  BY <1>7 DEF CommitIntents, CommitBar, contextVars
<1>8. ASSUME NEW pos \in Positions, NEW command \in Commands, NEW body \in Bodies,
             Submit(pos, command, body)
      PROVE  CInv'
  <2>1. BookOK(events', pending', rules')
    BY <1>8, SubmitKeepsBook
  <2>2. UNCHANGED <<committed, callback, saved>>
    BY <1>8, SubmitRecords, RecordAdds
  <2>3. UNCHANGED <<scope, savedContext>>
    BY <1>8 DEF Submit, PlaceOrder, CancelOrder, CancelAll, AddRiskRule
  <2>4. QED
    BY <2>1, <2>2, <2>3
<1>9. CASE ExportStrategy
  <2>1. /\ UNCHANGED <<events, committed, callback, pending, rules, scope>>
        /\ saved' = <<Checkpoint>>
        /\ savedContext' = <<[pending |-> pending, rules |-> rules, scope |-> scope,
                              closedtrades |-> closedtrades]>>
    BY <1>9 DEF ExportStrategy, ExportState, tapeVars
  <2>2. SavedPairOK(saved'[1], savedContext'[1])
    BY <2>1 DEF SavedPairOK, Checkpoint
  <2>3. QED
    BY <2>1, <2>2
<1>10. CASE RestoreStrategy
  <2>1. /\ savedContext # <<>> /\ UNCHANGED <<saved, savedContext>>
        /\ events' = saved[1].events /\ committed' = saved[1].committed
        /\ callback' = saved[1].callback
        /\ pending' = savedContext[1].pending /\ rules' = savedContext[1].rules
        /\ scope' = savedContext[1].scope
    BY <1>10 DEF RestoreStrategy, RestoreState
  <2>2. QED
    BY <2>1 DEF SavedPairOK
<1>11. CASE NewContext
  <2>1. /\ events' = <<>> /\ committed' = {} /\ callback' = InitialScope
        /\ pending' = <<>> /\ rules' = <<>> /\ scope' = FirstScope
        /\ UNCHANGED <<saved, savedContext>>
    BY <1>11 DEF NewContext, NewTape
  <2>2. ScopeOK(scope', callback')
    BY <2>1 DEF ScopeOK, FirstScope, InitialScope
  <2>3. QED
    BY <2>1, <2>2, EmptyBook DEF SavedPairOK
<1>12. ASSUME NEW n \in Counts, SetClosedTrades(n)
      PROVE  CInv'
  BY <1>1, <1>12 DEF SetClosedTrades, vars, tapeVars
<1>13. CASE CommitScalarHistory
  BY <1>1, <1>13 DEF CommitScalarHistory, vars, tapeVars
<1>14. CASE UNCHANGED allVars
  BY <1>1, <1>14 DEF allVars, contextVars, vars, tapeVars
<1>15. QED
  BY <1>2, <1>4, <1>5, <1>6, <1>7, <1>8, <1>9, <1>10, <1>11, <1>12, <1>13, <1>14
     DEF ContextNext

-----------------------------------------------------------------------------
(* Theorems *)

\* The tape's invariant and the facade's hold together in every reachable state.
THEOREM ContextInductive == ContextSpec => [](IInv /\ CInv)
<1>1. ContextSpec => []IInv
  BY FacadeImplementsTape, Inductive, PTL
<1>2. ContextInit => CInv
  BY ContextInitOK, ContextAssumption
<1>3. IInv /\ CInv /\ [ContextNext]_allVars => CInv'
  BY ContextNextKeepsCInv, TapeAssumption, ContextAssumption
<1>4. QED
  BY <1>1, <1>2, <1>3, PTL DEF ContextSpec

\* Pending orders and risk rules are those whose intents are on the tape
\* (context.py calls the tape before it changes its book), after any calls that
\* fail, repeats, rollbacks and restarts.
THEOREM BookCorrect == ContextSpec => []BookMatchesTape
<1>1. CInv => BookMatchesTape
  BY DEF CInv, BookOK, BookMatchesTape, Told
<1>2. QED
  BY <1>1, ContextInductive, PTL

\* An order is cancelled in the book only by a cancel that is on the tape.
THEOREM CancelsCorrect == ContextSpec => []CancelsRecorded
<1>1. CInv => CancelsRecorded
  BY DEF CInv, BookOK, CancelsRecorded, CancelOn
<1>2. QED
  BY <1>1, ContextInductive, PTL

\* The facade and the tape agree on the open callback, also after a rollback in
\* the middle of it and after a restart; only a failed begin parts them.
THEOREM ScopesAgree == ContextSpec => []ScopeFollowsTape
<1>1. CInv => ScopeFollowsTape
  BY DEF CInv, ScopeOK, ScopeFollowsTape, ValidScope
<1>2. QED
  BY <1>1, ContextInductive, PTL

\* restore_strategy_state accepts what export_strategy_state wrote under a valid
\* scope: both its own checks and those of the tape pass.
THEOREM CheckpointsRestorable == ContextSpec => []CheckpointRestorable
<1>1. ASSUME IInv, CInv, ExportRestorable
      PROVE  CheckpointRestorable
  <2> SUFFICES ASSUME savedContext # <<>>, saved[1].identity = identity,
                      savedContext[1].scope.phase \in Phases,
                      savedContext[1].scope.recalc \geq 0
               PROVE  ContextRestorable(savedContext[1], saved[1]) /\ Restorable(saved[1])
    BY DEF CheckpointRestorable
  <2>1. saved # <<>> /\ SavedPairOK(saved[1], savedContext[1])
    BY <1>1 DEF CInv
  <2>2. saved[1].committed \cap BadPositions = {}
    BY <2>1, TapeAssumption DEF SavedPairOK, TapeAssumption
  <2>3. Restorable(saved[1])
    BY <1>1, <2>1, <2>2 DEF ExportRestorable
  <2>4. savedContext[1].scope = [phase |-> saved[1].callback.phase,
                                 recalc |-> saved[1].callback.recalc]
    BY <2>1 DEF SavedPairOK, ScopeOK
  <2>5. ContextRestorable(savedContext[1], saved[1])
    BY <2>4 DEF ContextRestorable
  <2>6. QED
    BY <2>3, <2>5
<1>2. ContextSpec => []ExportRestorable
  BY FacadeImplementsTape, ExportsRestorable, PTL
<1>3. QED
  BY <1>1, <1>2, ContextInductive, PTL

-----------------------------------------------------------------------------
(* The runner *)

\* The loop is in a bar it has begun and not ended.
InBar == pc \in {"flag", "tick", "pass", "script", "commit", "end"}

\* What the loop needs of a runtime, live or saved, at any time ...
Usable(index, registry) ==
  /\ index \in Int /\ -1 \leq index /\ index + 1 \leq Len(feed)
  /\ BarName \in DOMAIN registry
  /\ "current" \in DOMAIN registry[BarName]

\* ... and of the live one while a bar is open.
OnItsBar ==
  /\ currentBar \in R!BarRecords
  /\ currentBar.time = feed[bar].bar.time
  /\ series[BarName].current \in [index : Int, bar : R!BarRecords]
  /\ series[BarName].current.index = bar - 1 + Offset

Placed ==
  /\ pc = "bar" \/ InBar => bar = barIndex + 2 /\ bar \leq Len(feed)
  /\ pc \in {"snapshot", "progress"} => bar = barIndex + 1
  /\ InBar => OnItsBar

Ticking ==
  /\ pc = "flag" => ~Realtime(bar)
  /\ pc = "tick" => Realtime(bar) /\ tick \in Nat /\ tick < Len(TicksOf(bar))
  /\ pc \in {"pass", "script"} /\ Realtime(bar) => tick \in 1..Len(TicksOf(bar))
  /\ line \in Nat \ {0}

Ended(index) == {PositionOf(n) : n \in 1..(index + 1)}

Sealed == committed = Ended(barIndex) \cup (IF pc = "end" THEN {PositionOf(bar)} ELSE {})

RunnerSavedOK ==
  /\ rtSaved # <<>> => Usable(rtSaved[1].barIndex, rtSaved[1].series)
  /\ savedContext # <<>> =>
       rtSaved # <<>> /\ saved[1].committed = Ended(rtSaved[1].barIndex)

RInv ==
  /\ feed \in Feeds /\ script \in Scripts
  /\ Usable(barIndex, series)
  /\ Placed
  /\ Ticking
  /\ Sealed
  /\ RunnerSavedOK

-----------------------------------------------------------------------------
(* The calls of the runner *)

\* What a feed and a script offer at a bar of the feed.
LEMMA AtBar ==
  ASSUME RunnerAssumption, feed \in Feeds, script \in Scripts, NEW n \in 1..Len(feed)
  PROVE  /\ feed[n].bar \in R!BarRecords
         /\ feed[n].ticks \in Seq(R!TickRecords)
         /\ Len(feed[n].ticks) \leq MaxRecalc + 1
         /\ PositionOf(n) \in Positions
         /\ \A r \in 0..MaxRecalc : script[<<n, r>>] \in Seq(Commands)
<1>1. feed \in Seq(FeedBars)
  BY DEF RunnerAssumption
<1>2. feed[n] \in FeedBars
  BY <1>1
<1>3. QED
  BY <1>2 DEF RunnerAssumption, FeedBars, PositionOf

\* Lengths of the sequences of a feed are numbers.
LEMMA FeedLength ==
  ASSUME RunnerAssumption, feed \in Feeds
  PROVE  Len(feed) \in Nat
<1>1. feed \in Seq(FeedBars)
  BY DEF RunnerAssumption
<1>2. QED
  BY <1>1

\* In a bar, the facade is told the position of that bar.
LEMMA PositionInBar ==
  ASSUME RunnerAssumption, RInv, InBar
  PROVE  /\ bar \in 1..Len(feed)
         /\ BarPosition = PositionOf(bar)
         /\ BarPosition \in Positions
<1>1. bar \in 1..Len(feed)
  <2>1. bar = barIndex + 2 /\ bar \leq Len(feed) /\ barIndex \in Int /\ -1 \leq barIndex
    BY DEF RInv, Placed, Usable
  <2>2. Len(feed) \in Nat
    BY FeedLength DEF RInv
  <2>3. QED
    BY <2>1, <2>2
<1>2. /\ currentBar \in R!BarRecords /\ currentBar.time = feed[bar].bar.time
      /\ series[BarName].current \in [index : Int, bar : R!BarRecords]
      /\ series[BarName].current.index = bar - 1 + Offset
  BY DEF RInv, Placed, OnItsBar
<1>3. currentBar # None /\ series[BarName].current # NA
  BY <1>2 DEF RunnerAssumption
<1>4. BarPosition = PositionOf(bar)
  BY <1>2, <1>3 DEF BarPosition, PositionOf
<1>5. QED
  BY <1>1, <1>4, AtBar DEF RInv

\* The recalculation of a pass is one the tape accepts.
LEMMA RecalcInPass ==
  ASSUME TapeAssumption, RunnerAssumption, RInv, pc \in {"pass", "script"}
  PROVE  Recalc \in 0..MaxRecalc
<1>1. bar \in 1..Len(feed)
  BY PositionInBar DEF InBar
<1>2. Len(feed[bar].ticks) \in Nat /\ Len(feed[bar].ticks) \leq MaxRecalc + 1
  <2>1. feed[bar].ticks \in Seq(R!TickRecords) /\ Len(feed[bar].ticks) \leq MaxRecalc + 1
    BY <1>1, AtBar DEF RInv
  <2>2. QED
    BY <2>1
<1>3. MaxRecalc \in Nat
  BY DEF TapeAssumption
<1>4. CASE Realtime(bar)
  <2>1. tick \in 1..Len(feed[bar].ticks)
    BY <1>4 DEF RInv, Ticking, TicksOf
  <2>2. tick - 1 \in 0..MaxRecalc
    BY <1>2, <1>3, <2>1
  <2>3. QED
    BY <1>4, <2>2 DEF Recalc
<1>5. CASE ~Realtime(bar)
  BY <1>3, <1>5 DEF Recalc
<1>6. QED
  BY <1>4, <1>5

\* A line of the script is a command.
LEMMA LineIsCommand ==
  ASSUME TapeAssumption, RunnerAssumption, RInv, pc = "script", line \leq Len(Lines)
  PROVE  Lines[line] \in Commands
<1>1. Recalc \in 0..MaxRecalc /\ bar \in 1..Len(feed)
  BY RecalcInPass, PositionInBar DEF InBar
<1>2. Lines \in Seq(Commands)
  BY <1>1, AtBar DEF Lines, RInv
<1>3. line \in Nat \ {0}
  BY DEF RInv, Ticking
<1>4. QED
  BY <1>2, <1>3

\* A step of the runner is a step of the facade, or leaves it alone.
LEMMA StepOnFacade ==
  ASSUME TapeAssumption, ContextAssumption, RunnerAssumption, IInv, RInv,
         [RunnerNext]_runnerVars
  PROVE  [ContextNext]_allVars
<1>1. CASE Call
  <2>1. identity \in Identities
    BY DEF IInv, Live, TypeOK
  <2>2. AttachRuntime(identity)
    BY <1>1 DEF Call
  <2>3. QED
    BY <2>1, <2>2 DEF ContextNext
<1>2. CASE BeginHistoricalBar \/ FlagHistory \/ BeginLiveBar \/ FeedTick
  BY <1>2 DEF BeginHistoricalBar, FlagHistory, BeginLiveBar, FeedTick
<1>3. CASE BeginPass
  <2>1. BeginIntentCallback(BarPosition, "BAR_BEGIN", Recalc) /\ pc = "pass"
    BY <1>3 DEF BeginPass
  <2>2. BarPosition \in Positions /\ Recalc \in 0..MaxRecalc /\ "BAR_BEGIN" \in Phases
    BY <2>1, PositionInBar, RecalcInPass DEF InBar, RunnerAssumption
  <2>3. QED
    BY <2>1, <2>2 DEF ContextNext
<1>4. CASE RunLine
  <2>1. Submit(BarPosition, Lines[line], TheBody) /\ pc = "script" /\ line \leq Len(Lines)
    BY <1>4 DEF RunLine
  <2>2. BarPosition \in Positions /\ Lines[line] \in Commands /\ TheBody \in Bodies
    BY <2>1, PositionInBar, LineIsCommand DEF InBar, RunnerAssumption
  <2>3. QED
    BY <2>1, <2>2 DEF ContextNext
<1>5. CASE EndPass \/ EndTheBar
  BY <1>5 DEF EndPass, EndTheBar
<1>6. CASE CommitTheIntents
  <2>1. CommitIntents(BarPosition) /\ pc = "commit"
    BY <1>6 DEF CommitTheIntents
  <2>2. BarPosition \in Positions
    BY <2>1, PositionInBar DEF InBar
  <2>3. QED
    BY <2>1, <2>2 DEF ContextNext
<1>7. CASE TakeSnapshot
  BY <1>7 DEF TakeSnapshot, ContextNext
<1>8. ASSUME NEW keep \in BOOLEAN, ReportProgress(keep)
      PROVE  [ContextNext]_allVars
  BY <1>8 DEF ReportProgress, ContextNext
<1>9. CASE Retry \/ Raise
  BY <1>9 DEF Retry, Raise
<1>10. CASE RollBack \/ Resume
  BY <1>10 DEF RollBack, Resume, ContextNext
<1>11. CASE Discard \/ Die
  BY <1>11 DEF Discard, Die, ContextNext
<1>12. CASE Finished \/ UNCHANGED runnerVars
  BY <1>12 DEF Finished, runnerVars
<1>13. QED
  BY <1>1, <1>2, <1>3, <1>4, <1>5, <1>6, <1>7, <1>8, <1>9, <1>10, <1>11, <1>12
     DEF RunnerNext, Loop, Recover

-----------------------------------------------------------------------------
(* The calls to the runtime *)

\* The place of the built-in series in a registry.
HasBuiltin(registry) == BarName \in DOMAIN registry /\ "current" \in DOMAIN registry[BarName]

BuiltinAt(registry, index) ==
  /\ registry[BarName].current \in [index : Int, bar : R!BarRecords]
  /\ registry[BarName].current.index = index + 1 + Offset

\* Beginning a bar exposes it.
LEMMA OpenFacts ==
  ASSUME RunnerAssumption, barIndex \in Int, HasBuiltin(series),
         NEW b \in R!BarRecords, R!BeginBar(b) \/ R!BeginRealtimeBar(b)
  PROVE  /\ currentBar' \in R!BarRecords /\ currentBar'.time = b.time
         /\ HasBuiltin(series') /\ BuiltinAt(series', barIndex)
         /\ UNCHANGED <<barIndex, rtSaved>>
<1> DEFINE norm == R!Normalized(b)
           shown == [index |-> barIndex + 1 + Offset, bar |-> norm]
<1>1. PICK realtime : R!OpenBar(b, realtime)
  BY DEF R!BeginBar, R!BeginRealtimeBar
<1>2. norm \in R!BarRecords /\ norm.time = b.time
  BY DEF RunnerAssumption, R!Normalized, R!BarRecords
<1>3. /\ currentBar' = norm
      /\ series' = [n \in DOMAIN series |->
                      IF n = BarName THEN [series[n] EXCEPT !.current = shown, !.between = FALSE]
                                     ELSE R!InBar(series[n])]
      /\ UNCHANGED <<barIndex, rtSaved>>
  BY <1>1 DEF R!OpenBar, R!SetTo, R!ExposedBar
<1> HIDE DEF norm
<1>4. shown \in [index : Int, bar : R!BarRecords] /\ shown.index = barIndex + 1 + Offset
  BY <1>2 DEF RunnerAssumption
<1> HIDE DEF shown
<1>5. series'[BarName] = [series[BarName] EXCEPT !.current = shown, !.between = FALSE]
  BY <1>3 DEF HasBuiltin
<1>6. /\ BarName \in DOMAIN series' /\ "current" \in DOMAIN series'[BarName]
      /\ series'[BarName].current = shown
  BY <1>3, <1>5 DEF HasBuiltin
<1>7. QED
  BY <1>2, <1>3, <1>4, <1>6 DEF HasBuiltin, BuiltinAt

\* A tick changes prices and volume of the bar it is for.
LEMMA TickFacts ==
  ASSUME RunnerAssumption, barIndex \in Int, HasBuiltin(series),
         currentBar \in R!BarRecords,
         NEW t, t.price \in Nat, t.volume \in Nat, R!UpdateRealtimeTick(t)
  PROVE  /\ currentBar' \in R!BarRecords /\ currentBar'.time = currentBar.time
         /\ HasBuiltin(series') /\ BuiltinAt(series', barIndex)
         /\ UNCHANGED <<barIndex, rtSaved>>
<1> DEFINE next == R!Ticked(currentBar, t)
           shown == [index |-> barIndex + 1 + Offset, bar |-> next]
<1>1. next \in R!BarRecords /\ next.time = currentBar.time
  <2> DEFINE high == R!Larger(currentBar.high, t.price)
             low == R!Smaller(currentBar.low, t.price)
             volume == currentBar.volume + t.volume
  <2>1. currentBar.high \in Nat /\ currentBar.low \in Nat /\ currentBar.volume \in Nat
    BY DEF R!BarRecords
  <2>2. high \in Nat /\ low \in Nat /\ volume \in Nat
    BY <2>1 DEF R!Larger, R!Smaller
  <2>3. next = [currentBar EXCEPT !.high = high, !.low = low,
                                  !.close = t.price, !.volume = volume]
    BY DEF R!Ticked
  <2> HIDE DEF high, low, volume, next
  <2>4. QED
    BY <2>2, <2>3 DEF R!BarRecords
<1>2. /\ currentBar' = next
      /\ series' = [series EXCEPT ![BarName] =
                      [series[BarName] EXCEPT !.current = shown, !.between = FALSE]]
      /\ UNCHANGED <<barIndex, rtSaved>>
  BY DEF R!UpdateRealtimeTick, R!SetTo, R!ExposedBar
<1> HIDE DEF next
<1>3. shown \in [index : Int, bar : R!BarRecords] /\ shown.index = barIndex + 1 + Offset
  BY <1>1 DEF RunnerAssumption
<1> HIDE DEF shown
<1>4. series'[BarName] = [series[BarName] EXCEPT !.current = shown, !.between = FALSE]
  BY <1>2 DEF HasBuiltin
<1>5. /\ BarName \in DOMAIN series' /\ "current" \in DOMAIN series'[BarName]
      /\ series'[BarName].current = shown
  BY <1>2, <1>4 DEF HasBuiltin
<1>6. QED
  BY <1>1, <1>2, <1>3, <1>5 DEF HasBuiltin, BuiltinAt

\* Ending a bar counts it.
LEMMA EndFacts ==
  ASSUME HasBuiltin(series), R!EndBar
  PROVE  /\ barIndex' = barIndex + 1 /\ UNCHANGED rtSaved
         /\ HasBuiltin(series')
<1>1. /\ barIndex' = barIndex + 1 /\ UNCHANGED rtSaved
      /\ series' = [n \in DOMAIN series |->
                      [R!Committed(series[n]) EXCEPT !.between = @ \/ ~barstate.realtime]]
  BY DEF R!EndBar
<1>2. DOMAIN series'[BarName] = DOMAIN series[BarName] /\ BarName \in DOMAIN series'
  BY <1>1 DEF HasBuiltin, R!Committed
<1>3. QED
  BY <1>1, <1>2 DEF HasBuiltin

\* A new runtime has ended no bar.
LEMMA NewRuntimeFacts ==
  ASSUME R!NewRuntime
  PROVE  barIndex' = -1 /\ HasBuiltin(series') /\ UNCHANGED rtSaved
BY DEF R!NewRuntime, HasBuiltin, R!EmptyRegistry, R!NewSeriesOf

\* A restored runtime is where the snapshot was.
LEMMA RestoreFacts ==
  ASSUME R!RestoreState
  PROVE  /\ rtSaved # <<>> /\ UNCHANGED rtSaved
         /\ barIndex' = rtSaved[1].barIndex /\ series' = rtSaved[1].series
BY DEF R!RestoreState, R!RestoredSeries

-----------------------------------------------------------------------------
(* What a step leaves alone *)

\* The seals stay what they are when nothing they depend on changes.
LEMMA SealedKept ==
  ASSUME Sealed, UNCHANGED <<feed, committed, barIndex>>, pc # "end", pc' # "end"
  PROVE  Sealed'
BY DEF Sealed, Ended, PositionOf

\* So do the checkpoints.
LEMMA SavedKept ==
  ASSUME RunnerSavedOK, UNCHANGED <<feed, saved, savedContext, rtSaved>>
  PROVE  RunnerSavedOK'
BY DEF RunnerSavedOK, Usable, Ended, PositionOf

\* So do the runtime's place in the feed and its built-in series.
LEMMA UsableKept ==
  ASSUME Usable(barIndex, series), UNCHANGED <<feed, barIndex, series>>
  PROVE  Usable(barIndex, series)'
BY DEF Usable

\* So does the bar that is open.
LEMMA OnItsBarKept ==
  ASSUME OnItsBar, UNCHANGED <<feed, bar, currentBar, series>>
  PROVE  OnItsBar'
BY DEF OnItsBar

\* A step that changes neither runtime, seals nor checkpoints.
LEMMA QuietStep ==
  ASSUME RInv, UNCHANGED <<rtVars, feed, script, committed, saved, savedContext>>,
         pc # "end", pc' # "end", Placed', Ticking'
  PROVE  RInv'
<1>1. Usable(barIndex, series)'
  BY UsableKept DEF RInv, rtVars
<1>2. Sealed'
  BY SealedKept DEF RInv, rtVars
<1>3. RunnerSavedOK'
  BY SavedKept DEF RInv, rtVars
<1>4. QED
  BY <1>1, <1>2, <1>3 DEF RInv

-----------------------------------------------------------------------------
(* The steps of the loop *)

\* At the start nothing has ended and nothing is sealed.
LEMMA RunnerInitOK ==
  ASSUME RunnerAssumption, RunnerInit
  PROVE  RInv
<1>1. barIndex = -1 /\ committed = {} /\ rtSaved = <<>> /\ savedContext = <<>>
  BY DEF RunnerInit, ContextInit, Init, R!Init
<1>2. HasBuiltin(series)
  BY DEF RunnerInit, R!Init, R!EmptyRegistry, R!NewSeriesOf, HasBuiltin
<1>3. Len(feed) \in Nat
  BY FeedLength DEF RunnerInit
<1>4. Usable(barIndex, series)
  BY <1>1, <1>2, <1>3 DEF Usable, HasBuiltin
<1>5. Sealed
  BY <1>1 DEF RunnerInit, Sealed, Ended
<1>6. Placed /\ Ticking
  BY DEF RunnerInit, Placed, Ticking, InBar
<1>7. QED
  BY <1>1, <1>4, <1>5, <1>6 DEF RInv, RunnerSavedOK, RunnerInit

\* A call starts at the first bar that has not ended.
LEMMA CallKeeps ==
  ASSUME RunnerAssumption, RInv, Call
  PROVE  RInv'
<1>1. /\ UNCHANGED <<rtVars, feed, script, line, committed, saved, savedContext>>
      /\ pc = "call" /\ bar' = barIndex + 2
      /\ pc' = IF barIndex + 2 > Len(feed) THEN "done" ELSE "bar"
  BY DEF Call, hostVars, inputs, AttachRuntime, SetSeriesIdentity, tapeVars, contextVars
<1>2. barIndex \in Int /\ Len(feed) \in Nat
  BY FeedLength DEF RInv, Usable
<1>3. Placed'
  BY <1>1, <1>2 DEF Placed, InBar, rtVars
<1>4. Ticking'
  BY <1>1 DEF RInv, Ticking
<1>5. QED
  BY <1>1, <1>3, <1>4, QuietStep

\* Beginning a bar opens it in the runtime.
LEMMA BeginKeeps ==
  ASSUME RunnerAssumption, RInv, BeginHistoricalBar \/ BeginLiveBar
  PROVE  RInv'
<1>1. /\ UNCHANGED <<feed, script, everyTick, line, bar, committed, saved, savedContext>>
      /\ pc = "bar" /\ pc' \in {"flag", "tick"}
      /\ R!BeginBar(feed[bar].bar) \/ R!BeginRealtimeBar(feed[bar].bar)
      /\ pc' = "flag" => ~Realtime(bar)
      /\ pc' = "tick" => Realtime(bar) /\ tick' = 0
  BY DEF BeginHistoricalBar, BeginLiveBar, loopVars, hostVars, inputs, allVars, vars,
         tapeVars, contextVars
<1>2. /\ bar = barIndex + 2 /\ bar \leq Len(feed) /\ barIndex \in Int /\ -1 \leq barIndex
      /\ HasBuiltin(series)
  BY <1>1 DEF RInv, Placed, Usable, HasBuiltin
<1>3. bar \in 1..Len(feed)
  BY <1>2, FeedLength DEF RInv
<1>4. feed[bar].bar \in R!BarRecords
  BY <1>3, AtBar DEF RInv
<1>5. /\ currentBar' \in R!BarRecords /\ currentBar'.time = feed[bar].bar.time
      /\ HasBuiltin(series') /\ BuiltinAt(series', barIndex)
      /\ UNCHANGED <<barIndex, rtSaved>>
  BY <1>1, <1>2, <1>4, OpenFacts
<1>6. Usable(barIndex, series)'
  BY <1>1, <1>5 DEF RInv, Usable, HasBuiltin
<1>7. OnItsBar'
  <2>1. barIndex + 1 + Offset = bar - 1 + Offset
    BY <1>2 DEF RunnerAssumption
  <2>2. QED
    BY <1>1, <1>5, <2>1 DEF OnItsBar, BuiltinAt
<1>8. Placed'
  BY <1>1, <1>2, <1>5, <1>7 DEF Placed, InBar
<1>9. Ticking'
  <2>1. CASE pc' = "flag"
    BY <1>1, <2>1 DEF RInv, Ticking, Realtime, TicksOf
  <2>2. CASE pc' = "tick"
    <3>1. Realtime(bar)' /\ tick' = 0 /\ feed[bar].ticks # <<>>
      BY <1>1, <2>2 DEF Realtime, TicksOf
    <3>2. Len(feed[bar].ticks) \in Nat /\ 0 < Len(feed[bar].ticks)
      <4>1. feed[bar].ticks \in Seq(R!TickRecords)
        BY <1>3, AtBar DEF RInv
      <4>2. QED
        BY <3>1, <4>1
    <3>3. QED
      BY <1>1, <2>2, <3>1, <3>2 DEF RInv, Ticking, TicksOf
  <2>3. QED
    BY <1>1, <2>1, <2>2
<1>10. Sealed'
  BY <1>1, <1>5, SealedKept DEF RInv
<1>11. RunnerSavedOK'
  BY <1>1, <1>5, SavedKept DEF RInv
<1>12. QED
  BY <1>1, <1>6, <1>8, <1>9, <1>10, <1>11 DEF RInv

\* The flag of the bar changes nothing else.
LEMMA FlagKeeps ==
  ASSUME RunnerAssumption, RInv, FlagHistory
  PROVE  RInv'
<1>1. /\ UNCHANGED <<feed, script, everyTick, line, bar, tick, committed, saved,
                     savedContext, barIndex, currentBar, series, rtSaved>>
      /\ pc = "flag" /\ pc' \in {"unsupported", "pass"}
  BY DEF FlagHistory, R!SetLastConfirmedHistory, loopVars, hostVars, inputs, allVars,
         vars, tapeVars, contextVars
<1>2. Placed'
  <2>1. bar = barIndex + 2 /\ bar \leq Len(feed) /\ OnItsBar'
    BY <1>1, OnItsBarKept DEF RInv, Placed, InBar
  <2>2. QED
    BY <1>1, <2>1 DEF Placed, InBar
<1>3. Ticking'
  BY <1>1 DEF RInv, Ticking, Realtime, TicksOf
<1>4. Usable(barIndex, series)' /\ Sealed' /\ RunnerSavedOK'
  BY <1>1, UsableKept, SealedKept, SavedKept DEF RInv
<1>5. QED
  BY <1>1, <1>2, <1>3, <1>4 DEF RInv

\* A tick is for the bar that is open.
LEMMA TickKeeps ==
  ASSUME RunnerAssumption, RInv, FeedTick
  PROVE  RInv'
<1> DEFINE told == [TicksOf(bar)[tick + 1] EXCEPT
                      !.final = @ \/ tick + 1 = Len(TicksOf(bar))]
<1>1. /\ UNCHANGED <<feed, script, everyTick, line, bar, committed, saved, savedContext>>
      /\ pc = "tick" /\ pc' = "pass" /\ tick' = tick + 1
      /\ R!UpdateRealtimeTick(told)
  BY DEF FeedTick, hostVars, inputs, allVars, vars, tapeVars, contextVars
<1>2. /\ bar = barIndex + 2 /\ bar \leq Len(feed) /\ barIndex \in Int /\ -1 \leq barIndex
      /\ HasBuiltin(series) /\ OnItsBar
  BY <1>1 DEF RInv, Placed, Usable, HasBuiltin, InBar
<1>3. bar \in 1..Len(feed)
  BY <1>2, FeedLength DEF RInv
<1>4. tick \in Nat /\ tick < Len(feed[bar].ticks) /\ Realtime(bar)
  BY <1>1 DEF RInv, Ticking, TicksOf
<1>5. feed[bar].ticks \in Seq(R!TickRecords)
  BY <1>3, AtBar DEF RInv
<1>6. feed[bar].ticks[tick + 1] \in R!TickRecords
  BY <1>4, <1>5
<1>7. told.price \in Nat /\ told.volume \in Nat
  BY <1>6 DEF TicksOf, R!TickRecords
<1>8. /\ currentBar' \in R!BarRecords /\ currentBar'.time = currentBar.time
      /\ HasBuiltin(series') /\ BuiltinAt(series', barIndex)
      /\ UNCHANGED <<barIndex, rtSaved>>
  <2> HIDE DEF told
  <2>1. QED
    BY <1>1, <1>2, <1>7, TickFacts DEF OnItsBar
<1>9. Usable(barIndex, series)'
  BY <1>1, <1>8 DEF RInv, Usable, HasBuiltin
<1>10. OnItsBar'
  <2>1. barIndex + 1 + Offset = bar - 1 + Offset
    BY <1>2 DEF RunnerAssumption
  <2>2. QED
    BY <1>1, <1>2, <1>8, <2>1 DEF OnItsBar, BuiltinAt
<1>11. Placed'
  BY <1>1, <1>2, <1>8, <1>10 DEF Placed, InBar
<1>12. Ticking'
  <2>1. Len(feed[bar].ticks) \in Nat
    BY <1>5
  <2>2. tick' \in 1..Len(feed[bar].ticks)
    BY <1>1, <1>4, <2>1
  <2>3. QED
    BY <1>1, <2>2 DEF RInv, Ticking, TicksOf
<1>13. Sealed'
  BY <1>1, <1>8, SealedKept DEF RInv
<1>14. RunnerSavedOK'
  BY <1>1, <1>8, SavedKept DEF RInv
<1>15. QED
  BY <1>1, <1>9, <1>11, <1>12, <1>13, <1>14 DEF RInv

\* A pass begins its callback, submits its lines and ends.
LEMMA PassKeeps ==
  ASSUME RunnerAssumption, RInv, BeginPass \/ RunLine \/ EndPass
  PROVE  RInv'
<1>1. /\ UNCHANGED <<rtVars, feed, script, everyTick, bar, tick, committed, saved,
                     savedContext>>
      /\ line' \in {line, 1, line + 1}
      /\ \/ pc = "pass" /\ pc' = "script"
         \/ pc = "script" /\ pc' = "script"
         \/ pc = "script" /\ pc' = IF Realtime(bar) /\ tick < Len(TicksOf(bar))
                                   THEN "tick" ELSE "commit"
  <2>1. CASE BeginPass
    BY <2>1 DEF BeginPass, BeginIntentCallback, BeginCallback, hostVars, inputs
  <2>2. CASE RunLine
    <3>1. RecordIntent(BarPosition, Lines[line], TheBody)
      BY <2>2, SubmitRecords DEF RunLine
    <3>2. UNCHANGED <<committed, saved>>
      BY <3>1 DEF RecordIntent, RecordAutomatic
    <3>3. UNCHANGED savedContext
      BY <2>2 DEF RunLine, Submit, PlaceOrder, CancelOrder, CancelAll, AddRiskRule
    <3>4. QED
      BY <2>2, <3>2, <3>3 DEF RunLine, hostVars, inputs
  <2>3. CASE EndPass
    BY <2>3 DEF EndPass, loopVars, hostVars, inputs, allVars, vars, tapeVars, contextVars
  <2>4. QED
    BY <2>1, <2>2, <2>3
<1>2. Placed'
  <2>1. bar = barIndex + 2 /\ bar \leq Len(feed) /\ OnItsBar'
    BY <1>1, OnItsBarKept DEF RInv, Placed, InBar, rtVars
  <2>2. QED
    BY <1>1, <2>1 DEF Placed, InBar, rtVars
<1>3. Ticking'
  <2>1. line' \in Nat \ {0}
    BY <1>1 DEF RInv, Ticking
  <2>2. Realtime(bar) => tick \in 1..Len(TicksOf(bar))
    BY <1>1 DEF RInv, Ticking
  <2>3. Realtime(bar)' = Realtime(bar) /\ TicksOf(bar)' = TicksOf(bar) /\ tick' = tick
    BY <1>1 DEF Realtime, TicksOf
  <2>4. pc' = "tick" => Realtime(bar) /\ tick < Len(TicksOf(bar))
    BY <1>1
  <2>5. pc' \in {"script", "tick", "commit"}
    BY <1>1
  <2>6. QED
    BY <2>1, <2>2, <2>3, <2>4, <2>5 DEF Ticking
<1>4. QED
  BY <1>1, <1>2, <1>3, QuietStep

\* The intents of the open bar are sealed.
LEMMA CommitKeeps ==
  ASSUME RunnerAssumption, RInv, CommitTheIntents
  PROVE  RInv'
<1>1. /\ UNCHANGED <<rtVars, feed, script, everyTick, line, bar, tick, saved, savedContext>>
      /\ pc = "commit" /\ pc' = "end" /\ committed' = committed \cup {BarPosition}
  BY DEF CommitTheIntents, CommitIntents, CommitBar, loopVars, hostVars, inputs,
         contextVars
<1>2. bar = barIndex + 2 /\ bar \leq Len(feed) /\ OnItsBar'
  BY <1>1, OnItsBarKept DEF RInv, Placed, InBar, rtVars
<1>3. Placed'
  BY <1>1, <1>2 DEF Placed, InBar, rtVars
<1>4. Ticking'
  BY <1>1 DEF RInv, Ticking
<1>5. BarPosition = PositionOf(bar)
  BY <1>1, PositionInBar DEF InBar
<1>6. committed' = Ended(barIndex) \cup {PositionOf(bar)}
  BY <1>1, <1>5 DEF RInv, Sealed
<1>7. Ended(barIndex)' = Ended(barIndex) /\ PositionOf(bar)' = PositionOf(bar)
  BY <1>1 DEF rtVars, Ended, PositionOf
<1>8. Sealed'
  BY <1>1, <1>6, <1>7 DEF Sealed
<1>9. Usable(barIndex, series)' /\ RunnerSavedOK'
  BY <1>1, UsableKept, SavedKept DEF RInv, rtVars
<1>10. QED
  BY <1>1, <1>3, <1>4, <1>8, <1>9 DEF RInv

\* The sealed bar is the one the runtime ends.
LEMMA EndKeeps ==
  ASSUME RunnerAssumption, RInv, EndTheBar
  PROVE  RInv'
<1>1. /\ UNCHANGED <<feed, script, everyTick, line, bar, tick, committed, saved, savedContext>>
      /\ pc = "end" /\ pc' = "snapshot" /\ R!EndBar
  BY DEF EndTheBar, loopVars, hostVars, inputs, allVars, vars, tapeVars, contextVars
<1>2. /\ bar = barIndex + 2 /\ bar \leq Len(feed) /\ barIndex \in Int /\ -1 \leq barIndex
      /\ HasBuiltin(series)
  BY <1>1 DEF RInv, Placed, Usable, HasBuiltin, InBar
<1>3. barIndex' = barIndex + 1 /\ UNCHANGED rtSaved /\ HasBuiltin(series')
  BY <1>1, <1>2, EndFacts
<1>4. Usable(barIndex, series)'
  <2>1. barIndex' \in Int /\ -1 \leq barIndex' /\ barIndex' + 1 \leq Len(feed)
    BY <1>2, <1>3
  <2>2. QED
    BY <1>1, <1>3, <2>1 DEF Usable, HasBuiltin
<1>5. Placed'
  <2>1. bar' = barIndex' + 1
    BY <1>1, <1>2, <1>3
  <2>2. QED
    BY <1>1, <2>1 DEF Placed, InBar
<1>6. Ticking'
  BY <1>1 DEF RInv, Ticking
<1>7. Sealed'
  <2>1. committed = Ended(barIndex) \cup {PositionOf(bar)}
    BY <1>1 DEF RInv, Sealed
  <2>2. 1..(barIndex' + 1) = 1..(barIndex + 1) \cup {bar}
    BY <1>2, <1>3
  <2>3. Ended(barIndex)' = Ended(barIndex) \cup {PositionOf(bar)}
    BY <1>1, <2>2 DEF Ended, PositionOf
  <2>4. QED
    BY <1>1, <2>1, <2>3 DEF Sealed
<1>8. RunnerSavedOK'
  BY <1>1, <1>3, SavedKept DEF RInv
<1>9. QED
  BY <1>1, <1>4, <1>5, <1>6, <1>7, <1>8 DEF RInv

\* A snapshot changes neither runtime nor tape.
LEMMA SnapshotKeeps ==
  ASSUME RunnerAssumption, RInv, TakeSnapshot
  PROVE  RInv'
<1>1. /\ UNCHANGED <<rtVars, feed, script, line, bar, committed, saved, savedContext>>
      /\ pc = "snapshot" /\ pc' = "progress"
  BY DEF TakeSnapshot, CommitScalarHistory, hostVars, inputs, vars, tapeVars
<1>2. Placed'
  BY <1>1 DEF RInv, Placed, InBar, rtVars
<1>3. Ticking'
  BY <1>1 DEF RInv, Ticking
<1>4. QED
  BY <1>1, <1>2, <1>3, QuietStep

\* The two checkpoints a host takes are of the same bars.
LEMMA ProgressKeeps ==
  ASSUME RunnerAssumption, RInv, NEW keep \in BOOLEAN, ReportProgress(keep)
  PROVE  RInv'
<1>1. /\ UNCHANGED <<feed, script, everyTick, line, committed, barIndex, currentBar, series>>
      /\ pc = "progress" /\ bar' = bar + 1
      /\ pc' = IF bar = Len(feed) THEN "done" ELSE "bar"
  BY DEF ReportProgress, ExportStrategy, ExportState, R!ExportState, R!runtimeVars,
         hostVars, inputs, allVars, vars, tapeVars, rtVars
<1>2. bar = barIndex + 1 /\ barIndex \in Int /\ barIndex + 1 \leq Len(feed)
      /\ Len(feed) \in Nat
  BY <1>1, FeedLength DEF RInv, Placed, Usable
<1>3. Placed'
  <2>1. bar' = barIndex' + 2 /\ (pc' = "bar" => bar' \leq Len(feed'))
    BY <1>1, <1>2
  <2>2. pc' \in {"done", "bar"}
    BY <1>1
  <2>3. QED
    BY <2>1, <2>2 DEF Placed, InBar
<1>4. Ticking'
  BY <1>1 DEF RInv, Ticking
<1>5. Usable(barIndex, series)' /\ Sealed'
  BY <1>1, UsableKept, SealedKept DEF RInv
<1>6. RunnerSavedOK'
  <2>1. CASE keep
    <3>1. /\ saved' = <<Checkpoint>> /\ rtSaved' = <<R!Snapshot(TRUE)>>
      BY <2>1 DEF ReportProgress, ExportStrategy, ExportState, R!ExportState
    <3>2. /\ rtSaved'[1].barIndex = barIndex /\ rtSaved'[1].series = series
          /\ saved'[1].committed = committed /\ rtSaved' # <<>>
      BY <3>1 DEF Checkpoint, R!Snapshot
    <3>3. committed = Ended(barIndex)
      BY <1>1 DEF RInv, Sealed
    <3>4. Usable(rtSaved[1].barIndex, rtSaved[1].series)'
      BY <1>1, <3>2 DEF RInv, Usable
    <3>5. Ended(rtSaved[1].barIndex)' = Ended(barIndex)
      BY <1>1, <3>2 DEF Ended, PositionOf
    <3>6. QED
      BY <3>2, <3>3, <3>4, <3>5 DEF RunnerSavedOK
  <2>2. CASE ~keep
    <3>1. UNCHANGED <<allVars, rtVars>>
      BY <2>2 DEF ReportProgress
    <3>2. QED
      BY <1>1, <3>1, SavedKept DEF RInv, allVars, vars, contextVars, rtVars
  <2>3. QED
    BY <2>1, <2>2
<1>7. QED
  BY <1>1, <1>3, <1>4, <1>5, <1>6 DEF RInv

-----------------------------------------------------------------------------
(* Failures and recoveries *)

\* A call that raises leaves the objects as they are, and so does a retry.
LEMMA RaiseKeeps ==
  ASSUME RunnerAssumption, RInv, Raise \/ Retry
  PROVE  RInv'
<1>1. /\ UNCHANGED <<rtVars, feed, script, line, bar, committed, saved, savedContext>>
      /\ pc # "end" /\ pc' \in {"raised", "call"}
  BY DEF Raise, Retry, loopVars, inputs, allVars, vars, tapeVars, contextVars
<1>2. Placed'
  BY <1>1 DEF Placed, InBar
<1>3. Ticking'
  BY <1>1 DEF RInv, Ticking
<1>4. QED
  BY <1>1, <1>2, <1>3, QuietStep

\* Both objects go back to the same bars.
LEMMA RestoreKeeps ==
  ASSUME RunnerAssumption, RInv, RestoreStrategy, R!RestoreState,
         UNCHANGED <<loopVars, inputs>>, pc' = "call"
  PROVE  RInv'
<1>1. /\ savedContext # <<>> /\ UNCHANGED <<saved, savedContext>>
      /\ committed' = saved[1].committed
  BY DEF RestoreStrategy, RestoreState
<1>2. /\ UNCHANGED rtSaved
      /\ barIndex' = rtSaved[1].barIndex /\ series' = rtSaved[1].series
  BY RestoreFacts
<1>3. /\ Usable(rtSaved[1].barIndex, rtSaved[1].series)
      /\ saved[1].committed = Ended(rtSaved[1].barIndex)
  BY <1>1 DEF RInv, RunnerSavedOK
<1>4. Usable(barIndex, series)'
  BY <1>2, <1>3 DEF Usable, inputs
<1>5. Sealed'
  BY <1>1, <1>2, <1>3 DEF Sealed, Ended, PositionOf, inputs
<1>6. RunnerSavedOK'
  BY <1>1, <1>2, SavedKept DEF RInv, inputs
<1>7. Placed' /\ Ticking'
  BY DEF RInv, Placed, InBar, Ticking, loopVars
<1>8. QED
  BY <1>4, <1>5, <1>6, <1>7 DEF RInv, inputs

\* New objects have ended and sealed nothing.
LEMMA NewObjectsKeep ==
  ASSUME RunnerAssumption, RInv, NewContext, R!NewRuntime,
         UNCHANGED <<loopVars, inputs>>, pc' = "died"
  PROVE  RInv'
<1>1. committed' = {} /\ UNCHANGED <<saved, savedContext>>
  BY DEF NewContext, NewTape
<1>2. barIndex' = -1 /\ HasBuiltin(series') /\ UNCHANGED rtSaved
  BY NewRuntimeFacts
<1>3. Len(feed) \in Nat /\ UNCHANGED <<feed, script, line>>
  BY FeedLength DEF RInv, inputs, loopVars
<1>4. Usable(barIndex, series)'
  BY <1>2, <1>3 DEF Usable, HasBuiltin
<1>5. Sealed'
  BY <1>1, <1>2 DEF Sealed, Ended
<1>6. RunnerSavedOK'
  BY <1>1, <1>2, <1>3, SavedKept DEF RInv
<1>7. Placed' /\ Ticking'
  BY <1>3 DEF RInv, Placed, InBar, Ticking
<1>8. QED
  BY <1>3, <1>4, <1>5, <1>6, <1>7 DEF RInv

\* A resume restores both checkpoints, or starts with the new objects.
LEMMA ResumeKeeps ==
  ASSUME RunnerAssumption, RInv, Resume
  PROVE  RInv'
<1>1. UNCHANGED <<loopVars, inputs>> /\ pc' = "call" /\ pc = "died"
  BY DEF Resume, hostVars
<1>2. CASE savedContext = <<>>
  <2>1. UNCHANGED <<allVars, rtVars>>
    BY <1>2 DEF Resume
  <2>2. UNCHANGED <<rtVars, feed, script, line, bar, committed, saved, savedContext>>
    BY <1>1, <2>1 DEF loopVars, inputs, allVars, vars, tapeVars, contextVars
  <2>3. Placed' /\ Ticking'
    BY <1>1, <2>2 DEF RInv, Placed, InBar, Ticking
  <2>4. QED
    BY <1>1, <2>2, <2>3, QuietStep
<1>3. CASE savedContext # <<>>
  BY <1>1, <1>3, RestoreKeeps DEF Resume
<1>4. QED
  BY <1>2, <1>3

\* No step of the runner breaks its invariant.
LEMMA RunnerNextKeeps ==
  ASSUME RunnerAssumption, RInv, [RunnerNext]_runnerVars
  PROVE  RInv'
<1>1. CASE Call
  BY <1>1, CallKeeps
<1>2. CASE BeginHistoricalBar \/ BeginLiveBar
  BY <1>2, BeginKeeps
<1>3. CASE FlagHistory
  BY <1>3, FlagKeeps
<1>4. CASE FeedTick
  BY <1>4, TickKeeps
<1>5. CASE BeginPass \/ RunLine \/ EndPass
  BY <1>5, PassKeeps
<1>6. CASE CommitTheIntents
  BY <1>6, CommitKeeps
<1>7. CASE EndTheBar
  BY <1>7, EndKeeps
<1>8. CASE TakeSnapshot
  BY <1>8, SnapshotKeeps
<1>9. ASSUME NEW keep \in BOOLEAN, ReportProgress(keep)
      PROVE  RInv'
  BY <1>9, ProgressKeeps
<1>10. CASE Raise \/ Retry
  BY <1>10, RaiseKeeps
<1>11. CASE RollBack
  BY <1>11, RestoreKeeps DEF RollBack, hostVars
<1>12. CASE Discard \/ Die
  BY <1>12, NewObjectsKeep DEF Discard, Die, hostVars
<1>13. CASE Resume
  BY <1>13, ResumeKeeps
<1>14. CASE Finished \/ UNCHANGED runnerVars
  <2>1. UNCHANGED runnerVars
    BY <1>14 DEF Finished
  <2>2. UNCHANGED <<allVars, rtVars, pc, loopVars, inputs>>
    BY <2>1 DEF runnerVars, hostVars
  <2>3. UNCHANGED <<feed, script, everyTick, line, bar, tick, pc, committed, saved,
                    savedContext, barIndex, currentBar, series, rtSaved>>
    BY <2>2 DEF loopVars, inputs, allVars, vars, tapeVars, contextVars, rtVars
  <2>4. Placed' /\ Ticking'
    BY <2>3 DEF RInv, Placed, InBar, OnItsBar, Ticking, Realtime, TicksOf
  <2>5. Sealed'
    BY <2>3 DEF RInv, Sealed, Ended, PositionOf
  <2>6. Usable(barIndex, series)' /\ RunnerSavedOK'
    BY <2>3, UsableKept, SavedKept DEF RInv
  <2>7. QED
    BY <2>3, <2>4, <2>5, <2>6 DEF RInv
<1>15. QED
  BY <1>1, <1>2, <1>3, <1>4, <1>5, <1>6, <1>7, <1>8, <1>9, <1>10, <1>11, <1>12, <1>13,
     <1>14 DEF RunnerNext, Loop, Recover

-----------------------------------------------------------------------------
(* Theorems *)

\* The runner's invariant, with those of the tape and the facade: they need one
\* another, since the runner's calls are the facade's only at positions and
\* scopes its own invariant bounds.
THEOREM RunnerInductive == RunnerSpec => [](IInv /\ CInv /\ RInv)
<1>1. RunnerInit => IInv /\ CInv /\ RInv
  <2>1. RunnerInit => ContextInit /\ RInv
    BY RunnerInitOK, RunnerAssumption DEF RunnerInit
  <2>2. ContextInit => IInv /\ CInv
    BY InitLive, ContextInitOK, ContextAssumption, TapeAssumption DEF ContextInit
  <2>3. QED
    BY <2>1, <2>2
<1>2. ASSUME IInv, CInv, RInv, [RunnerNext]_runnerVars
      PROVE  IInv' /\ CInv' /\ RInv'
  <2>1. [ContextNext]_allVars
    BY <1>2, StepOnFacade, TapeAssumption, ContextAssumption, RunnerAssumption
  <2>2. [Next]_vars
    BY <2>1, StepOnTape, TapeAssumption
  <2>3. IInv'
    BY <1>2, <2>2, NextKeepsIInv, TapeAssumption
  <2>4. CInv'
    BY <1>2, <2>1, ContextNextKeepsCInv, TapeAssumption, ContextAssumption
  <2>5. RInv'
    BY <1>2, RunnerNextKeeps, RunnerAssumption
  <2>6. QED
    BY <2>3, <2>4, <2>5
<1>3. QED
  BY <1>1, <1>2, PTL DEF RunnerSpec

\* A run drives the facade as the facade may be driven: begin, submit, commit at
\* the positions of the feed, also after failures and recoveries; what is proved
\* of the facade and of the tape holds in every run.
THEOREM RunnerUsesFacade == RunnerSpec => ContextSpec
<1>1. RunnerInit => ContextInit
  BY DEF RunnerInit
<1>2. IInv /\ RInv /\ [RunnerNext]_runnerVars => [ContextNext]_allVars
  BY StepOnFacade, TapeAssumption, ContextAssumption, RunnerAssumption
<1>3. QED
  BY <1>1, <1>2, RunnerInductive, PTL DEF RunnerSpec, ContextSpec

\* The seals on the tape are the bars the runtime has ended, whichever call of
\* run_generated_strategy raised, wherever the process died, and however the host
\* recovered the two objects.
THEOREM SealsFollowRuntime == RunnerSpec => []SealedAreEnded
<1>1. RInv => SealedAreEnded
  BY DEF RInv, Sealed, SealedAreEnded, EndedPositions, Ended
<1>2. QED
  BY <1>1, RunnerInductive, PTL

\* In every run the pending orders and risk rules are those on the tape, also
\* after a retry on the same objects.
THEOREM RunKeepsBook == RunnerSpec => []BookMatchesTape
BY RunnerUsesFacade, BookCorrect, PTL

-----------------------------------------------------------------------------
(***************************************************************************)
(* The rows of a run: the chart and the built-in series of the runtime,    *)
(* and the scalar history of the facade, which are written by three calls  *)
(* of the loop and put back from two checkpoints.  They stay together as   *)
(* long as no host calls again on objects whose call raised.               *)
(***************************************************************************)

Shown == [index : Int, bar : R!BarRecords]

BuiltinSeries ==
  [dtype : {"float"}, initial : {NA}, current : Shown \cup {NA}, history : Seq(Shown),
   between : BOOLEAN]

\* Chart and built-in series s hold the first bars of feed f, up to the index that
\* ended last, and cur when a bar is open.
RowsOK(f, index, chart, cur, s, opened) ==
  /\ chart \in Seq(R!BarRecords)
  /\ Len(chart) = index + 1 + (IF opened THEN 1 ELSE 0)
  /\ Len(chart) # 0 => cur = chart[Len(chart)]
  /\ s \in BuiltinSeries
  /\ Len(s.history) = index + 1
  /\ \A i \in 1..(index + 1) : /\ s.history[i] = [index |-> i - 1 + Offset, bar |-> chart[i]]
                               /\ chart[i].time = f[i].bar.time
  /\ opened => s.current = [index |-> index + 1 + Offset, bar |-> cur]

ScalarsOK(trades, count) ==
  /\ trades \in [current : Nat, history : Seq(Nat)]
  /\ Len(trades.history) = count

SavedRowsOK(f, st, context) ==
  /\ RowsOK(f, st.barIndex, st.chartBars, st.currentBar, st.series[BarName], FALSE)
  /\ ~st.open
  /\ ScalarsOK(context.closedtrades, st.barIndex + 1)

\* A bar that is refused ends the run and stays open.
Opened == InBar \/ pc = "unsupported"

\* A call that raised may leave its bar open; the host restores before it goes on.
RowInv ==
  ~retried =>
    /\ pc # "raised" =>
         /\ open <=> Opened
         /\ RowsOK(feed, barIndex, chartBars, currentBar, series[BarName], Opened)
         /\ ScalarsOK(closedtrades, IF pc = "snapshot" THEN barIndex ELSE barIndex + 1)
    /\ savedContext # <<>> => SavedRowsOK(feed, rtSaved[1], savedContext[1])

-----------------------------------------------------------------------------
(* The calls to the runtime *)

\* Appending to a sequence.
LEMMA AppendOne ==
  ASSUME NEW S, NEW q \in Seq(S), NEW x \in S
  PROVE  /\ Append(q, x) \in Seq(S)
         /\ Len(q) \in Nat
         /\ Len(Append(q, x)) = Len(q) + 1
         /\ \A i \in 1..Len(q) : Append(q, x)[i] = q[i]
         /\ Append(q, x)[Len(q) + 1] = x
OBVIOUS

\* Replacing the last entry of a sequence.
LEMMA ReplaceLast ==
  ASSUME NEW S, NEW q \in Seq(S), NEW x \in S, Len(q) # 0,
         NEW p, p = [q EXCEPT ![Len(q)] = x]
  PROVE  /\ p \in Seq(S)
         /\ Len(p) = Len(q)
         /\ \A i \in 1..Len(q) : i # Len(q) => p[i] = q[i]
         /\ p[Len(q)] = x
OBVIOUS

\* A begun bar is the last one of the chart.
LEMMA OpenRows ==
  ASSUME RunnerAssumption, NEW f, barIndex \in Int, -1 \leq barIndex, BarName \in DOMAIN series,
         RowsOK(f, barIndex, chartBars, currentBar, series[BarName], FALSE),
         NEW b \in R!BarRecords, R!BeginBar(b) \/ R!BeginRealtimeBar(b)
  PROVE  /\ RowsOK(f, barIndex, chartBars', currentBar', series'[BarName], TRUE)
         /\ open'
<1> DEFINE norm == R!Normalized(b)
           shown == [index |-> barIndex + 1 + Offset, bar |-> norm]
<1>1. PICK realtime : R!OpenBar(b, realtime)
  BY DEF R!BeginBar, R!BeginRealtimeBar
<1>2. norm \in R!BarRecords
  BY DEF RunnerAssumption, R!Normalized, R!BarRecords
<1>3. /\ currentBar' = norm /\ chartBars' = Append(chartBars, norm) /\ open'
      /\ series' = [n \in DOMAIN series |->
                      IF n = BarName THEN [series[n] EXCEPT !.current = shown, !.between = FALSE]
                                     ELSE R!InBar(series[n])]
  BY <1>1 DEF R!OpenBar, R!SetTo, R!ExposedBar
<1> HIDE DEF norm
<1>4. shown \in Shown
  BY <1>2 DEF RunnerAssumption, Shown
<1>5. series'[BarName] = [series[BarName] EXCEPT !.current = shown, !.between = FALSE]
  BY <1>3
<1>6. /\ series'[BarName] \in BuiltinSeries /\ series'[BarName].current = shown
      /\ series'[BarName].history = series[BarName].history
  <2> HIDE DEF shown
  <2>1. series[BarName] \in BuiltinSeries
    BY DEF RowsOK
  <2>2. QED
    BY <1>4, <1>5, <2>1 DEF BuiltinSeries
<1>7. /\ chartBars' \in Seq(R!BarRecords) /\ Len(chartBars) = barIndex + 1
      /\ Len(chartBars') = Len(chartBars) + 1
      /\ \A i \in 1..Len(chartBars) : chartBars'[i] = chartBars[i]
      /\ chartBars'[Len(chartBars) + 1] = norm
  <2>1. chartBars \in Seq(R!BarRecords) /\ Len(chartBars) = barIndex + 1
    BY DEF RowsOK
  <2>2. chartBars' = Append(chartBars, norm)
    BY <1>3
  <2>3. QED
    BY <1>2, <2>1, <2>2, AppendOne
<1>8. QED
  BY <1>3, <1>6, <1>7 DEF RowsOK

\* A tick replaces the open bar in both places.
LEMMA TickRows ==
  ASSUME RunnerAssumption, NEW f, barIndex \in Int, -1 \leq barIndex, BarName \in DOMAIN series,
         RowsOK(f, barIndex, chartBars, currentBar, series[BarName], TRUE),
         currentBar' \in R!BarRecords, NEW t, R!UpdateRealtimeTick(t)
  PROVE  /\ RowsOK(f, barIndex, chartBars', currentBar', series'[BarName], TRUE)
         /\ UNCHANGED open
<1> DEFINE next == R!Ticked(currentBar, t)
           shown == [index |-> barIndex + 1 + Offset, bar |-> next]
<1>1. /\ currentBar' = next /\ UNCHANGED open
      /\ chartBars' = [chartBars EXCEPT ![Len(chartBars)] = next]
      /\ series' = [series EXCEPT ![BarName] =
                      [series[BarName] EXCEPT !.current = shown, !.between = FALSE]]
  BY DEF R!UpdateRealtimeTick, R!SetTo, R!ExposedBar, R!LastPlace
<1>2. next \in R!BarRecords
  BY <1>1
<1> HIDE DEF next
<1>3. shown \in Shown
  BY <1>2 DEF RunnerAssumption, Shown
<1>4. series'[BarName] = [series[BarName] EXCEPT !.current = shown, !.between = FALSE]
  BY <1>1
<1>5. /\ series'[BarName] \in BuiltinSeries /\ series'[BarName].current = shown
      /\ series'[BarName].history = series[BarName].history
  <2> HIDE DEF shown
  <2>1. series[BarName] \in BuiltinSeries
    BY DEF RowsOK
  <2>2. QED
    BY <1>3, <1>4, <2>1 DEF BuiltinSeries
<1>6. /\ chartBars' \in Seq(R!BarRecords) /\ Len(chartBars) = barIndex + 2
      /\ Len(chartBars') = Len(chartBars)
      /\ \A i \in 1..Len(chartBars) : i # Len(chartBars) => chartBars'[i] = chartBars[i]
      /\ chartBars'[Len(chartBars)] = next
  <2>1. chartBars \in Seq(R!BarRecords) /\ Len(chartBars) = barIndex + 2
    BY DEF RowsOK
  <2>2. Len(chartBars) # 0
    BY <2>1
  <2>3. QED
    BY <1>1, <1>2, <2>1, <2>2, ReplaceLast
<1>7. QED
  BY <1>1, <1>5, <1>6 DEF RowsOK

\* Ending a bar commits the one that is open.
LEMMA EndRows ==
  ASSUME RunnerAssumption, NEW f, barIndex \in Int, -1 \leq barIndex, BarName \in DOMAIN series,
         RowsOK(f, barIndex, chartBars, currentBar, series[BarName], TRUE),
         currentBar \in R!BarRecords, currentBar.time = f[barIndex + 2].bar.time, R!EndBar
  PROVE  /\ RowsOK(f, barIndex', chartBars', currentBar', series'[BarName], FALSE)
         /\ ~open'
<1> DEFINE s == series[BarName]
           h == s.history
           shown == [index |-> barIndex + 1 + Offset, bar |-> currentBar]
<1>1. /\ barIndex' = barIndex + 1 /\ ~open' /\ UNCHANGED <<currentBar, chartBars>>
      /\ series'[BarName] = [R!Committed(s) EXCEPT !.between = @ \/ ~barstate.realtime]
  BY DEF R!EndBar
<1>2. /\ s \in BuiltinSeries /\ s.current = shown /\ Len(h) = barIndex + 1
      /\ chartBars \in Seq(R!BarRecords) /\ Len(chartBars) = barIndex + 2
      /\ currentBar = chartBars[barIndex + 2]
      /\ \A i \in 1..(barIndex + 1) : /\ h[i] = [index |-> i - 1 + Offset, bar |-> chartBars[i]]
                                      /\ chartBars[i].time = f[i].bar.time
  BY DEF RowsOK
<1>3. h \in Seq(Shown) /\ shown \in Shown
  BY <1>2 DEF RunnerAssumption, BuiltinSeries, Shown
<1>4. R!Committed(s) = [s EXCEPT !.history = Append(h, shown)]
  BY <1>2 DEF BuiltinSeries, R!Committed, R!KeepsHistory
<1>5. Append(h, shown) \in Seq(Shown)
  BY <1>3, AppendOne
<1>6. series'[BarName] \in BuiltinSeries /\ series'[BarName].history = Append(h, shown)
  <2> DEFINE grown == Append(h, shown)
             raised == s.between \/ ~barstate.realtime
  <2>1. raised \in BOOLEAN /\ grown \in Seq(Shown)
    BY <1>5
  <2>2. series'[BarName] = [s EXCEPT !.history = grown, !.between = raised]
    BY <1>1, <1>2, <1>4 DEF BuiltinSeries
  <2> HIDE DEF s, shown, h, grown, raised
  <2>3. series'[BarName] \in BuiltinSeries /\ series'[BarName].history = grown
    BY <1>2, <2>1, <2>2 DEF BuiltinSeries
  <2>4. QED
    BY <2>3 DEF grown
<1> DEFINE h2 == series'[BarName].history
<1>7. /\ Len(h2) = barIndex + 2
      /\ \A i \in 1..(barIndex + 1) : h2[i] = h[i]
      /\ h2[barIndex + 2] = shown
  <2>1. Len(h) + 1 = barIndex + 2
    BY <1>2
  <2> HIDE DEF h, shown
  <2>2. QED
    BY <1>2, <1>3, <1>6, <2>1, AppendOne
<1>8. ASSUME NEW i \in 1..(barIndex + 2)
      PROVE  /\ h2[i] = [index |-> i - 1 + Offset, bar |-> chartBars[i]]
             /\ chartBars[i].time = f[i].bar.time
  <2> HIDE DEF h2
  <2>1. CASE i \in 1..(barIndex + 1)
    BY <1>2, <1>7, <2>1
  <2>2. CASE i = barIndex + 2
    <3>1. barIndex + 1 + Offset = i - 1 + Offset
      BY <2>2 DEF RunnerAssumption
    <3>2. QED
      BY <1>2, <1>7, <2>2, <3>1
  <2>3. QED
    BY <2>1, <2>2
<1>9. QED
  BY <1>1, <1>2, <1>6, <1>7, <1>8 DEF RowsOK

\* A new runtime has no rows.
LEMMA FreshRows ==
  ASSUME NEW f
  PROVE  RowsOK(f, -1, <<>>, None, R!EmptyRegistry[BarName], FALSE)
<1>1. R!EmptyRegistry[BarName] = [dtype |-> "float", initial |-> NA, current |-> NA,
                                  history |-> <<>>, between |-> FALSE]
  BY DEF R!EmptyRegistry, R!NewSeriesOf
<1>2. R!EmptyRegistry[BarName] \in BuiltinSeries /\ R!EmptyRegistry[BarName].history = <<>>
  BY <1>1 DEF BuiltinSeries
<1>3. QED
  BY <1>2 DEF RowsOK

-----------------------------------------------------------------------------
(* The steps of a run *)

\* At the start there are no rows.
LEMMA RowsInit ==
  ASSUME RunnerInit
  PROVE  RowInv
<1>1. /\ barIndex = -1 /\ chartBars = <<>> /\ currentBar = None /\ series = R!EmptyRegistry
      /\ ~open /\ closedtrades = [current |-> 0, history |-> <<>>] /\ savedContext = <<>>
      /\ pc = "call"
  BY DEF RunnerInit, R!Init, ContextInit, NoTrades
<1>2. RowsOK(feed, barIndex, chartBars, currentBar, series[BarName], FALSE)
  BY <1>1, FreshRows
<1>3. ScalarsOK(closedtrades, barIndex + 1)
  BY <1>1 DEF ScalarsOK
<1>4. ~Opened /\ ~InBar
  BY <1>1 DEF Opened, InBar
<1>5. RowsOK(feed, barIndex, chartBars, currentBar, series[BarName], Opened)
  BY <1>2, <1>4 DEF RowsOK
<1>6. QED
  BY <1>1, <1>3, <1>4, <1>5 DEF RowInv

\* A step that leaves the rows where they are.
LEMMA RowsStay ==
  ASSUME RowInv, pc # "raised", Opened' <=> Opened, pc # "snapshot", pc' # "snapshot",
         UNCHANGED <<feed, barIndex, chartBars, currentBar, series, open, closedtrades,
                     savedContext, rtSaved, retried>>
  PROVE  RowInv'
<1> SUFFICES ASSUME ~retried
             PROVE  RowInv'
  BY DEF RowInv
<1>1. /\ open <=> Opened
      /\ RowsOK(feed, barIndex, chartBars, currentBar, series[BarName], Opened)
      /\ ScalarsOK(closedtrades, barIndex + 1)
  BY DEF RowInv
<1>2. RowsOK(feed, barIndex, chartBars, currentBar, series[BarName], Opened')
  BY <1>1 DEF RowsOK
<1>3. RowsOK(feed', barIndex', chartBars', currentBar', series'[BarName], Opened')
  BY <1>2
<1>4. ScalarsOK(closedtrades', barIndex' + 1)
  BY <1>1
<1>5. savedContext' # <<>> => SavedRowsOK(feed', rtSaved'[1], savedContext'[1])
  BY DEF RowInv
<1>6. QED
  BY <1>1, <1>3, <1>4, <1>5 DEF RowInv

\* Calls, flags, passes and commits change no row.
LEMMA QuietRows ==
  ASSUME RowInv, Call \/ FlagHistory \/ BeginPass \/ RunLine \/ EndPass \/ CommitTheIntents
  PROVE  RowInv'
<1>1. /\ UNCHANGED <<feed, barIndex, chartBars, currentBar, series, open, closedtrades,
                     savedContext, rtSaved, retried>>
      /\ \/ pc = "call" /\ pc' \in {"done", "bar"}
         \/ pc \in {"flag", "pass", "script", "commit"} /\ pc' \in {"pass", "script", "tick", "commit", "end",
                                                                   "unsupported"}
  <2>1. CASE Call
    BY <2>1 DEF Call, AttachRuntime, contextVars, rtVars, hostVars, inputs
  <2>2. CASE FlagHistory
    BY <2>2 DEF FlagHistory, R!SetLastConfirmedHistory, allVars, contextVars, hostVars, inputs
  <2>3. CASE BeginPass
    BY <2>3 DEF BeginPass, BeginIntentCallback, rtVars, hostVars, inputs
  <2>4. CASE RunLine
    <3>1. UNCHANGED <<closedtrades, savedContext>>
      BY <2>4 DEF RunLine, Submit, PlaceOrder, CancelOrder, CancelAll, AddRiskRule
    <3>2. QED
      BY <2>4, <3>1 DEF RunLine, rtVars, hostVars, inputs
  <2>5. CASE EndPass
    BY <2>5 DEF EndPass, allVars, contextVars, rtVars, hostVars, inputs
  <2>6. CASE CommitTheIntents
    BY <2>6 DEF CommitTheIntents, CommitIntents, contextVars, rtVars, hostVars, inputs
  <2>7. QED
    BY <2>1, <2>2, <2>3, <2>4, <2>5, <2>6
<1>2. QED
  BY <1>1, RowsStay DEF Opened, InBar

\* The parts of the invariants about a state in which no call has raised.
LEMMA RowsNow ==
  ASSUME RInv, RowInv, ~retried, pc # "raised"
  PROVE  /\ barIndex \in Int /\ -1 \leq barIndex /\ BarName \in DOMAIN series
         /\ open <=> Opened
         /\ RowsOK(feed, barIndex, chartBars, currentBar, series[BarName], Opened)
         /\ ScalarsOK(closedtrades, IF pc = "snapshot" THEN barIndex ELSE barIndex + 1)
BY DEF RInv, Usable, RowInv

\* What was shown of a state gives the invariant after the step.
LEMMA RowsThen ==
  ASSUME NEW isopen \in BOOLEAN, Opened' <=> isopen, open' <=> isopen,
         RowsOK(feed', barIndex', chartBars', currentBar', series'[BarName], isopen),
         ScalarsOK(closedtrades', IF pc' = "snapshot" THEN barIndex' ELSE barIndex' + 1),
         savedContext' # <<>> => SavedRowsOK(feed', rtSaved'[1], savedContext'[1])
  PROVE  RowInv'
<1>1. RowsOK(feed', barIndex', chartBars', currentBar', series'[BarName], Opened')
  BY DEF RowsOK
<1>2. QED
  BY <1>1 DEF RowInv

\* Beginning a bar.
LEMMA BeginRows ==
  ASSUME RunnerAssumption, RInv, RowInv, BeginHistoricalBar \/ BeginLiveBar
  PROVE  RowInv'
<1> SUFFICES ASSUME ~retried
             PROVE  RowInv'
  BY DEF BeginHistoricalBar, BeginLiveBar, hostVars, RowInv
<1>1. /\ UNCHANGED <<feed, closedtrades, savedContext>>
      /\ pc = "bar" /\ pc' \in {"flag", "tick"}
      /\ R!BeginBar(feed[bar].bar) \/ R!BeginRealtimeBar(feed[bar].bar)
  BY DEF BeginHistoricalBar, BeginLiveBar, hostVars, inputs, allVars, contextVars
<1>2. ~Opened /\ Opened'
  BY <1>1 DEF Opened, InBar
<1>3. bar \in 1..Len(feed)
  BY <1>1, FeedLength DEF RInv, Placed, Usable
<1>4. feed[bar].bar \in R!BarRecords
  BY <1>3, AtBar DEF RInv
<1>5. RowsOK(feed, barIndex, chartBars, currentBar, series[BarName], FALSE)
  BY <1>1, <1>2, RowsNow DEF RowsOK
<1>6. RowsOK(feed, barIndex, chartBars', currentBar', series'[BarName], TRUE) /\ open'
  BY <1>1, <1>4, <1>5, RowsNow, OpenRows
<1>7. UNCHANGED <<barIndex, rtSaved>>
  BY <1>1 DEF R!BeginBar, R!BeginRealtimeBar, R!OpenBar
<1>8. ScalarsOK(closedtrades', barIndex' + 1) /\ pc' # "snapshot"
  BY <1>1, <1>7, RowsNow
<1>9. savedContext' # <<>> => SavedRowsOK(feed', rtSaved'[1], savedContext'[1])
  BY <1>1, <1>7 DEF RowInv
<1>10. RowsOK(feed', barIndex', chartBars', currentBar', series'[BarName], TRUE)
  BY <1>1, <1>6, <1>7
<1>11. QED
  BY <1>2, <1>6, <1>8, <1>9, <1>10, RowsThen

\* A tick of a bar.
LEMMA FeedTickRows ==
  ASSUME RunnerAssumption, RInv, RInv', RowInv, FeedTick
  PROVE  RowInv'
<1> SUFFICES ASSUME ~retried
             PROVE  RowInv'
  BY DEF FeedTick, hostVars, RowInv
<1>1. /\ UNCHANGED <<feed, closedtrades, savedContext>>
      /\ pc = "tick" /\ pc' = "pass"
      /\ \E t : R!UpdateRealtimeTick(t)
  BY DEF FeedTick, hostVars, inputs, allVars, contextVars
<1>2. Opened /\ Opened' /\ InBar'
  BY <1>1 DEF Opened, InBar
<1>3. currentBar' \in R!BarRecords
  BY <1>2 DEF RInv, Placed, OnItsBar
<1>4. RowsOK(feed, barIndex, chartBars, currentBar, series[BarName], TRUE) /\ open
  BY <1>1, <1>2, RowsNow DEF RowsOK
<1>5. PICK t : R!UpdateRealtimeTick(t)
  BY <1>1
<1>6. RowsOK(feed, barIndex, chartBars', currentBar', series'[BarName], TRUE) /\ open'
  BY <1>1, <1>3, <1>4, <1>5, RowsNow, TickRows
<1>7. UNCHANGED <<barIndex, rtSaved>>
  BY <1>5 DEF R!UpdateRealtimeTick
<1>8. ScalarsOK(closedtrades', barIndex' + 1) /\ pc' # "snapshot"
  BY <1>1, <1>7, RowsNow
<1>9. savedContext' # <<>> => SavedRowsOK(feed', rtSaved'[1], savedContext'[1])
  BY <1>1, <1>7 DEF RowInv
<1>10. RowsOK(feed', barIndex', chartBars', currentBar', series'[BarName], TRUE)
  BY <1>1, <1>6, <1>7
<1>11. QED
  BY <1>2, <1>6, <1>8, <1>9, <1>10, RowsThen

\* The end of a bar; its scalar row is still missing.
LEMMA EndBarRows ==
  ASSUME RunnerAssumption, RInv, RowInv, EndTheBar
  PROVE  RowInv'
<1> SUFFICES ASSUME ~retried
             PROVE  RowInv'
  BY DEF EndTheBar, hostVars, RowInv
<1>1. /\ UNCHANGED <<feed, closedtrades, savedContext>>
      /\ pc = "end" /\ pc' = "snapshot" /\ R!EndBar
  BY DEF EndTheBar, hostVars, inputs, allVars, contextVars
<1>2. Opened /\ InBar /\ ~Opened'
  BY <1>1 DEF Opened, InBar
<1>3. currentBar \in R!BarRecords /\ currentBar.time = feed[barIndex + 2].bar.time
  BY <1>2 DEF RInv, Placed, OnItsBar
<1>4. RowsOK(feed, barIndex, chartBars, currentBar, series[BarName], TRUE)
  BY <1>1, <1>2, RowsNow DEF RowsOK
<1>5. RowsOK(feed, barIndex', chartBars', currentBar', series'[BarName], FALSE) /\ ~open'
  BY <1>1, <1>3, <1>4, RowsNow, EndRows
<1>6. barIndex' = barIndex + 1 /\ UNCHANGED rtSaved
  BY <1>1 DEF R!EndBar
<1>7. ScalarsOK(closedtrades', barIndex')
  BY <1>1, <1>6, RowsNow
<1>8. savedContext' # <<>> => SavedRowsOK(feed', rtSaved'[1], savedContext'[1])
  BY <1>1, <1>6 DEF RowInv
<1>9. QED
  BY <1>1, <1>2, <1>5, <1>7, <1>8, RowsThen

\* The scalar row of the bar.
LEMMA ScalarRow ==
  ASSUME RInv, RowInv, TakeSnapshot
  PROVE  RowInv'
<1> SUFFICES ASSUME ~retried
             PROVE  RowInv'
  BY DEF TakeSnapshot, hostVars, RowInv
<1>1. /\ UNCHANGED <<feed, barIndex, chartBars, currentBar, series, open, savedContext, rtSaved>>
      /\ pc = "snapshot" /\ pc' = "progress"
      /\ closedtrades' = [closedtrades EXCEPT !.history = Append(@, closedtrades.current)]
  BY DEF TakeSnapshot, CommitScalarHistory, rtVars, hostVars, inputs
<1>2. ~Opened /\ ~Opened'
  BY <1>1 DEF Opened, InBar
<1>3. RowsOK(feed', barIndex', chartBars', currentBar', series'[BarName], FALSE) /\ ~open'
  BY <1>1, <1>2, RowsNow DEF RowsOK
<1>4. ScalarsOK(closedtrades', barIndex' + 1)
  <2>1. closedtrades \in [current : Nat, history : Seq(Nat)] /\ Len(closedtrades.history) = barIndex
    BY <1>1, RowsNow DEF ScalarsOK
  <2>2. /\ Append(closedtrades.history, closedtrades.current) \in Seq(Nat)
        /\ Len(Append(closedtrades.history, closedtrades.current)) = barIndex + 1
    BY <2>1, AppendOne
  <2>3. QED
    BY <1>1, <2>1, <2>2 DEF ScalarsOK
<1>5. savedContext' # <<>> => SavedRowsOK(feed', rtSaved'[1], savedContext'[1])
  BY <1>1 DEF RowInv
<1>6. QED
  BY <1>1, <1>2, <1>3, <1>4, <1>5, RowsThen

\* The checkpoints of a progress callback hold the rows of one moment.
LEMMA ProgressRows ==
  ASSUME RInv, RowInv, NEW keep \in BOOLEAN, ReportProgress(keep)
  PROVE  RowInv'
<1> SUFFICES ASSUME ~retried
             PROVE  RowInv'
  BY DEF ReportProgress, hostVars, RowInv
<1>1. /\ UNCHANGED <<feed, barIndex, chartBars, currentBar, series, open, closedtrades>>
      /\ pc = "progress" /\ pc' \in {"done", "bar"}
  BY DEF ReportProgress, ExportStrategy, R!ExportState, R!runtimeVars, allVars, contextVars,
         rtVars, hostVars, inputs
<1>2. ~Opened /\ ~Opened'
  BY <1>1 DEF Opened, InBar
<1>3. /\ RowsOK(feed, barIndex, chartBars, currentBar, series[BarName], FALSE) /\ ~open
      /\ ScalarsOK(closedtrades, barIndex + 1)
  BY <1>1, <1>2, RowsNow DEF RowsOK
<1>4. savedContext' # <<>> => SavedRowsOK(feed', rtSaved'[1], savedContext'[1])
  <2>1. CASE keep
    <3>0. /\ rtSaved' = <<R!Snapshot(TRUE)>>
          /\ savedContext' = <<[pending |-> pending, rules |-> rules, scope |-> scope,
                                closedtrades |-> closedtrades]>>
      BY <2>1 DEF ReportProgress, ExportStrategy, R!ExportState
    <3>1. rtSaved' = <<R!Snapshot(TRUE)>> /\ savedContext'[1].closedtrades = closedtrades
      BY <3>0
    <3>2. /\ rtSaved'[1].barIndex = barIndex /\ rtSaved'[1].chartBars = chartBars
          /\ rtSaved'[1].currentBar = currentBar /\ rtSaved'[1].series = series
          /\ rtSaved'[1].open = open
      BY <3>1 DEF R!Snapshot
    <3>3. QED
      BY <1>1, <1>3, <3>1, <3>2 DEF SavedRowsOK
  <2>2. CASE ~keep
    <3>1. UNCHANGED <<savedContext, rtSaved>>
      BY <2>2 DEF ReportProgress, allVars, contextVars, rtVars
    <3>2. QED
      BY <1>1, <3>1 DEF RowInv
  <2>3. QED
    BY <2>1, <2>2
<1>5. QED
  BY <1>1, <1>2, <1>3, <1>4, RowsThen

\* Both objects go back to the rows of one moment.
LEMMA RestoreRows ==
  ASSUME RowInv, RestoreStrategy, R!RestoreState, UNCHANGED <<feed, retried>>, pc' = "call"
  PROVE  RowInv'
<1> SUFFICES ASSUME ~retried
             PROVE  RowInv'
  BY DEF RowInv
<1>1. /\ savedContext # <<>> /\ UNCHANGED <<savedContext, rtSaved>>
      /\ closedtrades' = savedContext[1].closedtrades
      /\ barIndex' = rtSaved[1].barIndex /\ series' = rtSaved[1].series
      /\ chartBars' = rtSaved[1].chartBars /\ currentBar' = rtSaved[1].currentBar
      /\ open' = rtSaved[1].open
  BY DEF RestoreStrategy, R!RestoreState, R!RestoredSeries
<1>2. SavedRowsOK(feed, rtSaved[1], savedContext[1])
  BY <1>1 DEF RowInv
<1>3. ~Opened'
  BY DEF Opened, InBar
<1>4. /\ RowsOK(feed', barIndex', chartBars', currentBar', series'[BarName], FALSE) /\ ~open'
      /\ ScalarsOK(closedtrades', barIndex' + 1)
  BY <1>1, <1>2 DEF SavedRowsOK
<1>5. savedContext' # <<>> => SavedRowsOK(feed', rtSaved'[1], savedContext'[1])
  BY <1>1, <1>2
<1>6. QED
  BY <1>3, <1>4, <1>5, RowsThen

\* New objects have no rows.
LEMMA NewRows ==
  ASSUME RowInv, NewContext, R!NewRuntime, UNCHANGED <<feed, retried>>, pc' = "died"
  PROVE  RowInv'
<1> SUFFICES ASSUME ~retried
             PROVE  RowInv'
  BY DEF RowInv
<1>1. /\ UNCHANGED <<savedContext, rtSaved>>
      /\ closedtrades' = [current |-> 0, history |-> <<>>]
      /\ barIndex' = -1 /\ series' = R!EmptyRegistry /\ chartBars' = <<>> /\ currentBar' = None
      /\ ~open'
  BY DEF NewContext, NoTrades, R!NewRuntime
<1>2. RowsOK(feed', barIndex', chartBars', currentBar', series'[BarName], FALSE)
  BY <1>1, FreshRows
<1>3. ScalarsOK(closedtrades', barIndex' + 1)
  BY <1>1 DEF ScalarsOK
<1>4. ~Opened'
  BY DEF Opened, InBar
<1>5. savedContext' # <<>> => SavedRowsOK(feed', rtSaved'[1], savedContext'[1])
  BY <1>1 DEF RowInv
<1>6. QED
  BY <1>1, <1>2, <1>3, <1>4, <1>5, RowsThen

\* A call that raises leaves the checkpoints alone; after a retry on the same
\* objects nothing is claimed.
LEMMA FailureRows ==
  ASSUME RowInv, Raise \/ Retry
  PROVE  RowInv'
<1>1. CASE Raise
  BY <1>1 DEF Raise, RowInv, allVars, contextVars, rtVars, inputs
<1>2. CASE Retry
  BY <1>2 DEF Retry, RowInv
<1>3. QED
  BY <1>1, <1>2

\* A resume without checkpoints starts with the new objects.
LEMMA ResumeRows ==
  ASSUME RowInv, Resume
  PROVE  RowInv'
<1>1. UNCHANGED <<feed, retried>> /\ pc' = "call" /\ pc = "died"
  BY DEF Resume, hostVars, inputs
<1>2. CASE savedContext = <<>>
  <2>1. UNCHANGED <<barIndex, chartBars, currentBar, series, open, closedtrades,
                    savedContext, rtSaved>>
    BY <1>2 DEF Resume, allVars, contextVars, rtVars
  <2>2. QED
    BY <1>1, <2>1, RowsStay DEF Opened, InBar
<1>3. CASE savedContext # <<>>
  BY <1>1, <1>3, RestoreRows DEF Resume
<1>4. QED
  BY <1>2, <1>3

\* No step parts the rows.
LEMMA NextKeepsRows ==
  ASSUME RunnerAssumption, RInv, RInv', RowInv, [RunnerNext]_runnerVars
  PROVE  RowInv'
<1>1. CASE Call \/ FlagHistory \/ BeginPass \/ RunLine \/ EndPass \/ CommitTheIntents
  BY <1>1, QuietRows
<1>2. CASE BeginHistoricalBar \/ BeginLiveBar
  BY <1>2, BeginRows
<1>3. CASE FeedTick
  BY <1>3, FeedTickRows
<1>4. CASE EndTheBar
  BY <1>4, EndBarRows
<1>5. CASE TakeSnapshot
  BY <1>5, ScalarRow
<1>6. ASSUME NEW keep \in BOOLEAN, ReportProgress(keep)
      PROVE  RowInv'
  BY <1>6, ProgressRows
<1>7. CASE Raise \/ Retry
  BY <1>7, FailureRows
<1>8. CASE RollBack
  BY <1>8, RestoreRows DEF RollBack, hostVars, inputs
<1>9. CASE Discard \/ Die
  BY <1>9, NewRows DEF Discard, Die, hostVars, inputs
<1>10. CASE Resume
  BY <1>10, ResumeRows
<1>11. CASE Finished \/ UNCHANGED runnerVars
  <2>1. UNCHANGED runnerVars
    BY <1>11 DEF Finished
  <2>2. UNCHANGED <<feed, barIndex, chartBars, currentBar, series, open, closedtrades,
                    savedContext, rtSaved, retried, pc>>
    BY <2>1 DEF runnerVars, allVars, contextVars, rtVars, hostVars, inputs
  <2>3. QED
    BY <2>2 DEF RowInv, Opened, InBar
<1>12. QED
  BY <1>1, <1>2, <1>3, <1>4, <1>5, <1>6, <1>7, <1>8, <1>9, <1>10, <1>11
     DEF RunnerNext, Loop, Recover

-----------------------------------------------------------------------------
(* Theorems *)

\* The rows of the two objects, live and saved, stay together.
THEOREM RowsInductive == RunnerSpec => []RowInv
<1>1. RunnerInit => RowInv
  BY RowsInit
<1>2. RInv /\ RInv' /\ RowInv /\ [RunnerNext]_runnerVars => RowInv'
  BY NextKeepsRows, RunnerAssumption
<1>3. QED
  BY <1>1, <1>2, RunnerInductive, PTL DEF RunnerSpec

\* Between two bars the chart, the built-in series, the scalar history and the
\* bar index count the same bars of the feed, wherever a call raised or the
\* process died and the host put both objects back (backtest.py:317 writes them
\* in three calls).
THEOREM RunKeepsRows == RunnerSpec => []RowsAligned
<1>1. ASSUME RInv, RowInv
      PROVE  RowsAligned
  <2> SUFFICES ASSUME ~retried, pc \in {"call", "bar", "done"}
               PROVE  /\ R!BarsAligned /\ ~open
                      /\ Len(closedtrades.history) = barIndex + 1
                      /\ \A n \in 1..(barIndex + 1) : chartBars[n].time = feed[n].bar.time
    BY DEF RowsAligned
  <2>1. ~Opened /\ pc \notin {"raised", "snapshot"}
    BY DEF Opened, InBar
  <2>2. /\ ~open /\ barIndex \in Int /\ -1 \leq barIndex
        /\ RowsOK(feed, barIndex, chartBars, currentBar, series[BarName], FALSE)
        /\ ScalarsOK(closedtrades, barIndex + 1)
    BY <1>1, <2>1, RowsNow DEF RowsOK
  <2> DEFINE h == series[BarName].history
  <2>3. /\ h \in Seq(Shown) /\ Len(h) = barIndex + 1
        /\ \A i \in 1..(barIndex + 1) :
             h[i] = [index |-> i - 1 + Offset, bar |-> chartBars[i]]
    BY <2>2 DEF RowsOK, BuiltinSeries
  <2>4. h = [i \in 1..(barIndex + 1) |-> [index |-> i - 1 + Offset, bar |-> chartBars[i]]]
    <3> HIDE DEF h
    <3>1. h = [i \in 1..Len(h) |-> h[i]]
      BY <2>3
    <3>2. QED
      BY <2>3, <3>1
  <2>5. R!BarsAligned
    <3>1. chartBars # <<>> => Len(chartBars) # 0
      BY <2>2 DEF RowsOK
    <3>2. QED
      BY <2>2, <2>4, <3>1 DEF RowsOK, R!BarsAligned
  <2>6. QED
    BY <2>2, <2>5 DEF RowsOK, ScalarsOK
<1>2. QED
  BY <1>1, RunnerInductive, RowsInductive, PTL

-----------------------------------------------------------------------------
(* What a run delivers *)

\* The lemmas about FlattenSeq and the induction over numbers do not depend on
\* the operator the folds are taken of.
Either(x, y) == x

F == INSTANCE FoldLemmas WITH Op <- Either

-----------------------------------------------------------------------------
(* What a run delivers, as a function of the series of its tape *)

PassKeysOf(ser, n, recalc) ==
  [i \in DOMAIN script[<<n, recalc>>] |->
     [series |-> ser, pos |-> PositionOf(n), phase |-> "BAR_BEGIN",
      recalc |-> recalc, command |-> script[<<n, recalc>>][i],
      ordinal |-> Cardinality({j \in 1..(i - 1) :
                                 script[<<n, recalc>>][j] = script[<<n, recalc>>][i]})]]

\* The first k passes of bar n, and the first n bars.
PassesUpTo(ser, n, k) == FlattenSeq([j \in 1..k |-> PassKeysOf(ser, n, j - 1)])
BarsUpTo(ser, n) == FlattenSeq([m \in 1..n |-> PassesUpTo(ser, m, PassesOf(m))])

\* The sequence p is how s starts.
Starts(p, s) == Len(p) <= Len(s) /\ \A i \in 1..Len(p) : p[i] = s[i]

\* What has been delivered of bar n when k passes and l lines of the next are done.
Within(ser, n, k, l) ==
  PassesUpTo(ser, n, k) \o SubSeq(PassKeysOf(ser, n, k), 1, l)

\* What the loop has delivered where it stands.
Delivering(ser) ==
  CASE pc = "tick"                -> BarsUpTo(ser, bar - 1) \o PassesUpTo(ser, bar, tick)
    [] pc = "pass"                -> BarsUpTo(ser, bar - 1) \o PassesUpTo(ser, bar, Recalc)
    [] pc = "script"              -> BarsUpTo(ser, bar - 1) \o Within(ser, bar, Recalc, line - 1)
    [] pc \in {"commit", "end"}   -> BarsUpTo(ser, bar)
    [] OTHER                      -> BarsUpTo(ser, barIndex + 1)

KeysOn(evs) == [i \in DOMAIN evs |-> evs[i].key]

\* The tape is a start of what the run delivers and has what the loop has
\* delivered; after a retry on the same objects it may be ahead of the loop.
Delivered ==
  /\ Starts(Recorded, BarsUpTo(identity.series, Len(feed)))
  /\ Starts(Delivering(identity.series), Recorded)
  /\ ~retried /\ pc # "raised" => Len(events) = Len(Delivering(identity.series))

\* In a pass the facade has the scope of the pass, and the tape has counted the
\* lines done.
InPass ==
  pc = "script" =>
    /\ scope = [phase |-> "BAR_BEGIN", recalc |-> Recalc]
    /\ line <= Len(Lines) + 1
    /\ \A c \in Commands :
         counts[c] = Cardinality({j \in 1..(line - 1) : Lines[j] = c})

\* The tape of a checkpoint is a start of what the run delivers, and has what was
\* delivered when its last bar ended.
KeptTo(st, index) ==
  /\ Starts(KeysOn(st.events), BarsUpTo(st.identity.series, Len(feed)))
  /\ Starts(BarsUpTo(st.identity.series, index + 1), KeysOn(st.events))
  /\ ~retried => Len(KeysOn(st.events)) = Len(BarsUpTo(st.identity.series, index + 1))

SavedDelivered == savedContext # <<>> => KeptTo(saved[1], rtSaved[1].barIndex)

DInv == Delivered /\ InPass /\ SavedDelivered

-----------------------------------------------------------------------------
(* Starts of sequences *)

\* It is what IsPrefix says of sequences.
LEMMA StartsIsPrefix ==
  ASSUME NEW U, NEW p \in Seq(U), NEW s \in Seq(U)
  PROVE  Starts(p, s) <=> IsPrefix(p, s)
<1>1. Len(p) \in Nat /\ Len(s) \in Nat /\ SubSeq(p, 1, Len(p)) = p
  OBVIOUS
<1>2. CASE Len(p) <= Len(s)
  <2>1. PICK q : q = SubSeq(s, 1, Len(p))
    OBVIOUS
  <2>2. q \in Seq(U) /\ Len(q) = Len(p) /\ \A i \in 1..Len(p) : q[i] = s[i]
    BY <1>1, <1>2, <2>1
  <2>3. (\A i \in 1..Len(p) : p[i] = s[i]) <=> p = q
    <3>1. ASSUME \A i \in 1..Len(p) : p[i] = s[i] PROVE p = q
      BY <2>2, <3>1
    <3>2. QED
      BY <2>2, <3>1
  <2>4. QED
    BY <1>1, <1>2, <2>1, <2>3 DEF Starts, IsPrefix
<1>3. CASE ~(Len(p) <= Len(s))
  BY <1>3 DEF Starts, IsPrefix
<1>4. QED
  BY <1>2, <1>3

\* A sequence starts itself.
LEMMA StartsSelf ==
  ASSUME NEW U, NEW s \in Seq(U)
  PROVE  Starts(s, s)
BY DEF Starts

\* The start of a start is a start.
LEMMA StartsTransitive ==
  ASSUME NEW U, NEW p \in Seq(U), NEW q \in Seq(U), NEW s \in Seq(U),
         Starts(p, q), Starts(q, s)
  PROVE  Starts(p, s)
<1>1. Len(p) \in Nat /\ Len(q) \in Nat /\ Len(s) \in Nat
  OBVIOUS
<1>2. QED
  BY <1>1 DEF Starts

\* A start that is as long is the whole.
LEMMA StartsWhole ==
  ASSUME NEW U, NEW p \in Seq(U), NEW s \in Seq(U), Starts(p, s), Len(p) = Len(s)
  PROVE  p = s
BY DEF Starts

\* What was there before an append, or before more was appended.
LEMMA StartsConcat ==
  ASSUME NEW U, NEW p \in Seq(U), NEW q \in Seq(U)
  PROVE  /\ p \o q \in Seq(U)
         /\ Starts(p, p \o q)
         /\ \A r \in Seq(U) : Starts(q, r) => Starts(p \o q, p \o r)
<1>1. p \o q \in Seq(U) /\ Starts(p, p \o q)
  BY DEF Starts
<1>2. ASSUME NEW r \in Seq(U), Starts(q, r)
      PROVE  Starts(p \o q, p \o r)
  <2>1. /\ Len(p) \in Nat /\ Len(q) \in Nat /\ Len(r) \in Nat
        /\ Len(p \o q) = Len(p) + Len(q) /\ Len(p \o r) = Len(p) + Len(r)
    OBVIOUS
  <2>2. ASSUME NEW i \in 1..(Len(p) + Len(q))
        PROVE  (p \o q)[i] = (p \o r)[i]
    <3>1. CASE i <= Len(p)
      BY <2>1, <3>1
    <3>2. CASE ~(i <= Len(p))
      <4>1. i - Len(p) \in 1..Len(q) /\ i - Len(p) \in 1..Len(r)
        BY <1>2, <2>1, <3>2 DEF Starts
      <4>2. q[i - Len(p)] = r[i - Len(p)]
        BY <1>2, <4>1 DEF Starts
      <4>3. (p \o q)[i] = q[i - Len(p)] /\ (p \o r)[i] = r[i - Len(p)]
        BY <1>2, <2>1, <3>2 DEF Starts
      <4>4. QED
        BY <4>2, <4>3
    <3>3. QED
      BY <3>1, <3>2
  <2>3. QED
    BY <1>2, <2>1, <2>2 DEF Starts
<1>3. QED
  BY <1>1, <1>2

\* The first places of a sequence, and one more.
LEMMA StartsSubSeq ==
  ASSUME NEW U, NEW s \in Seq(U), NEW l \in 0..Len(s)
  PROVE  /\ SubSeq(s, 1, l) \in Seq(U) /\ Len(SubSeq(s, 1, l)) = l
         /\ \A i \in 1..l : SubSeq(s, 1, l)[i] = s[i]
         /\ Starts(SubSeq(s, 1, l), s)
         /\ l + 1 <= Len(s) => SubSeq(s, 1, l + 1) = Append(SubSeq(s, 1, l), s[l + 1])
<1>1. /\ SubSeq(s, 1, l) \in Seq(U) /\ Len(SubSeq(s, 1, l)) = l
      /\ \A i \in 1..l : SubSeq(s, 1, l)[i] = s[i]
  OBVIOUS
<1>2. Starts(SubSeq(s, 1, l), s)
  BY <1>1 DEF Starts
<1>3. ASSUME l + 1 <= Len(s)
      PROVE  SubSeq(s, 1, l + 1) = Append(SubSeq(s, 1, l), s[l + 1])
  BY <1>1, <1>3
<1>4. QED
  BY <1>1, <1>2, <1>3

\* A start and the element that follows.
LEMMA StartsNext ==
  ASSUME NEW U, NEW p \in Seq(U), NEW s \in Seq(U), NEW e \in U,
         Starts(Append(p, e), s)
  PROVE  Len(p) + 1 \in 1..Len(s) /\ s[Len(p) + 1] = e
<1>1. Len(Append(p, e)) = Len(p) + 1 /\ Append(p, e)[Len(p) + 1] = e /\ Len(p) \in Nat
  OBVIOUS
<1>2. QED
  BY <1>1 DEF Starts

\* A start is extended by the element that follows.
LEMMA StartsAppend ==
  ASSUME NEW U, NEW p \in Seq(U), NEW s \in Seq(U), NEW e \in U, Starts(p, s),
         Len(p) + 1 <= Len(s), s[Len(p) + 1] = e
  PROVE  Starts(Append(p, e), s)
<1>1. /\ Len(Append(p, e)) = Len(p) + 1 /\ Append(p, e)[Len(p) + 1] = e /\ Len(p) \in Nat
      /\ \A i \in 1..Len(p) : Append(p, e)[i] = p[i]
  OBVIOUS
<1>2. \A i \in 1..Len(Append(p, e)) : i \in 1..Len(p) \/ i = Len(p) + 1
  BY <1>1
<1>3. QED
  BY <1>1, <1>2 DEF Starts

-----------------------------------------------------------------------------
(* FlattenSeq *)

\* The facts of FoldLemmas, about the operator the model uses.
LEMMA FlattenFacts ==
  ASSUME NEW U, NEW s \in Seq(Seq(U)), NEW e \in Seq(U)
  PROVE  /\ FlattenSeq(<<>>) = <<>>
         /\ FlattenSeq(s) \in Seq(U)
         /\ FlattenSeq(Append(s, e)) = FlattenSeq(s) \o e
<1>1. \A r : F!FlattenSeq(r) = FlattenSeq(r)
  BY DEF F!FlattenSeq, FlattenSeq
<1>2. QED
  BY <1>1, F!FlattenEmpty, F!FlattenAppend

\* Flattened sequences are a sequence.
LEMMA FlattenType ==
  ASSUME NEW U, NEW s \in Seq(Seq(U))
  PROVE  FlattenSeq(s) \in Seq(U)
<1>1. <<>> \in Seq(U)
  OBVIOUS
<1>2. QED
  BY <1>1, FlattenFacts

\* A function on one number more is one element more.
LEMMA OneMore ==
  ASSUME NEW T, NEW n \in Nat, NEW f \in [1..(n + 1) -> T],
         NEW g, g = [i \in 1..n |-> f[i]]
  PROVE  g \in Seq(T) /\ f[n + 1] \in T /\ f = Append(g, f[n + 1])
<1>1. n + 1 \in 1..(n + 1) /\ \A i \in 1..n : i \in 1..(n + 1)
  OBVIOUS
<1>2. PICK e \in T : e = f[n + 1]
  BY <1>1
<1>3. g \in [1..n -> T]
  BY <1>1
<1>4. g \in Seq(T) /\ Len(g) = n
  BY <1>3
<1>5. f \in Seq(T) /\ Len(f) = n + 1
  OBVIOUS
<1>6. PICK h : h = Append(g, e)
  OBVIOUS
<1>7. h \in Seq(T) /\ Len(h) = n + 1 /\ h[n + 1] = e /\ \A i \in 1..n : h[i] = g[i]
  BY <1>4, <1>6
<1>8. \A i \in 1..(n + 1) : i \in 1..n \/ i = n + 1
  OBVIOUS
<1>9. \A i \in 1..(n + 1) : h[i] = f[i]
  BY <1>2, <1>7, <1>8
<1>10. f = h
  BY <1>5, <1>7, <1>9
<1>11. QED
  BY <1>2, <1>4, <1>6, <1>10

-----------------------------------------------------------------------------
(* The deliveries of passes and bars *)

\* The keys of the run, those of the first n bars, of bar n before pass k, and of
\* a pass.
AllKeys ==
  [series : Series, pos : Positions, phase : Phases, recalc : Nat, command : Commands,
   ordinal : Nat]

KeysTo(n) == {key \in AllKeys : \E m \in 1..n : key.pos = PositionOf(m)}
KeysBefore(n, k) == {key \in AllKeys : key.pos = PositionOf(n) /\ key.recalc < k}
KeysAt(n, k) == {key \in AllKeys : key.pos = PositionOf(n) /\ key.recalc = k}

\* What the lemmas need of the inputs of a run.
Inputs ==
  /\ TapeAssumption /\ RunnerAssumption
  /\ feed \in Feeds /\ script \in Scripts

\* The earlier lines that say the same, counted.
Earlier(lines, c, l) == Cardinality({j \in 1..(l - 1) : lines[j] = c})

\* How the count grows from line to line.
LEMMA EarlierGrows ==
  ASSUME NEW lines, NEW c, NEW l \in Nat \ {0}
  PROVE  /\ Earlier(lines, c, l) \in Nat
         /\ Earlier(lines, c, l + 1) = IF lines[l] = c THEN Earlier(lines, c, l) + 1
                                                       ELSE Earlier(lines, c, l)
<1> DEFINE S == {j \in 1..(l - 1) : lines[j] = c}
           T == {j \in 1..l : lines[j] = c}
<1>1. IsFiniteSet(S)
  <2>1. IsFiniteSet(1..(l - 1))
    BY FS_Interval
  <2>2. QED
    BY <2>1, FS_Subset
<1>2. Cardinality(S) \in Nat
  BY <1>1, FS_CardinalityType
<1>3. 1..l = 1..(l - 1) \cup {l} /\ l \notin S
  OBVIOUS
<1>0. Earlier(lines, c, l) = Cardinality(S) /\ Earlier(lines, c, l + 1) = Cardinality(T)
  <2>1. l + 1 - 1 = l
    OBVIOUS
  <2>2. QED
    BY <2>1 DEF Earlier
<1>4. CASE lines[l] = c
  <2>1. T = S \cup {l}
    BY <1>3, <1>4
  <2>2. Cardinality(T) = Cardinality(S) + 1
    BY <1>1, <1>3, <2>1, FS_AddElement
  <2>3. QED
    BY <1>0, <1>2, <1>4, <2>2
<1>5. CASE lines[l] # c
  <2>1. T = S
    BY <1>3, <1>5
  <2>2. QED
    BY <1>0, <1>2, <1>5, <2>1
<1>6. QED
  BY <1>4, <1>5

\* A line that repeats an earlier one has a larger count.
LEMMA EarlierDiffers ==
  ASSUME NEW lines, NEW l \in Nat, NEW i \in 1..(l - 1), lines[i] = lines[l]
  PROVE  Earlier(lines, lines[l], i) # Earlier(lines, lines[l], l)
<1> DEFINE S == {j \in 1..(l - 1) : lines[j] = lines[l]}
           T == {j \in 1..(i - 1) : lines[j] = lines[l]}
<1>1. IsFiniteSet(S)
  <2>1. IsFiniteSet(1..(l - 1))
    BY FS_Interval
  <2>2. QED
    BY <2>1, FS_Subset
<1>2. T \in SUBSET S /\ i \in S /\ i \notin T
  OBVIOUS
<1>3. Cardinality(S) # Cardinality(T)
  BY <1>1, <1>2, FS_Subset
<1>4. QED
  BY <1>3 DEF Earlier

\* A bar has a pass, and its passes have the recalculations the tape accepts.
LEMMA PassesBound ==
  ASSUME Inputs, NEW n \in 1..Len(feed)
  PROVE  PassesOf(n) \in 1..(MaxRecalc + 1)
<1>1. feed[n].ticks \in Seq(R!TickRecords) /\ Len(feed[n].ticks) \leq MaxRecalc + 1
  BY AtBar DEF Inputs
<1>2. MaxRecalc \in Nat
  BY DEF Inputs, TapeAssumption
<1>3. CASE Realtime(n)
  <2>1. feed[n].ticks # <<>>
    BY <1>3 DEF Realtime, TicksOf
  <2>2. Len(feed[n].ticks) \in Nat /\ Len(feed[n].ticks) # 0
    BY <1>1, <2>1
  <2>3. QED
    BY <1>1, <1>2, <1>3, <2>2 DEF PassesOf, TicksOf
<1>4. CASE ~Realtime(n)
  BY <1>2, <1>4 DEF PassesOf
<1>5. QED
  BY <1>3, <1>4

\* The deliveries of a pass, one for each line.
LEMMA PassType ==
  ASSUME Inputs, NEW ser \in Series, NEW n \in 1..Len(feed), NEW k \in 0..MaxRecalc
  PROVE  /\ PassKeysOf(ser, n, k) \in Seq(KeysAt(n, k))
         /\ Len(PassKeysOf(ser, n, k)) = Len(script[<<n, k>>])
         /\ script[<<n, k>>] \in Seq(Commands)
         /\ \A i \in 1..Len(script[<<n, k>>]) :
              PassKeysOf(ser, n, k)[i] =
                [series |-> ser, pos |-> PositionOf(n), phase |-> "BAR_BEGIN", recalc |-> k,
                 command |-> script[<<n, k>>][i],
                 ordinal |-> Earlier(script[<<n, k>>], script[<<n, k>>][i], i)]
<1>1. PICK lines \in Seq(Commands) : lines = script[<<n, k>>]
  BY AtBar DEF Inputs
<1>2. PositionOf(n) \in Positions /\ "BAR_BEGIN" \in Phases /\ k \in Nat
  BY AtBar DEF Inputs, RunnerAssumption, TapeAssumption
<1>3. ASSUME NEW i \in 1..Len(lines)
      PROVE  [series |-> ser, pos |-> PositionOf(n), phase |-> "BAR_BEGIN", recalc |-> k,
              command |-> lines[i], ordinal |-> Earlier(lines, lines[i], i)] \in KeysAt(n, k)
  <2>1. i \in Nat \ {0} /\ lines[i] \in Commands
    OBVIOUS
  <2>2. Earlier(lines, lines[i], i) \in Nat
    BY <2>1, EarlierGrows
  <2>3. QED
    BY <1>2, <2>1, <2>2 DEF KeysAt, AllKeys
<1>4. PICK keys : keys = [i \in 1..Len(lines) |->
             [series |-> ser, pos |-> PositionOf(n), phase |-> "BAR_BEGIN", recalc |-> k,
              command |-> lines[i], ordinal |-> Earlier(lines, lines[i], i)]]
  OBVIOUS
<1>5. keys \in Seq(KeysAt(n, k)) /\ Len(keys) = Len(lines)
  <2>1. \A i \in 1..Len(lines) : keys[i] \in KeysAt(n, k)
    BY <1>3, <1>4
  <2>2. keys \in [1..Len(lines) -> KeysAt(n, k)] /\ Len(lines) \in Nat
    BY <1>4, <2>1
  <2>3. QED
    BY <2>2
<1>6. DOMAIN lines = 1..Len(lines)
  OBVIOUS
<1>7. PassKeysOf(ser, n, k) = keys
  BY <1>1, <1>4, <1>6 DEF PassKeysOf, Earlier
<1>8. QED
  BY <1>1, <1>4, <1>5, <1>7

\* The deliveries of a bar, pass by pass.
LEMMA PassesStep ==
  ASSUME Inputs, NEW ser \in Series, NEW n \in 1..Len(feed), NEW k \in 0..MaxRecalc
  PROVE  /\ PassesUpTo(ser, n, 0) = <<>>
         /\ PassesUpTo(ser, n, k + 1) = PassesUpTo(ser, n, k) \o PassKeysOf(ser, n, k)
         /\ PassesUpTo(ser, n, k) \in Seq(KeysBefore(n, k))
         /\ PassesUpTo(ser, n, k + 1) \in Seq(KeysBefore(n, k + 1))
<1>0. MaxRecalc \in Nat /\ k \in Nat
  BY DEF Inputs, TapeAssumption
<1>1. PICK f : f = [j \in 1..(k + 1) |-> PassKeysOf(ser, n, j - 1)]
  OBVIOUS
<1>2. PICK g : g = [j \in 1..k |-> f[j]]
  OBVIOUS
<1>3. \A j \in 1..(k + 1) : j - 1 \in 0..MaxRecalc /\ j - 1 < k + 1
  BY <1>0
<1>4. \A j \in 1..(k + 1) : f[j] \in Seq(KeysAt(n, j - 1))
  BY <1>1, <1>3, PassType
<1>5. \A j \in 1..(k + 1) : KeysAt(n, j - 1) \subseteq KeysBefore(n, k + 1)
  BY <1>3 DEF KeysAt, KeysBefore
<1>6. \A j \in 1..k : KeysAt(n, j - 1) \subseteq KeysBefore(n, k)
  BY <1>0 DEF KeysAt, KeysBefore
<1>7. \A A, B : A \subseteq B => Seq(A) \subseteq Seq(B)
  OBVIOUS
<1>8. f \in [1..(k + 1) -> Seq(KeysBefore(n, k + 1))]
  <2>1. \A j \in 1..(k + 1) : f[j] \in Seq(KeysBefore(n, k + 1))
    BY <1>4, <1>5, <1>7
  <2>2. QED
    BY <1>1, <2>1
<1>9. g \in Seq(Seq(KeysBefore(n, k + 1))) /\ f[k + 1] \in Seq(KeysBefore(n, k + 1))
      /\ f = Append(g, f[k + 1])
  BY <1>0, <1>2, <1>8, OneMore
<1>10. g \in Seq(Seq(KeysBefore(n, k)))
  <2>1. \A j \in 1..k : j \in 1..(k + 1)
    BY <1>0
  <2>2. \A j \in 1..k : g[j] \in Seq(KeysBefore(n, k))
    BY <1>2, <1>4, <1>6, <1>7, <2>1
  <2>3. g \in [1..k -> Seq(KeysBefore(n, k))]
    BY <1>2, <2>2
  <2>4. QED
    BY <1>0, <2>3
<1>11. g = [j \in 1..k |-> PassKeysOf(ser, n, j - 1)] /\ f[k + 1] = PassKeysOf(ser, n, k)
  <2>1. \A j \in 1..k : j \in 1..(k + 1)
    BY <1>0
  <2>2. k + 1 \in 1..(k + 1) /\ k + 1 - 1 = k
    BY <1>0
  <2>3. QED
    BY <1>1, <1>2, <2>1, <2>2
<1>12. PassesUpTo(ser, n, k + 1) = FlattenSeq(f) /\ PassesUpTo(ser, n, k) = FlattenSeq(g)
  BY <1>1, <1>11 DEF PassesUpTo
<1>13. PassesUpTo(ser, n, 0) = <<>>
  <2>1. [j \in 1..0 |-> PassKeysOf(ser, n, j - 1)] = <<>>
    OBVIOUS
  <2>2. <<>> \in Seq(Seq({})) /\ <<>> \in Seq({})
    OBVIOUS
  <2>3. QED
    BY <2>1, <2>2, FlattenFacts DEF PassesUpTo
<1>14. FlattenSeq(f) = FlattenSeq(g) \o f[k + 1]
  BY <1>9, FlattenFacts
<1>15. f \in Seq(Seq(KeysBefore(n, k + 1)))
  BY <1>0, <1>8
<1>16. QED
  BY <1>10, <1>11, <1>12, <1>13, <1>14, <1>15, FlattenType

\* Its length, in full.
LEMMA BarType ==
  ASSUME Inputs, NEW ser \in Series, NEW n \in 1..Len(feed)
  PROVE  PassesUpTo(ser, n, PassesOf(n)) \in Seq(KeysBefore(n, PassesOf(n)))
<1>1. PICK k \in 0..MaxRecalc : PassesOf(n) = k + 1
  <2>1. MaxRecalc \in Nat
    BY DEF Inputs, TapeAssumption
  <2>2. PassesOf(n) \in 1..(MaxRecalc + 1)
    BY PassesBound
  <2>3. PassesOf(n) - 1 \in 0..MaxRecalc /\ PassesOf(n) = PassesOf(n) - 1 + 1
    BY <2>1, <2>2
  <2>4. QED
    BY <2>3
<1>2. QED
  BY <1>1, PassesStep

\* The deliveries of the feed, bar by bar.
LEMMA BarsStep ==
  ASSUME Inputs, NEW ser \in Series, NEW n \in 0..Len(feed)
  PROVE  /\ BarsUpTo(ser, n) \in Seq(KeysTo(n))
         /\ n + 1 <= Len(feed) =>
              BarsUpTo(ser, n + 1) =
                BarsUpTo(ser, n) \o PassesUpTo(ser, n + 1, PassesOf(n + 1))
<1>0. n \in Nat /\ Len(feed) \in Nat
  BY FeedLength DEF Inputs
<1>1. \A A, B : A \subseteq B => Seq(A) \subseteq Seq(B)
  OBVIOUS
<1>2. ASSUME NEW m \in 1..n
      PROVE  PassesUpTo(ser, m, PassesOf(m)) \in Seq(KeysTo(n))
  <2>1. m \in 1..Len(feed)
    BY <1>0
  <2>2. KeysBefore(m, PassesOf(m)) \subseteq KeysTo(n)
    BY DEF KeysBefore, KeysTo
  <2>3. QED
    BY <1>1, <2>1, <2>2, BarType
<1>3. PICK g : g = [m \in 1..n |-> PassesUpTo(ser, m, PassesOf(m))]
  OBVIOUS
<1>4. g \in Seq(Seq(KeysTo(n)))
  <2>1. g \in [1..n -> Seq(KeysTo(n))]
    BY <1>2, <1>3
  <2>2. QED
    BY <1>0, <2>1
<1>5. BarsUpTo(ser, n) = FlattenSeq(g)
  BY <1>3 DEF BarsUpTo
<1>6. ASSUME n + 1 <= Len(feed)
      PROVE  FlattenSeq([m \in 1..(n + 1) |-> PassesUpTo(ser, m, PassesOf(m))]) =
               FlattenSeq(g) \o PassesUpTo(ser, n + 1, PassesOf(n + 1))
  <2>1. PICK f : f = [m \in 1..(n + 1) |-> PassesUpTo(ser, m, PassesOf(m))]
    OBVIOUS
  <2>2. ASSUME NEW m \in 1..(n + 1)
        PROVE  PassesUpTo(ser, m, PassesOf(m)) \in Seq(KeysTo(n + 1))
    <3>1. m \in 1..Len(feed)
      BY <1>0, <1>6
    <3>2. KeysBefore(m, PassesOf(m)) \subseteq KeysTo(n + 1)
      BY DEF KeysBefore, KeysTo
    <3>3. QED
      BY <1>1, <3>1, <3>2, BarType
  <2>3. f \in [1..(n + 1) -> Seq(KeysTo(n + 1))]
    BY <2>1, <2>2
  <2>4. g = [m \in 1..n |-> f[m]]
    <3>1. \A m \in 1..n : m \in 1..(n + 1)
      BY <1>0
    <3>2. QED
      BY <1>3, <2>1, <3>1
  <2>5. g \in Seq(Seq(KeysTo(n + 1))) /\ f[n + 1] \in Seq(KeysTo(n + 1))
        /\ f = Append(g, f[n + 1])
    BY <1>0, <2>3, <2>4, OneMore
  <2>6. FlattenSeq(f) = FlattenSeq(g) \o f[n + 1]
    BY <2>5, FlattenFacts
  <2>7. f[n + 1] = PassesUpTo(ser, n + 1, PassesOf(n + 1))
    BY <1>0, <2>1
  <2>8. QED
    BY <2>1, <2>6, <2>7
<1>7. QED
  BY <1>4, <1>5, <1>6, FlattenType DEF BarsUpTo

\* Whatever the bar and the pass, the deliveries are keys.
LEMMA AreKeys ==
  ASSUME Inputs, NEW ser \in Series
  PROVE  /\ \A n \in 0..Len(feed) : BarsUpTo(ser, n) \in Seq(AllKeys)
         /\ \A n \in 1..Len(feed), k \in 0..(MaxRecalc + 1) :
              PassesUpTo(ser, n, k) \in Seq(AllKeys)
         /\ \A n \in 1..Len(feed), k \in 0..MaxRecalc :
              PassKeysOf(ser, n, k) \in Seq(AllKeys)
<1>0. MaxRecalc \in Nat
  BY DEF Inputs, TapeAssumption
<1>1. \A A : A \subseteq AllKeys => Seq(A) \subseteq Seq(AllKeys)
  OBVIOUS
<1>2. ASSUME NEW n \in 0..Len(feed) PROVE BarsUpTo(ser, n) \in Seq(AllKeys)
  <2>1. KeysTo(n) \subseteq AllKeys
    BY DEF KeysTo
  <2>2. QED
    BY <1>1, <2>1, BarsStep
<1>3. ASSUME NEW n \in 1..Len(feed), NEW k \in 0..(MaxRecalc + 1)
      PROVE  PassesUpTo(ser, n, k) \in Seq(AllKeys)
  <2>1. KeysBefore(n, k) \subseteq AllKeys
    BY DEF KeysBefore
  <2>2. CASE k \in 0..MaxRecalc
    BY <1>1, <2>1, <2>2, PassesStep
  <2>3. CASE k \notin 0..MaxRecalc
    <3>1. MaxRecalc \in 0..MaxRecalc /\ k = MaxRecalc + 1
      BY <1>0, <2>3
    <3>2. QED
      BY <1>1, <2>1, <3>1, PassesStep
  <2>4. QED
    BY <2>2, <2>3
<1>4. ASSUME NEW n \in 1..Len(feed), NEW k \in 0..MaxRecalc
      PROVE  PassKeysOf(ser, n, k) \in Seq(AllKeys)
  <2>1. KeysAt(n, k) \subseteq AllKeys
    BY DEF KeysAt
  <2>2. QED
    BY <1>1, <2>1, PassType
<1>5. QED
  BY <1>2, <1>3, <1>4

\* The first passes of a bar are a start of the bar.
LEMMA PassesStart ==
  ASSUME Inputs, NEW ser \in Series, NEW n \in 1..Len(feed), NEW k \in 0..PassesOf(n)
  PROVE  Starts(PassesUpTo(ser, n, k), PassesUpTo(ser, n, PassesOf(n)))
<1> DEFINE S == {m \in Nat : k + m <= PassesOf(n) =>
                   Starts(PassesUpTo(ser, n, k), PassesUpTo(ser, n, k + m))}
<1>1. PassesOf(n) \in 1..(MaxRecalc + 1) /\ MaxRecalc \in Nat
  BY PassesBound DEF Inputs, TapeAssumption
<1>2. \A j \in 0..PassesOf(n) : PassesUpTo(ser, n, j) \in Seq(AllKeys)
  <2>1. \A j \in 0..PassesOf(n) : j \in 0..(MaxRecalc + 1)
    BY <1>1
  <2>2. QED
    BY <2>1, AreKeys
<1>3. 0 \in S
  <2>1. k + 0 = k
    BY <1>1
  <2>2. Starts(PassesUpTo(ser, n, k), PassesUpTo(ser, n, k))
    BY <1>2, StartsSelf
  <2>3. QED
    BY <2>1, <2>2
<1>4. ASSUME NEW m \in Nat, m \in S PROVE m + 1 \in S
  <2> SUFFICES ASSUME k + (m + 1) <= PassesOf(n)
               PROVE  Starts(PassesUpTo(ser, n, k), PassesUpTo(ser, n, k + (m + 1)))
    OBVIOUS
  <2>1. PICK j \in 0..MaxRecalc : j = k + m /\ k + (m + 1) = j + 1
    BY <1>1
  <2>2. j \in 0..PassesOf(n) /\ j + 1 \in 0..PassesOf(n)
    BY <1>1, <2>1
  <2>3. Starts(PassesUpTo(ser, n, k), PassesUpTo(ser, n, j))
    BY <1>1, <1>4, <2>1, <2>2
  <2>4. PassesUpTo(ser, n, j + 1) = PassesUpTo(ser, n, j) \o PassKeysOf(ser, n, j)
    BY PassesStep
  <2>5. PassKeysOf(ser, n, j) \in Seq(AllKeys)
    BY AreKeys
  <2>6. Starts(PassesUpTo(ser, n, j), PassesUpTo(ser, n, j + 1))
    BY <1>2, <2>2, <2>4, <2>5, StartsConcat
  <2>7. QED
    BY <1>2, <2>1, <2>2, <2>3, <2>6, StartsTransitive
<1>5. Nat \subseteq S
  <2> HIDE DEF S
  <2> QED
    BY <1>3, <1>4, F!SetInduction
<1>6. PICK m \in Nat : k + m = PassesOf(n)
  <2>1. PassesOf(n) - k \in Nat /\ k + (PassesOf(n) - k) = PassesOf(n)
    BY <1>1
  <2>2. QED
    BY <2>1
<1>7. QED
  BY <1>1, <1>5, <1>6

\* The first bars are a start of the feed.
LEMMA BarsStart ==
  ASSUME Inputs, NEW ser \in Series, NEW n \in 0..Len(feed)
  PROVE  Starts(BarsUpTo(ser, n), BarsUpTo(ser, Len(feed)))
<1> DEFINE S == {m \in Nat : n + m <= Len(feed) =>
                   Starts(BarsUpTo(ser, n), BarsUpTo(ser, n + m))}
<1>1. Len(feed) \in Nat
  BY FeedLength DEF Inputs
<1>2. \A j \in 0..Len(feed) : BarsUpTo(ser, j) \in Seq(AllKeys)
  BY AreKeys
<1>3. 0 \in S
  <2>1. n + 0 = n
    BY <1>1
  <2>2. Starts(BarsUpTo(ser, n), BarsUpTo(ser, n))
    BY <1>2, StartsSelf
  <2>3. QED
    BY <2>1, <2>2
<1>4. ASSUME NEW m \in Nat, m \in S PROVE m + 1 \in S
  <2> SUFFICES ASSUME n + (m + 1) <= Len(feed)
               PROVE  Starts(BarsUpTo(ser, n), BarsUpTo(ser, n + (m + 1)))
    OBVIOUS
  <2>1. PICK j \in 0..Len(feed) : j = n + m /\ n + (m + 1) = j + 1
    BY <1>1
  <2>2. j + 1 \in 1..Len(feed) /\ j + 1 \in 0..Len(feed) /\ j + 1 <= Len(feed)
    BY <1>1, <2>1
  <2>3. Starts(BarsUpTo(ser, n), BarsUpTo(ser, j))
    BY <1>1, <1>4, <2>1, <2>2
  <2>4. BarsUpTo(ser, j + 1) =
          BarsUpTo(ser, j) \o PassesUpTo(ser, j + 1, PassesOf(j + 1))
    BY <2>2, BarsStep
  <2>5. PassesUpTo(ser, j + 1, PassesOf(j + 1)) \in Seq(AllKeys)
    <3>1. PassesOf(j + 1) \in 0..(MaxRecalc + 1)
      <4>1. MaxRecalc \in Nat
        BY DEF Inputs, TapeAssumption
      <4>2. PassesOf(j + 1) \in 1..(MaxRecalc + 1)
        BY <2>2, PassesBound
      <4>3. QED
        BY <4>1, <4>2
    <3>2. QED
      BY <2>2, <3>1, AreKeys
  <2>6. Starts(BarsUpTo(ser, j), BarsUpTo(ser, j + 1))
    BY <1>2, <2>4, <2>5, StartsConcat
  <2>7. QED
    BY <1>2, <2>1, <2>2, <2>3, <2>6, StartsTransitive
<1>5. Nat \subseteq S
  <2> HIDE DEF S
  <2> QED
    BY <1>3, <1>4, F!SetInduction
<1>6. PICK m \in Nat : n + m = Len(feed)
  <2>1. Len(feed) - n \in Nat /\ n + (Len(feed) - n) = Len(feed)
    BY <1>1
  <2>2. QED
    BY <2>1
<1>7. QED
  BY <1>1, <1>5, <1>6

\* The deliveries within a bar: line by line, and the whole pass.
LEMMA WithinStep ==
  ASSUME Inputs, NEW ser \in Series, NEW n \in 1..Len(feed), NEW k \in 0..MaxRecalc,
         NEW l \in 0..Len(PassKeysOf(ser, n, k))
  PROVE  /\ Within(ser, n, k, l) \in Seq(AllKeys)
         /\ Within(ser, n, k, 0) = PassesUpTo(ser, n, k)
         /\ Within(ser, n, k, Len(PassKeysOf(ser, n, k))) = PassesUpTo(ser, n, k + 1)
         /\ Starts(Within(ser, n, k, l), PassesUpTo(ser, n, k + 1))
         /\ l + 1 <= Len(PassKeysOf(ser, n, k)) =>
              /\ PassKeysOf(ser, n, k)[l + 1] \in AllKeys
              /\ Within(ser, n, k, l + 1) =
                   Append(Within(ser, n, k, l), PassKeysOf(ser, n, k)[l + 1])
<1>1. PICK p \in Seq(AllKeys) : p = PassesUpTo(ser, n, k)
  <2>1. MaxRecalc \in Nat
    BY DEF Inputs, TapeAssumption
  <2>2. k \in 0..(MaxRecalc + 1)
    BY <2>1
  <2>3. QED
    BY <2>2, AreKeys
<1>2. PICK q \in Seq(AllKeys) : q = PassKeysOf(ser, n, k)
  BY AreKeys
<1>3. PassesUpTo(ser, n, k + 1) = p \o q
  BY <1>1, <1>2, PassesStep
<1>4. \A i : Within(ser, n, k, i) = p \o SubSeq(q, 1, i)
  BY <1>1, <1>2 DEF Within
<1>5. /\ SubSeq(q, 1, 0) = <<>> /\ SubSeq(q, 1, Len(q)) = q /\ p \o <<>> = p
      /\ Len(q) \in Nat
  OBVIOUS
<1>6. /\ SubSeq(q, 1, l) \in Seq(AllKeys) /\ Starts(SubSeq(q, 1, l), q)
      /\ l + 1 <= Len(q) => SubSeq(q, 1, l + 1) = Append(SubSeq(q, 1, l), q[l + 1])
  BY <1>2, StartsSubSeq
<1>7. p \o SubSeq(q, 1, l) \in Seq(AllKeys) /\ Starts(p \o SubSeq(q, 1, l), p \o q)
  BY <1>6, StartsConcat
<1>8. ASSUME l + 1 <= Len(q)
      PROVE  /\ q[l + 1] \in AllKeys
             /\ p \o SubSeq(q, 1, l + 1) = Append(p \o SubSeq(q, 1, l), q[l + 1])
  <2>1. q[l + 1] \in AllKeys
    BY <1>2, <1>5, <1>8
  <2>2. \A U : \A a \in Seq(U), b \in Seq(U), e \in U :
           a \o Append(b, e) = Append(a \o b, e)
    OBVIOUS
  <2>3. QED
    BY <1>6, <1>8, <2>1, <2>2
<1>9. QED
  BY <1>1, <1>2, <1>3, <1>4, <1>5, <1>7, <1>8

\* What is delivered up to a line is a start of the run.
LEMMA LineStart ==
  ASSUME Inputs, NEW ser \in Series, NEW n \in 1..Len(feed), NEW k \in 0..MaxRecalc,
         k + 1 <= PassesOf(n), NEW l \in 0..Len(PassKeysOf(ser, n, k))
  PROVE  /\ BarsUpTo(ser, n - 1) \in Seq(AllKeys)
         /\ BarsUpTo(ser, n - 1) \o Within(ser, n, k, l) \in Seq(AllKeys)
         /\ Starts(BarsUpTo(ser, n - 1) \o Within(ser, n, k, l), BarsUpTo(ser, Len(feed)))
<1>0. MaxRecalc \in Nat /\ Len(feed) \in Nat /\ PassesOf(n) \in 1..(MaxRecalc + 1)
  BY PassesBound, FeedLength DEF Inputs, TapeAssumption
<1>1. /\ n - 1 \in 0..Len(feed) /\ n - 1 + 1 = n /\ n \in 0..Len(feed)
      /\ k + 1 \in 0..PassesOf(n) /\ k + 1 \in 0..(MaxRecalc + 1)
      /\ PassesOf(n) \in 0..(MaxRecalc + 1)
  BY <1>0
<1>2. PICK p \in Seq(AllKeys) : p = BarsUpTo(ser, n - 1)
  BY <1>1, AreKeys
<1>3. PICK q \in Seq(AllKeys) : q = Within(ser, n, k, l)
  BY WithinStep
<1>4. PICK r \in Seq(AllKeys) : r = PassesUpTo(ser, n, PassesOf(n))
  BY <1>1, AreKeys
<1>5. PICK s \in Seq(AllKeys) : s = PassesUpTo(ser, n, k + 1)
  BY <1>1, AreKeys
<1>6. Starts(q, s) /\ Starts(s, r)
  BY <1>1, <1>3, <1>4, <1>5, WithinStep, PassesStart
<1>7. Starts(q, r)
  BY <1>6, StartsTransitive
<1>8. p \o r = BarsUpTo(ser, n)
  <2>1. PICK m \in 0..Len(feed) : m = n - 1 /\ m + 1 = n /\ m + 1 <= Len(feed)
    BY <1>0, <1>1
  <2>2. BarsUpTo(ser, m + 1) = BarsUpTo(ser, m) \o PassesUpTo(ser, m + 1, PassesOf(m + 1))
    BY <2>1, BarsStep
  <2>3. QED
    BY <1>2, <1>4, <2>1, <2>2
<1>9. p \o q \in Seq(AllKeys) /\ p \o r \in Seq(AllKeys) /\ Starts(p \o q, p \o r)
  BY <1>7, StartsConcat
<1>10. Starts(p \o r, BarsUpTo(ser, Len(feed)))
  BY <1>1, <1>8, BarsStart
<1>11. BarsUpTo(ser, Len(feed)) \in Seq(AllKeys)
  <2>1. Len(feed) \in 0..Len(feed)
    BY <1>0
  <2>2. QED
    BY <2>1, AreKeys
<1>12. Starts(p \o q, BarsUpTo(ser, Len(feed)))
  BY <1>9, <1>10, <1>11, StartsTransitive
<1>13. QED
  BY <1>2, <1>3, <1>9, <1>12

\* Nothing in the sequence is e.
Lacks(s, e) == \A i \in 1..Len(s) : s[i] # e

\* What two sequences lack, their concatenation does.
LEMMA LacksConcat ==
  ASSUME NEW U, NEW a \in Seq(U), NEW b \in Seq(U), NEW e, Lacks(a, e), Lacks(b, e)
  PROVE  Lacks(a \o b, e)
<1>1. Len(a) \in Nat /\ Len(b) \in Nat /\ Len(a \o b) = Len(a) + Len(b)
  OBVIOUS
<1>2. ASSUME NEW j \in 1..Len(a \o b) PROVE (a \o b)[j] # e
  <2>1. CASE j <= Len(a)
    <3>1. j \in 1..Len(a) /\ (a \o b)[j] = a[j]
      BY <1>1, <2>1
    <3>2. QED
      BY <3>1 DEF Lacks
  <2>2. CASE ~(j <= Len(a))
    <3>1. j - Len(a) \in 1..Len(b) /\ (a \o b)[j] = b[j - Len(a)]
      BY <1>1, <2>2
    <3>2. QED
      BY <3>1 DEF Lacks
  <2>3. QED
    BY <2>1, <2>2
<1>3. QED
  BY <1>2 DEF Lacks

\* The length of a sequence is a number.
LEMMA LengthIsNumber ==
  ASSUME NEW U, NEW s \in Seq(U)
  PROVE  Len(s) \in Nat
OBVIOUS

\* The bars before lack a delivery of another position.
LEMMA LacksBars ==
  ASSUME NEW n, NEW p \in Seq(KeysTo(n - 1)),
         \A m \in 1..(n - 1) : PositionOf(m) # PositionOf(n),
         NEW key, key.pos = PositionOf(n)
  PROVE  Lacks(p, key)
<1>1. \A i \in 1..Len(p) : p[i] \in KeysTo(n - 1)
  OBVIOUS
<1>2. \A old \in KeysTo(n - 1) : old.pos # PositionOf(n)
  BY DEF KeysTo
<1>3. QED
  BY <1>1, <1>2 DEF Lacks

\* The passes before lack a delivery of this one.
LEMMA LacksPasses ==
  ASSUME NEW n, NEW k \in Nat, NEW q \in Seq(KeysBefore(n, k)), NEW key, key.recalc = k
  PROVE  Lacks(q, key)
<1>1. \A i \in 1..Len(q) : q[i] \in KeysBefore(n, k)
  OBVIOUS
<1>2. \A old \in KeysBefore(n, k) : old.recalc < k
  BY DEF KeysBefore
<1>3. \A old \in KeysBefore(n, k) : old.recalc # k
  BY <1>2
<1>4. QED
  BY <1>1, <1>3 DEF Lacks

\* The lines before lack a delivery of the next one: the ordinals tell equal commands apart.
LEMMA LacksLines ==
  ASSUME NEW keys, NEW lines \in Seq(Commands), NEW l \in Nat, l + 1 <= Len(lines),
         \A j \in 1..Len(lines) :
           keys[j].command = lines[j] /\ keys[j].ordinal = Earlier(lines, lines[j], j),
         NEW t, Len(t) = l, \A j \in 1..l : t[j] = keys[j]
  PROVE  Lacks(t, keys[l + 1])
<1>1. Len(lines) \in Nat /\ l + 1 \in 1..Len(lines) /\ l + 1 \in Nat
  BY LengthIsNumber
<1>2. ASSUME NEW h \in 1..l
      PROVE  t[h] # keys[l + 1]
  <2>1. h \in 1..(l + 1 - 1) /\ h \in 1..Len(lines)
    BY <1>1
  <2>2. ASSUME lines[h] = lines[l + 1]
        PROVE  Earlier(lines, lines[l + 1], h) # Earlier(lines, lines[l + 1], l + 1)
    BY <1>1, <2>1, <2>2, EarlierDiffers
  <2>3. QED
    BY <1>1, <2>1, <2>2
<1>3. QED
  BY <1>2 DEF Lacks

\* A delivery is not among those before it, as long as the position of its bar is
\* not that of an earlier bar.
LEMMA LineIsNew ==
  ASSUME Inputs, NEW ser \in Series, NEW n \in 1..Len(feed), NEW k \in 0..MaxRecalc,
         k + 1 <= PassesOf(n), NEW l \in 0..Len(PassKeysOf(ser, n, k)),
         l + 1 <= Len(PassKeysOf(ser, n, k)),
         \A m \in 1..(n - 1) : PositionOf(m) # PositionOf(n),
         NEW done, done = BarsUpTo(ser, n - 1) \o Within(ser, n, k, l)
  PROVE  Lacks(done, PassKeysOf(ser, n, k)[l + 1])
<1>0. MaxRecalc \in Nat /\ Len(feed) \in Nat
  BY FeedLength DEF Inputs, TapeAssumption
<1>1. PICK p \in Seq(KeysTo(n - 1)) : p = BarsUpTo(ser, n - 1)
  <2>1. n - 1 \in 0..Len(feed)
    BY <1>0
  <2>2. QED
    BY <2>1, BarsStep
<1>2. PICK q \in Seq(KeysBefore(n, k)) : q = PassesUpTo(ser, n, k)
  BY PassesStep
<1>3. PICK keys \in Seq(KeysAt(n, k)) : keys = PassKeysOf(ser, n, k)
  BY PassType
<1>4. PICK lines \in Seq(Commands) : lines = script[<<n, k>>] /\ Len(keys) = Len(lines)
  BY <1>3, PassType
<1>5. \A j \in 1..Len(keys) :
         keys[j].command = lines[j] /\ keys[j].ordinal = Earlier(lines, lines[j], j)
  <2> SUFFICES ASSUME NEW j \in 1..Len(keys)
               PROVE  keys[j].command = lines[j] /\ keys[j].ordinal = Earlier(lines, lines[j], j)
    OBVIOUS
  <2>1. keys[j] = [series |-> ser, pos |-> PositionOf(n), phase |-> "BAR_BEGIN", recalc |-> k,
                   command |-> lines[j], ordinal |-> Earlier(lines, lines[j], j)]
    BY <1>3, <1>4, PassType
  <2>2. QED
    BY <2>1
<1>6. Len(keys) \in Nat /\ l + 1 \in 1..Len(keys) /\ l \in Nat
  BY <1>3
<1>7. keys[l + 1].pos = PositionOf(n) /\ keys[l + 1].recalc = k
  BY <1>6 DEF KeysAt
<1>8. PICK t \in Seq(KeysAt(n, k)) : t = SubSeq(keys, 1, l) /\ Len(t) = l
                                     /\ \A j \in 1..l : t[j] = keys[j]
  <2>1. l \in 0..Len(keys)
    BY <1>3
  <2>2. /\ SubSeq(keys, 1, l) \in Seq(KeysAt(n, k)) /\ Len(SubSeq(keys, 1, l)) = l
        /\ \A j \in 1..l : SubSeq(keys, 1, l)[j] = keys[j]
    BY <2>1, StartsSubSeq
  <2>3. QED
    BY <2>2
<1>9. done = p \o (q \o t)
  BY <1>1, <1>2, <1>3, <1>8 DEF Within
<1>10. PICK d \in Seq(AllKeys) : d = q \o t /\ done = p \o d /\ p \in Seq(AllKeys)
                                 /\ q \in Seq(AllKeys) /\ t \in Seq(AllKeys)
  <2>1. \A A : A \subseteq AllKeys => Seq(A) \subseteq Seq(AllKeys)
    OBVIOUS
  <2>2. KeysTo(n - 1) \subseteq AllKeys /\ KeysBefore(n, k) \subseteq AllKeys
        /\ KeysAt(n, k) \subseteq AllKeys
    BY DEF KeysTo, KeysBefore, KeysAt
  <2>3. p \in Seq(AllKeys) /\ q \in Seq(AllKeys) /\ t \in Seq(AllKeys)
    BY <2>1, <2>2
  <2>4. q \o t \in Seq(AllKeys)
    BY <2>3
  <2>5. QED
    BY <1>9, <2>3, <2>4
<1>12. Lacks(p, keys[l + 1])
  BY <1>7, LacksBars
<1>13. Lacks(q, keys[l + 1])
  <2>1. k \in Nat
    BY <1>0
  <2>2. QED
    BY <1>7, <2>1, LacksPasses
<1>14. Lacks(t, keys[l + 1])
  <2>1. l \in Nat /\ l + 1 <= Len(lines)
    BY <1>4, <1>6
  <2>2. \A j \in 1..Len(lines) :
          keys[j].command = lines[j] /\ keys[j].ordinal = Earlier(lines, lines[j], j)
    BY <1>4, <1>5
  <2>3. Len(t) = l /\ \A j \in 1..l : t[j] = keys[j]
    BY <1>8
  <2>4. QED
    BY <2>1, <2>2, <2>3, LacksLines
<1>15. Lacks(p, keys[l + 1]) /\ Lacks(q, keys[l + 1]) /\ Lacks(t, keys[l + 1])
  BY <1>12, <1>13, <1>14
<1>16. Lacks(d, keys[l + 1])
  BY <1>10, <1>15, LacksConcat
<1>17. Lacks(done, keys[l + 1])
  BY <1>10, <1>15, <1>16, LacksConcat
<1>18. QED
  BY <1>3, <1>17

-----------------------------------------------------------------------------
(* Where the loop stands *)

\* The names the model has for the same deliveries.
LEMMA ModelKeys ==
  \A n : KeysUpTo(n) = BarsUpTo(identity.series, n)
<1>1. \A n, k : PassKeys(n, k) = PassKeysOf(identity.series, n, k)
  BY DEF PassKeys, PassKeysOf
<1>2. \A n : BarKeys(n) = PassesUpTo(identity.series, n, PassesOf(n))
  BY <1>1 DEF BarKeys, PassesUpTo
<1>3. \A n : KeysUpTo(n) = BarsUpTo(identity.series, n)
  BY <1>2 DEF KeysUpTo, BarsUpTo
<1>4. QED
  BY <1>3

\* The deliveries are those of the inputs, which never change.
LEMMA SameKeys ==
  ASSUME UNCHANGED inputs
  PROVE  /\ \A n : PositionOf(n)' = PositionOf(n) /\ TicksOf(n)' = TicksOf(n)
                   /\ Realtime(n)' = Realtime(n) /\ PassesOf(n)' = PassesOf(n)
         /\ \A ser, n, k : PassKeysOf(ser, n, k)' = PassKeysOf(ser, n, k)
         /\ \A ser, n, k : PassesUpTo(ser, n, k)' = PassesUpTo(ser, n, k)
         /\ \A ser, n : BarsUpTo(ser, n)' = BarsUpTo(ser, n)
         /\ \A ser, n, k, l : Within(ser, n, k, l)' = Within(ser, n, k, l)
<1>1. feed' = feed /\ script' = script /\ everyTick' = everyTick
  BY DEF inputs
<1>2. \A n : PositionOf(n)' = PositionOf(n) /\ TicksOf(n)' = TicksOf(n)
  BY <1>1 DEF PositionOf, TicksOf
<1>3. \A n : Realtime(n)' = Realtime(n) /\ PassesOf(n)' = PassesOf(n)
  BY <1>1, <1>2 DEF Realtime, PassesOf
<1>4. \A ser, n, k : PassKeysOf(ser, n, k)' = PassKeysOf(ser, n, k)
  BY <1>1, <1>2 DEF PassKeysOf
<1>5. \A ser, n, k : PassesUpTo(ser, n, k)' = PassesUpTo(ser, n, k)
  BY <1>4 DEF PassesUpTo
<1>6. \A ser, n : BarsUpTo(ser, n)' = BarsUpTo(ser, n)
  BY <1>3, <1>5 DEF BarsUpTo
<1>7. \A ser, n, k, l : Within(ser, n, k, l)' = Within(ser, n, k, l)
  BY <1>4, <1>5 DEF Within
<1>8. QED
  BY <1>2, <1>3, <1>4, <1>5, <1>6, <1>7

\* The tape of a run, as a sequence of keys.
LEMMA RecordedType ==
  ASSUME TapeAssumption, IInv
  PROVE  /\ identity.series \in Series
         /\ Recorded \in Seq(AllKeys) /\ Len(Recorded) = Len(events)
         /\ Len(events) \in Nat
         /\ \A i \in 1..Len(events) : Recorded[i] = events[i].key
<1>1. identity \in Identities /\ events \in Seq(Events)
  BY DEF IInv, Live, TypeOK
<1>2. Keys \subseteq AllKeys
  <2>1. Ordinals \subseteq Nat /\ 0..MaxRecalc \subseteq Nat
    BY DEF Ordinals, TapeAssumption
  <2>2. QED
    BY <2>1 DEF Keys, AllKeys
<1>3. \A i \in 1..Len(events) : events[i].key \in AllKeys
  <2>1. \A i \in 1..Len(events) : events[i] \in Events
    BY <1>1
  <2>2. QED
    BY <1>2, <2>1 DEF Events
<1>4. Recorded = [i \in 1..Len(events) |-> events[i].key]
  BY <1>1 DEF Recorded
<1>5. Len(events) \in Nat
  BY <1>1
<1>6. Recorded \in [1..Len(events) -> AllKeys]
  BY <1>3, <1>4
<1>7. QED
  BY <1>1, <1>4, <1>5, <1>6 DEF Identities

\* The bar the loop is in, and the pass.
LEMMA InThatBar ==
  ASSUME Inputs, RInv, InBar
  PROVE  /\ bar \in 1..Len(feed) /\ bar - 1 = barIndex + 1 /\ bar = barIndex + 2
         /\ bar - 1 \in 0..Len(feed) /\ bar \in 0..Len(feed)
         /\ barIndex \in Int /\ Len(feed) \in Nat
         /\ PassesOf(bar) \in 1..(MaxRecalc + 1) /\ MaxRecalc \in Nat
<1>1. Len(feed) \in Nat /\ MaxRecalc \in Nat
  BY FeedLength DEF Inputs, TapeAssumption
<1>2. bar = barIndex + 2 /\ bar \leq Len(feed) /\ barIndex \in Int /\ -1 \leq barIndex
  BY DEF RInv, Placed, Usable
<1>3. bar \in 1..Len(feed) /\ bar - 1 = barIndex + 1 /\ bar - 1 \in 0..Len(feed)
      /\ bar \in 0..Len(feed)
  BY <1>1, <1>2
<1>4. QED
  BY <1>1, <1>2, <1>3, PassesBound

\* The passes that have been begun in a bar are among its passes.
LEMMA InThatPass ==
  ASSUME Inputs, RInv, pc \in {"pass", "script"}
  PROVE  /\ Recalc \in 0..MaxRecalc /\ Recalc + 1 <= PassesOf(bar)
         /\ Realtime(bar) => Recalc + 1 = tick /\ tick \in 1..PassesOf(bar)
                             /\ PassesOf(bar) = Len(TicksOf(bar))
         /\ ~Realtime(bar) => Recalc = 0 /\ PassesOf(bar) = 1
<1>1. PassesOf(bar) \in 1..(MaxRecalc + 1) /\ MaxRecalc \in Nat
  BY InThatBar DEF InBar
<1>2. CASE Realtime(bar)
  <2>1. tick \in 1..Len(TicksOf(bar)) /\ PassesOf(bar) = Len(TicksOf(bar)) /\ Recalc = tick - 1
    BY <1>2 DEF RInv, Ticking, PassesOf, Recalc
  <2>2. QED
    BY <1>1, <1>2, <2>1
<1>3. CASE ~Realtime(bar)
  BY <1>1, <1>3 DEF PassesOf, Recalc
<1>4. QED
  BY <1>2, <1>3

\* The ticks that have been fed to a bar are among its ticks.
LEMMA InThatTick ==
  ASSUME Inputs, RInv, pc = "tick"
  PROVE  tick \in 0..MaxRecalc /\ tick + 1 <= PassesOf(bar) /\ PassesOf(bar) = Len(TicksOf(bar))
<1>1. PassesOf(bar) \in 1..(MaxRecalc + 1) /\ MaxRecalc \in Nat
  BY InThatBar DEF InBar
<1>2. tick \in Nat /\ tick < Len(TicksOf(bar)) /\ PassesOf(bar) = Len(TicksOf(bar))
  BY DEF RInv, Ticking, PassesOf
<1>3. QED
  BY <1>1, <1>2

\* Checkpoints stay what they are, also when a host has called again.
LEMMA KeptStays ==
  ASSUME SavedDelivered, UNCHANGED <<inputs, saved, savedContext, rtSaved>>,
         retried => retried'
  PROVE  SavedDelivered'
<1>1. \A ser, n : BarsUpTo(ser, n)' = BarsUpTo(ser, n)
  BY SameKeys
<1>2. feed' = feed
  BY DEF inputs
<1>3. \A st, index : KeptTo(st, index) => KeptTo(st, index)'
  BY <1>1, <1>2 DEF KeptTo
<1>4. QED
  BY <1>3 DEF SavedDelivered

\* A step that delivers nothing and stays at the same delivery.
LEMMA StaysThere ==
  ASSUME DInv, UNCHANGED <<identity, events, inputs, saved, savedContext, rtSaved, retried>>,
         pc # "raised", pc' # "raised", pc' # "script",
         Delivering(identity.series)' = Delivering(identity.series)
  PROVE  DInv'
<1>1. Recorded' = Recorded /\ feed' = feed
  BY DEF Recorded, inputs
<1>2. BarsUpTo(identity.series, Len(feed))' = BarsUpTo(identity.series, Len(feed))
  BY <1>1, SameKeys
<1>3. Delivered'
  BY <1>1, <1>2 DEF DInv, Delivered, Starts
<1>4. InPass'
  BY DEF InPass
<1>5. SavedDelivered'
  BY KeptStays DEF DInv
<1>6. QED
  BY <1>3, <1>4, <1>5 DEF DInv

-----------------------------------------------------------------------------
(* The steps that deliver nothing *)

\* A bar is begun with no pass, and ended with all of them.
LEMMA BarWhole ==
  ASSUME Inputs, NEW ser \in Series, NEW n \in 1..Len(feed)
  PROVE  /\ BarsUpTo(ser, n - 1) \o PassesUpTo(ser, n, 0) = BarsUpTo(ser, n - 1)
         /\ BarsUpTo(ser, n - 1) \o PassesUpTo(ser, n, PassesOf(n)) = BarsUpTo(ser, n)
<1>0. MaxRecalc \in Nat /\ Len(feed) \in Nat
  BY FeedLength DEF Inputs, TapeAssumption
<1>1. PICK m \in 0..Len(feed) : m = n - 1 /\ m + 1 = n /\ m + 1 <= Len(feed)
  <2>1. n - 1 \in 0..Len(feed) /\ n - 1 + 1 = n /\ n - 1 + 1 <= Len(feed)
    BY <1>0
  <2>2. QED
    BY <2>1
<1>2. BarsUpTo(ser, n) = BarsUpTo(ser, n - 1) \o PassesUpTo(ser, n, PassesOf(n))
  BY <1>1, BarsStep
<1>3. PassesUpTo(ser, n, 0) = <<>>
  <2>1. 0 \in 0..MaxRecalc
    BY <1>0
  <2>2. QED
    BY <2>1, PassesStep
<1>4. BarsUpTo(ser, m) \in Seq(AllKeys)
  BY AreKeys
<1>5. \A p \in Seq(AllKeys) : p \o <<>> = p
  OBVIOUS
<1>6. QED
  BY <1>1, <1>2, <1>3, <1>4, <1>5

Outside == pc \notin {"tick", "pass", "script", "commit", "end"}

\* Outside the passes of a bar, what ended is what has been delivered.
LEMMA OutsideBars ==
  ASSUME NEW ser, Outside
  PROVE  Delivering(ser) = BarsUpTo(ser, barIndex + 1)
BY DEF Delivering, Outside

\* From one place outside the passes to another.
LEMMA StaysOutside ==
  ASSUME DInv, UNCHANGED <<identity, events, inputs, saved, savedContext, rtSaved, retried,
                           barIndex>>,
         pc # "raised", pc' # "raised", Outside, Outside'
  PROVE  DInv'
<1>1. Delivering(identity.series) = BarsUpTo(identity.series, barIndex + 1)
  BY OutsideBars
<1>2. Delivering(identity.series)' = BarsUpTo(identity.series, barIndex + 1)'
  BY DEF Delivering, Outside
<1>3. BarsUpTo(identity.series, barIndex + 1)' = BarsUpTo(identity.series, barIndex + 1)
  BY SameKeys
<1>4. pc' # "script"
  BY DEF Outside
<1>5. QED
  BY <1>1, <1>2, <1>3, <1>4, StaysThere

\* A call, the begin of a historical bar, and a snapshot.
LEMMA OutsideSteps ==
  ASSUME DInv, Call \/ BeginHistoricalBar \/ TakeSnapshot
  PROVE  DInv'
<1>1. CASE Call
  <2>1. /\ UNCHANGED <<identity, events, inputs, saved, savedContext, rtSaved, retried, barIndex>>
        /\ pc = "call" /\ pc' \in {"done", "bar"}
    BY <1>1 DEF Call, AttachRuntime, SetSeriesIdentity, tapeVars, contextVars, rtVars, hostVars
  <2>2. QED
    BY <2>1, StaysOutside DEF Outside
<1>2. CASE BeginHistoricalBar
  <2>1. UNCHANGED <<identity, events, inputs, saved, savedContext, retried>>
    BY <1>2 DEF BeginHistoricalBar, hostVars, allVars, vars, tapeVars, contextVars
  <2>2. UNCHANGED <<barIndex, rtSaved>> /\ pc = "bar" /\ pc' = "flag"
    BY <1>2 DEF BeginHistoricalBar, R!BeginBar, R!OpenBar
  <2>3. QED
    BY <2>1, <2>2, StaysOutside DEF Outside
<1>3. CASE TakeSnapshot
  <2>1. /\ UNCHANGED <<identity, events, inputs, saved, savedContext, rtSaved, retried, barIndex>>
        /\ pc = "snapshot" /\ pc' = "progress"
    BY <1>3 DEF TakeSnapshot, CommitScalarHistory, vars, tapeVars, rtVars, hostVars
  <2>2. QED
    BY <2>1, StaysOutside DEF Outside
<1>4. QED
  BY <1>1, <1>2, <1>3

\* A bar whose passes begin.
LEMMA OpensPasses ==
  ASSUME TapeAssumption, RunnerAssumption, IInv, RInv, RInv', DInv, FlagHistory \/ BeginLiveBar
  PROVE  DInv'
<1>0. Inputs /\ Inputs'
  BY DEF Inputs, RInv
<1>1. /\ UNCHANGED <<identity, events, inputs, saved, savedContext, retried, barIndex, bar, rtSaved>>
      /\ pc # "raised" /\ pc' # "raised" /\ pc' # "script" /\ Outside
  <2>1. CASE FlagHistory
    BY <2>1 DEF FlagHistory, R!SetLastConfirmedHistory, loopVars, hostVars, allVars, vars,
                tapeVars, contextVars, Outside
  <2>2. CASE BeginLiveBar
    BY <2>2 DEF BeginLiveBar, R!BeginRealtimeBar, R!OpenBar, hostVars, allVars, vars,
                tapeVars, contextVars, Outside
  <2>3. QED
    BY <2>1, <2>2
<1>2. CASE pc' = "unsupported"
  BY <1>1, <1>2, StaysOutside DEF Outside
<1>3. CASE pc' # "unsupported"
  <2>1. PICK ser \in Series : ser = identity.series
    BY RecordedType
  <2>2. bar \in 1..Len(feed) /\ bar - 1 = barIndex + 1
    <3>1. CASE FlagHistory
      BY <1>0, <3>1, InThatBar DEF FlagHistory, InBar
    <3>2. CASE BeginLiveBar
      <4>1. pc = "bar"
        BY <3>2 DEF BeginLiveBar
      <4>2. bar = barIndex + 2 /\ bar <= Len(feed) /\ barIndex \in Int /\ -1 <= barIndex
        BY <4>1 DEF RInv, Placed, Usable
      <4>3. Len(feed) \in Nat
        BY <1>0, FeedLength DEF Inputs
      <4>4. QED
        BY <4>2, <4>3
    <3>3. QED
      BY <3>1, <3>2
  <2>3. Delivering(ser) = BarsUpTo(ser, bar - 1)
    BY <1>1, <2>2, OutsideBars
  <2>4. Delivering(ser)' = BarsUpTo(ser, bar - 1) \o PassesUpTo(ser, bar, 0)
    <3>1. \A m, k : BarsUpTo(ser, m)' = BarsUpTo(ser, m)
                    /\ PassesUpTo(ser, m, k)' = PassesUpTo(ser, m, k)
      BY <1>1, SameKeys
    <3>2. CASE FlagHistory
      <4>1. pc' = "pass"
        BY <1>3, <3>2 DEF FlagHistory
      <4>2. ~Realtime(bar)'
        <5>1. ~Realtime(bar) /\ Realtime(bar)' = Realtime(bar)
          BY <1>1, <3>2, SameKeys DEF FlagHistory, RInv, Ticking
        <5>2. QED
          BY <5>1
      <4>3. Recalc' = 0
        BY <4>2 DEF Recalc
      <4>4. Delivering(ser)' = (BarsUpTo(ser, bar - 1) \o PassesUpTo(ser, bar, Recalc))'
        BY <4>1 DEF Delivering
      <4>5. QED
        BY <1>1, <3>1, <4>3, <4>4
    <3>3. CASE BeginLiveBar
      <4>1. pc' = "tick" /\ tick' = 0
        BY <3>3 DEF BeginLiveBar
      <4>2. Delivering(ser)' = (BarsUpTo(ser, bar - 1) \o PassesUpTo(ser, bar, tick))'
        BY <4>1 DEF Delivering
      <4>3. QED
        BY <1>1, <3>1, <4>1, <4>2
    <3>4. QED
      BY <3>2, <3>3
  <2>5. Delivering(ser)' = Delivering(ser)
    BY <1>0, <2>2, <2>3, <2>4, BarWhole
  <2>6. Delivering(identity.series)' = Delivering(identity.series)
    BY <1>1, <2>1, <2>5
  <2>7. QED
    BY <1>1, <2>6, StaysThere
<1>4. QED
  BY <1>2, <1>3

\* A tick is fed for the pass that follows the passes done.
LEMMA TickThere ==
  ASSUME TapeAssumption, RunnerAssumption, IInv, RInv, DInv, FeedTick
  PROVE  DInv'
<1>1. /\ UNCHANGED <<identity, events, inputs, saved, savedContext, retried, bar, rtSaved>>
      /\ pc = "tick" /\ pc' = "pass" /\ tick' = tick + 1
  BY DEF FeedTick, R!UpdateRealtimeTick, hostVars, allVars, vars, tapeVars, contextVars
<1>2. Inputs
  BY DEF Inputs, RInv
<1>3. tick \in 0..MaxRecalc /\ MaxRecalc \in Nat
  BY <1>1, <1>2, InThatTick, InThatBar DEF InBar
<1>4. Recalc' = tick
  <2>1. Realtime(bar)
    BY <1>1 DEF RInv, Ticking
  <2>2. Realtime(bar)'
    <3>1. Realtime(bar)' = Realtime(bar)
      BY <1>1, SameKeys
    <3>2. QED
      BY <2>1, <3>1
  <2>3. tick' - 1 = tick
    <3>1. tick' = tick + 1 /\ tick \in Nat
      BY <1>1, <1>3
    <3>2. QED
      BY <3>1
  <2>4. QED
    BY <2>2, <2>3 DEF Recalc
<1>5. PICK ser : ser = identity.series
  OBVIOUS
<1>6. Delivering(ser) = BarsUpTo(ser, bar - 1) \o PassesUpTo(ser, bar, tick)
  BY <1>1 DEF Delivering
<1>7. Delivering(ser)' = (BarsUpTo(ser, bar - 1) \o PassesUpTo(ser, bar, Recalc))'
  BY <1>1 DEF Delivering
<1>8. \A m, k : BarsUpTo(ser, m)' = BarsUpTo(ser, m)
                /\ PassesUpTo(ser, m, k)' = PassesUpTo(ser, m, k)
  BY <1>1, SameKeys
<1>9. Delivering(ser)' = Delivering(ser)
  BY <1>1, <1>4, <1>6, <1>7, <1>8
<1>10. Delivering(identity.series)' = Delivering(identity.series)
  BY <1>1, <1>5, <1>9
<1>11. QED
  BY <1>1, <1>10, StaysThere

\* A pass begins before its first line.
LEMMA PassBegins ==
  ASSUME TapeAssumption, RunnerAssumption, IInv, RInv, DInv, BeginPass
  PROVE  DInv'
<1>1. /\ UNCHANGED <<identity, events, inputs, saved, savedContext, retried, bar, tick, rtSaved>>
      /\ pc = "pass" /\ pc' = "script" /\ line' = 1
      /\ scope' = [phase |-> "BAR_BEGIN", recalc |-> Recalc] /\ counts' = NoCounts
  BY DEF BeginPass, BeginIntentCallback, BeginCallback, hostVars, rtVars
<1>2. Inputs
  BY DEF Inputs, RInv
<1>3. Recalc' = Recalc
  <2>1. Realtime(bar)' = Realtime(bar)
    BY <1>1, SameKeys
  <2>2. QED
    BY <1>1, <2>1 DEF Recalc
<1>4. /\ bar \in 1..Len(feed) /\ Recalc \in 0..MaxRecalc /\ bar' = bar
  BY <1>1, <1>2, InThatBar, InThatPass DEF InBar
<1>5. PICK ser \in Series : ser = identity.series
  BY RecordedType
<1>6. Delivering(ser)' = Delivering(ser)
  <2>1. Delivering(ser) = BarsUpTo(ser, bar - 1) \o PassesUpTo(ser, bar, Recalc)
    BY <1>1 DEF Delivering
  <2>2. Delivering(ser)' = (BarsUpTo(ser, bar - 1) \o Within(ser, bar, Recalc, line - 1))'
    BY <1>1 DEF Delivering
  <2>3. \A m, k, l : BarsUpTo(ser, m)' = BarsUpTo(ser, m)
                     /\ Within(ser, m, k, l)' = Within(ser, m, k, l)
    BY <1>1, SameKeys
  <2>4. Within(ser, bar, Recalc, 0) = PassesUpTo(ser, bar, Recalc)
    <3>1. 0 \in 0..Len(PassKeysOf(ser, bar, Recalc))
      <4>1. PassKeysOf(ser, bar, Recalc) \in Seq(AllKeys)
        BY <1>2, <1>4, AreKeys
      <4>2. Len(PassKeysOf(ser, bar, Recalc)) \in Nat
        BY <4>1
      <4>3. QED
        BY <4>2
    <3>2. QED
      BY <1>2, <1>4, <3>1, WithinStep
  <2>5. line' - 1 = 0 /\ bar' = bar
    BY <1>1
  <2>6. (BarsUpTo(ser, bar - 1) \o Within(ser, bar, Recalc, line - 1))' =
          BarsUpTo(ser, bar - 1) \o Within(ser, bar, Recalc, 0)
    BY <1>3, <2>3, <2>5
  <2>7. QED
    BY <2>1, <2>2, <2>4, <2>6
<1>7. Delivered'
  <2>1. Recorded' = Recorded /\ feed' = feed
    BY <1>1 DEF Recorded, inputs
  <2>2. BarsUpTo(ser, Len(feed))' = BarsUpTo(ser, Len(feed))
    BY <1>1, <2>1, SameKeys
  <2>3. /\ Starts(Recorded, BarsUpTo(ser, Len(feed))) /\ Starts(Delivering(ser), Recorded)
        /\ ~retried => Len(events) = Len(Delivering(ser))
    BY <1>1, <1>5 DEF DInv, Delivered
  <2>4. Delivering(identity.series)' = Delivering(ser)
    BY <1>1, <1>5, <1>6
  <2>5. BarsUpTo(identity.series, Len(feed))' = BarsUpTo(ser, Len(feed))
    BY <1>1, <1>5, <2>1, <2>2
  <2>6. QED
    BY <1>1, <2>1, <2>3, <2>4, <2>5 DEF Delivered
<1>8. InPass'
  <2>1. PICK lines \in Seq(Commands) : lines = Lines'
    <3>1. script[<<bar, Recalc>>] \in Seq(Commands)
      BY <1>2, <1>4, <1>5, PassType
    <3>2. Lines' = script[<<bar, Recalc>>]
      BY <1>1, <1>3 DEF Lines, inputs
    <3>3. QED
      BY <3>1, <3>2
  <2>2. line' <= Len(Lines') + 1
    <3>1. Len(lines) \in Nat
      OBVIOUS
    <3>2. QED
      BY <1>1, <2>1, <3>1
  <2>3. ASSUME NEW c \in Commands
        PROVE  counts'[c] = Cardinality({j \in 1..(line' - 1) : Lines'[j] = c})
    <3>1. {j \in 1..(line' - 1) : Lines'[j] = c} = {}
      BY <1>1
    <3>2. QED
      BY <1>1, <3>1, FS_EmptySet DEF NoCounts
  <2>4. QED
    BY <1>1, <1>3, <2>2, <2>3 DEF InPass
<1>9. SavedDelivered'
  BY <1>1, KeptStays DEF DInv
<1>10. QED
  BY <1>7, <1>8, <1>9 DEF DInv

\* A pass ends after its last line.
LEMMA PassEnds ==
  ASSUME TapeAssumption, RunnerAssumption, IInv, RInv, DInv, EndPass
  PROVE  DInv'
<1>1. /\ UNCHANGED <<identity, events, inputs, saved, savedContext, retried, bar, tick, rtSaved>>
      /\ pc = "script" /\ line > Len(Lines)
      /\ pc' = IF Realtime(bar) /\ tick < Len(TicksOf(bar)) THEN "tick" ELSE "commit"
  BY DEF EndPass, loopVars, hostVars, rtVars, allVars, vars, tapeVars, contextVars
<1>2. Inputs
  BY DEF Inputs, RInv
<1>3. /\ bar \in 1..Len(feed) /\ Recalc \in 0..MaxRecalc /\ Recalc + 1 <= PassesOf(bar)
      /\ PassesOf(bar) \in 1..(MaxRecalc + 1) /\ MaxRecalc \in Nat
  BY <1>1, <1>2, InThatBar, InThatPass DEF InBar
<1>4. PICK ser \in Series : ser = identity.series
  BY RecordedType
<1>5. Delivering(ser) = BarsUpTo(ser, bar - 1) \o PassesUpTo(ser, bar, Recalc + 1)
  <2>1. Delivering(ser) = BarsUpTo(ser, bar - 1) \o Within(ser, bar, Recalc, line - 1)
    BY <1>1 DEF Delivering
  <2>2. Lines = script[<<bar, Recalc>>] /\ Lines \in Seq(Commands)
        /\ Len(PassKeysOf(ser, bar, Recalc)) = Len(Lines)
    BY <1>2, <1>3, PassType DEF Lines
  <2>3. line - 1 = Len(PassKeysOf(ser, bar, Recalc)) /\ Len(Lines) \in Nat
    <3>1. line \in Nat \ {0} /\ line <= Len(Lines) + 1 /\ Len(Lines) \in Nat
      BY <1>1, <2>2 DEF RInv, Ticking, DInv, InPass
    <3>2. QED
      BY <1>1, <2>2, <3>1
  <2>4. Within(ser, bar, Recalc, line - 1) = PassesUpTo(ser, bar, Recalc + 1)
    <3>1. Len(Lines) \in 0..Len(PassKeysOf(ser, bar, Recalc))
      BY <2>2, <2>3
    <3>2. QED
      BY <1>2, <1>3, <2>3, <3>1, WithinStep
  <2>5. QED
    BY <2>1, <2>4
<1>6. \A m, k : BarsUpTo(ser, m)' = BarsUpTo(ser, m)
                /\ PassesUpTo(ser, m, k)' = PassesUpTo(ser, m, k)
  BY <1>1, SameKeys
<1>7. Delivering(ser)' = Delivering(ser)
  <2>1. CASE Realtime(bar) /\ tick < Len(TicksOf(bar))
    <3>1. pc' = "tick" /\ Recalc + 1 = tick
      BY <1>1, <1>2, <2>1, InThatPass
    <3>2. Delivering(ser)' = (BarsUpTo(ser, bar - 1) \o PassesUpTo(ser, bar, tick))'
      BY <3>1 DEF Delivering
    <3>3. QED
      BY <1>1, <1>5, <1>6, <3>1, <3>2
  <2>2. CASE ~(Realtime(bar) /\ tick < Len(TicksOf(bar)))
    <3>1. pc' = "commit" /\ Recalc + 1 = PassesOf(bar)
      <4>1. CASE Realtime(bar)
        <5>1. Recalc + 1 = tick /\ tick \in 1..PassesOf(bar) /\ PassesOf(bar) = Len(TicksOf(bar))
          BY <1>1, <1>2, <4>1, InThatPass
        <5>2. QED
          BY <1>1, <1>3, <2>2, <4>1, <5>1
      <4>2. CASE ~Realtime(bar)
        BY <1>1, <1>2, <4>2, InThatPass
      <4>3. QED
        BY <4>1, <4>2
    <3>2. Delivering(ser)' = BarsUpTo(ser, bar)'
      BY <3>1 DEF Delivering
    <3>3. BarsUpTo(ser, bar - 1) \o PassesUpTo(ser, bar, PassesOf(bar)) = BarsUpTo(ser, bar)
      BY <1>2, <1>3, BarWhole
    <3>4. QED
      BY <1>1, <1>5, <1>6, <3>1, <3>2, <3>3
  <2>3. QED
    BY <2>1, <2>2
<1>8. Delivering(identity.series)' = Delivering(identity.series)
  BY <1>1, <1>4, <1>7
<1>9. pc # "raised" /\ pc' # "raised" /\ pc' # "script"
  BY <1>1
<1>10. QED
  BY <1>1, <1>8, <1>9, StaysThere

\* The seal and the end of a bar.
LEMMA BarEnds ==
  ASSUME TapeAssumption, RunnerAssumption, IInv, RInv, DInv, CommitTheIntents \/ EndTheBar
  PROVE  DInv'
<1>1. CASE CommitTheIntents
  <2>1. /\ UNCHANGED <<identity, events, inputs, saved, savedContext, retried, bar, rtSaved>>
        /\ pc = "commit" /\ pc' = "end"
    BY <1>1 DEF CommitTheIntents, CommitIntents, CommitBar, contextVars, rtVars, loopVars,
                hostVars
  <2>2. Delivering(identity.series) = BarsUpTo(identity.series, bar)
        /\ Delivering(identity.series)' = BarsUpTo(identity.series, bar)'
    BY <2>1 DEF Delivering
  <2>3. BarsUpTo(identity.series, bar)' = BarsUpTo(identity.series, bar)
    BY <2>1, SameKeys
  <2>4. QED
    BY <2>1, <2>2, <2>3, StaysThere
<1>2. CASE EndTheBar
  <2>1. /\ UNCHANGED <<identity, events, inputs, saved, savedContext, retried, bar>>
        /\ pc = "end" /\ pc' = "snapshot"
    BY <1>2 DEF EndTheBar, loopVars, hostVars, allVars, vars, tapeVars, contextVars
  <2>2. barIndex' = barIndex + 1 /\ rtSaved' = rtSaved
    BY <1>2 DEF EndTheBar, R!EndBar
  <2>3. barIndex' + 1 = bar
    <3>1. Inputs /\ InBar
      BY <2>1 DEF Inputs, RInv, InBar
    <3>2. bar - 1 = barIndex + 1 /\ barIndex \in Int /\ bar = barIndex + 2
      BY <3>1, InThatBar
    <3>3. QED
      BY <2>2, <3>2
  <2>4. Delivering(identity.series) = BarsUpTo(identity.series, bar)
        /\ Delivering(identity.series)' = BarsUpTo(identity.series, barIndex + 1)'
    BY <2>1 DEF Delivering
  <2>5. BarsUpTo(identity.series, barIndex + 1)' = BarsUpTo(identity.series, bar)
    BY <2>1, <2>3, SameKeys
  <2>6. QED
    BY <2>1, <2>2, <2>4, <2>5, StaysThere
<1>3. QED
  BY <1>1, <1>2

-----------------------------------------------------------------------------
(* The step that delivers *)

\* The lines of the pass, and the one that is next.
LEMMA NextLine ==
  ASSUME Inputs, NEW ser \in Series, RInv, InPass, pc = "script", line <= Len(Lines)
  PROVE  /\ bar \in 1..Len(feed) /\ Recalc \in 0..MaxRecalc /\ Recalc + 1 <= PassesOf(bar)
         /\ Lines \in Seq(Commands) /\ Lines[line] \in Commands
         /\ Len(PassKeysOf(ser, bar, Recalc)) = Len(Lines)
         /\ line - 1 \in 0..Len(PassKeysOf(ser, bar, Recalc)) /\ line - 1 + 1 = line
         /\ line \in Nat \ {0}
         /\ PassKeysOf(ser, bar, Recalc)[line] =
              [series |-> ser, pos |-> PositionOf(bar), phase |-> "BAR_BEGIN", recalc |-> Recalc,
               command |-> Lines[line], ordinal |-> Earlier(Lines, Lines[line], line)]
<1>1. bar \in 1..Len(feed) /\ Recalc \in 0..MaxRecalc /\ Recalc + 1 <= PassesOf(bar)
  BY InThatBar, InThatPass DEF InBar
<1>2. /\ Lines \in Seq(Commands) /\ Len(PassKeysOf(ser, bar, Recalc)) = Len(Lines)
      /\ \A i \in 1..Len(Lines) :
           PassKeysOf(ser, bar, Recalc)[i] =
             [series |-> ser, pos |-> PositionOf(bar), phase |-> "BAR_BEGIN", recalc |-> Recalc,
              command |-> Lines[i], ordinal |-> Earlier(Lines, Lines[i], i)]
  BY <1>1, PassType DEF Lines
<1>3. line \in Nat \ {0}
  BY DEF RInv, Ticking
<1>4. Len(Lines) \in Nat /\ line \in 1..Len(Lines)
  BY <1>2, <1>3
<1>5. line - 1 \in 0..Len(Lines) /\ line - 1 + 1 = line
  BY <1>3, <1>4
<1>6. Lines[line] \in Commands
  BY <1>2, <1>4
<1>7. QED
  BY <1>1, <1>2, <1>3, <1>4, <1>5, <1>6

\* The key the tape derives for a line is the delivery that is next.
LEMMA LineKey ==
  ASSUME Inputs, NEW ser, ser = identity.series, ser \in Series,
         RInv, InPass, pc = "script", line <= Len(Lines)
  PROVE  DeliveryKey(TapeScope(BarPosition), Lines[line], counts[Lines[line]]) =
           PassKeysOf(ser, bar, Recalc)[line]
<1>1. scope = [phase |-> "BAR_BEGIN", recalc |-> Recalc]
      /\ counts[Lines[line]] = Earlier(Lines, Lines[line], line)
  <2>1. Lines[line] \in Commands
    BY NextLine
  <2>2. QED
    BY <2>1 DEF InPass, Earlier
<1>2. BarPosition = PositionOf(bar)
  BY PositionInBar DEF Inputs, InBar
<1>3. TapeScope(BarPosition) =
        [pos |-> PositionOf(bar), phase |-> "BAR_BEGIN", recalc |-> Recalc]
  BY <1>1, <1>2 DEF TapeScope
<1>4. QED
  BY <1>1, <1>3, NextLine DEF DeliveryKey

\* What the tape has, and the delivery that is next: either the tape ends there, or
\* it has it.
LEMMA EndsOrHas ==
  ASSUME NEW U, NEW done \in Seq(U), NEW all \in Seq(U), NEW tape \in Seq(U), NEW key \in U,
         Starts(tape, all), Starts(done, tape), Starts(Append(done, key), all)
  PROVE  /\ Append(done, key) \in Seq(U) /\ Len(Append(done, key)) = Len(done) + 1
         /\ Len(tape) = Len(done) => tape = done
         /\ Len(tape) # Len(done) => Starts(Append(done, key), tape) /\ ~Lacks(tape, key)
<1>1. Append(done, key) \in Seq(U) /\ Len(Append(done, key)) = Len(done) + 1
      /\ Len(done) \in Nat /\ Len(tape) \in Nat /\ Len(all) \in Nat
  OBVIOUS
<1>2. Len(done) + 1 \in 1..Len(all) /\ all[Len(done) + 1] = key
  BY StartsNext
<1>3. ASSUME Len(tape) = Len(done) PROVE tape = done
  BY <1>3, StartsWhole
<1>4. ASSUME Len(tape) # Len(done) PROVE Starts(Append(done, key), tape) /\ ~Lacks(tape, key)
  <2>1. Len(done) + 1 \in 1..Len(tape) /\ Len(done) + 1 <= Len(tape)
    BY <1>1, <1>4 DEF Starts
  <2>2. tape[Len(done) + 1] = key
    BY <1>2, <2>1 DEF Starts
  <2>3. Starts(Append(done, key), tape)
    BY <2>1, <2>2, StartsAppend
  <2>4. QED
    BY <2>1, <2>2, <2>3 DEF Lacks
<1>5. QED
  BY <1>1, <1>3, <1>4

\* The keys of a longer list of events.
LEMMA KeysAppend ==
  ASSUME NEW E, NEW U, NEW evs \in Seq(E), NEW e, NEW s \in Seq(U), e.key \in U,
         Len(s) = Len(evs), \A i \in 1..Len(evs) : s[i] = evs[i].key
  PROVE  /\ KeysOn(Append(evs, e)) = Append(s, e.key)
         /\ KeysOn(evs) = s
         /\ Len(Append(evs, e)) = Len(evs) + 1
<1>1. PICK T : T = E \cup {e}
  OBVIOUS
<1>2. evs \in Seq(T) /\ e \in T /\ Len(evs) \in Nat
  BY <1>1
<1>3. PICK n \in Nat : n = Len(evs)
  BY <1>2
<1>4. PICK t : t = Append(evs, e)
  OBVIOUS
<1>5. /\ DOMAIN t = 1..(n + 1) /\ Len(t) = n + 1 /\ t[n + 1] = e
      /\ \A i \in 1..n : t[i] = evs[i]
  BY <1>2, <1>3, <1>4
<1>6. PICK k \in U : k = e.key
  OBVIOUS
<1>7. PICK r : r = Append(s, k)
  OBVIOUS
<1>8. /\ r \in Seq(U) /\ Len(r) = n + 1 /\ r[n + 1] = k
      /\ \A i \in 1..n : r[i] = s[i]
  BY <1>3, <1>6, <1>7
<1>9. \A i \in 1..(n + 1) : i \in 1..n \/ i = n + 1
  BY <1>3
<1>10. \A i \in 1..(n + 1) : t[i].key = r[i]
  BY <1>3, <1>5, <1>6, <1>8, <1>9
<1>11. r = [i \in 1..(n + 1) |-> r[i]]
  BY <1>8
<1>12. KeysOn(t) = r
  BY <1>5, <1>10, <1>11 DEF KeysOn
<1>13. KeysOn(evs) = s
  <2>1. DOMAIN evs = 1..n
    BY <1>2, <1>3
  <2>2. s = [i \in 1..n |-> s[i]]
    BY <1>3
  <2>3. QED
    BY <1>3, <2>1, <2>2 DEF KeysOn
<1>14. QED
  BY <1>3, <1>4, <1>5, <1>6, <1>7, <1>12, <1>13


\* The delivery of the line that is next.
KeyOfLine(ser) == PassKeysOf(ser, bar, Recalc)[line]

\* It follows what has been delivered, and is not among it when the bar has a
\* position of its own.
LEMMA LineFollows ==
  ASSUME Inputs, NEW ser \in Series, RInv, InPass, pc = "script", line <= Len(Lines)
  PROVE  /\ KeyOfLine(ser) \in AllKeys
         /\ Delivering(ser) \in Seq(AllKeys)
         /\ BarsUpTo(ser, Len(feed)) \in Seq(AllKeys)
         /\ BarsUpTo(ser, bar - 1) \o Within(ser, bar, Recalc, line) =
              Append(Delivering(ser), KeyOfLine(ser))
         /\ Starts(Append(Delivering(ser), KeyOfLine(ser)), BarsUpTo(ser, Len(feed)))
         /\ (\A m \in 1..(bar - 1) : PositionOf(m) # PositionOf(bar)) =>
              Lacks(Delivering(ser), KeyOfLine(ser))
<1>1. PICK n \in 1..Len(feed), k \in 0..MaxRecalc : n = bar /\ k = Recalc
  BY NextLine
<1>2. k + 1 <= PassesOf(n) /\ Len(PassKeysOf(ser, n, k)) = Len(Lines)
  BY <1>1, NextLine
<1>3. PICK l \in 0..Len(PassKeysOf(ser, n, k)) : l = line - 1 /\ l + 1 = line
  BY <1>1, NextLine
<1>4. l + 1 <= Len(PassKeysOf(ser, n, k))
  BY <1>2, <1>3
<1>5. l + 1 \in 0..Len(PassKeysOf(ser, n, k))
  <2>1. Len(PassKeysOf(ser, n, k)) \in Nat /\ l \in Nat
    <3>1. PassKeysOf(ser, n, k) \in Seq(AllKeys)
      BY AreKeys
    <3>2. QED
      BY <1>3, <3>1
  <2>2. QED
    BY <1>4, <2>1
<1>6. PICK key : key = PassKeysOf(ser, n, k)[l + 1]
  OBVIOUS
<1>7. KeyOfLine(ser) = key /\ Recalc = k /\ bar = n
  BY <1>1, <1>3, <1>6 DEF KeyOfLine
<1>8. Delivering(ser) = BarsUpTo(ser, n - 1) \o Within(ser, n, k, l)
  BY <1>1, <1>3 DEF Delivering
<1>9. PICK w \in Seq(AllKeys) : w = Within(ser, n, k, l)
  BY WithinStep
<1>10. key \in AllKeys /\ Within(ser, n, k, l + 1) = Append(w, key)
  BY <1>4, <1>6, <1>9, WithinStep
<1>11. PICK p \in Seq(AllKeys) : p = BarsUpTo(ser, n - 1)
  BY <1>2, LineStart
<1>12. PICK done : done = p \o w
  OBVIOUS
<1>13. done \in Seq(AllKeys) /\ p \o Append(w, key) = Append(done, key)
  BY <1>10, <1>12
<1>14. BarsUpTo(ser, n - 1) \o Within(ser, n, k, l + 1) = Append(done, key)
  BY <1>10, <1>11, <1>13
<1>15. Starts(Append(done, key), BarsUpTo(ser, Len(feed)))
  BY <1>2, <1>5, <1>14, LineStart
<1>16. Delivering(ser) = done
  BY <1>8, <1>9, <1>11, <1>12
<1>17. BarsUpTo(ser, Len(feed)) \in Seq(AllKeys)
  <2>1. Len(feed) \in Nat
    BY FeedLength DEF Inputs
  <2>2. Len(feed) \in 0..Len(feed)
    BY <2>1
  <2>3. QED
    BY <2>2, AreKeys
<1>18. ASSUME \A m \in 1..(n - 1) : PositionOf(m) # PositionOf(n)
       PROVE  Lacks(done, key)
  BY <1>2, <1>4, <1>6, <1>8, <1>16, <1>18, LineIsNew
<1>19. QED
  BY <1>1, <1>3, <1>7, <1>10, <1>13, <1>14, <1>15, <1>16, <1>17, <1>18

\* When the line has been delivered, that is where the loop stands.
LEMMA LineDone ==
  ASSUME NEW ser, UNCHANGED <<inputs, bar, tick>>, pc' = "script", line \in Nat,
         line' = line + 1
  PROVE  /\ Recalc' = Recalc /\ Lines' = Lines
         /\ Delivering(ser)' = BarsUpTo(ser, bar - 1) \o Within(ser, bar, Recalc, line)
<1>1. Realtime(bar)' = Realtime(bar)
  BY SameKeys
<1>2. Recalc' = Recalc
  BY <1>1 DEF Recalc
<1>3. Lines' = Lines
  BY <1>2 DEF Lines, inputs
<1>4. line' - 1 = line
  OBVIOUS
<1>5. Delivering(ser)' = (BarsUpTo(ser, bar - 1) \o Within(ser, bar, Recalc, line - 1))'
  BY DEF Delivering
<1>6. \A m, k, i : BarsUpTo(ser, m)' = BarsUpTo(ser, m)
                   /\ Within(ser, m, k, i)' = Within(ser, m, k, i)
  BY SameKeys
<1>7. QED
  BY <1>2, <1>3, <1>4, <1>5, <1>6

\* The counts of the tape follow the lines.
LEMMA LineCounted ==
  ASSUME InPass, pc = "script", UNCHANGED <<inputs, bar, tick, scope>>, pc' = "script",
         line \in Nat \ {0}, line' = line + 1, line <= Len(Lines), Lines \in Seq(Commands),
         Lines[line] \in Commands, counts \in [Commands -> 0..MaxCalls],
         counts' = [counts EXCEPT ![Lines[line]] = @ + 1]
  PROVE  InPass'
<1>1. Recalc' = Recalc /\ Lines' = Lines
  BY LineDone
<1>2. Len(Lines) \in Nat
  OBVIOUS
<1>3. line' <= Len(Lines') + 1
  BY <1>1, <1>2
<1>4. ASSUME NEW c \in Commands
      PROVE  counts'[c] = Earlier(Lines, c, line + 1)
  <2>1. counts[c] = Earlier(Lines, c, line)
    BY DEF InPass, Earlier
  <2>2. counts'[c] = IF c = Lines[line] THEN counts[c] + 1 ELSE counts[c]
    OBVIOUS
  <2>3. Earlier(Lines, c, line + 1) = IF Lines[line] = c THEN Earlier(Lines, c, line) + 1
                                                         ELSE Earlier(Lines, c, line)
    BY EarlierGrows
  <2>4. QED
    BY <2>1, <2>2, <2>3
<1>5. scope' = [phase |-> "BAR_BEGIN", recalc |-> Recalc']
  BY <1>1 DEF InPass
<1>6. \A c \in Commands : counts'[c] = Cardinality({j \in 1..(line' - 1) : Lines'[j] = c})
  BY <1>1, <1>4 DEF Earlier
<1>7. QED
  BY <1>3, <1>5, <1>6 DEF InPass

\* The tape after a delivery it does not have, or has.
LEMMA DeliverGrows ==
  ASSUME NEW key \in AllKeys, NEW tape \in Seq(AllKeys), events \in Seq(Events),
         DOMAIN byKey = KeysIn(events),
         Len(tape) = Len(events), \A i \in 1..Len(events) : tape[i] = events[i].key,
         Deliver(key, TheBody)
  PROVE  /\ Recorded = tape
         /\ Lacks(tape, key) => Recorded' = Append(tape, key) /\ Len(events') = Len(events) + 1
         /\ ~Lacks(tape, key) => events' = events
<1>1. DOMAIN events = 1..Len(events)
  OBVIOUS
<1>2. key \in DOMAIN byKey <=> ~Lacks(tape, key)
  BY <1>1 DEF KeysIn, Lacks
<1>3. Recorded = KeysOn(events) /\ Recorded' = KeysOn(events')
  BY DEF Recorded, KeysOn
<1>4. PICK e : e = EventFor(key, TheBody)
  OBVIOUS
<1>5. e.key = key
  BY <1>4 DEF EventFor
<1>6. KeysOn(Append(events, e)) = Append(tape, key) /\ KeysOn(events) = tape
      /\ Len(Append(events, e)) = Len(events) + 1
  BY <1>5, KeysAppend
<1>7. ASSUME Lacks(tape, key) PROVE events' = Append(events, e)
  BY <1>2, <1>4, <1>7 DEF Deliver, StoreNew, RepeatOld
<1>8. ASSUME ~Lacks(tape, key) PROVE events' = events
  BY <1>2, <1>8 DEF Deliver, StoreNew, RepeatOld
<1>9. QED
  BY <1>3, <1>6, <1>7, <1>8

\* A line is recorded under the key that is next, which the run has not delivered
\* before.
LEMMA LineRecorded ==
  ASSUME TapeAssumption, ContextAssumption, RunnerAssumption, IInv, RInv, DInv, RunLine,
         NEW ser \in Series, ser = identity.series
  PROVE  /\ UNCHANGED <<identity, saved>>
         /\ KeyOfLine(ser).command = Lines[line]
         /\ Deliver(KeyOfLine(ser), TheBody)
         /\ counts' = [counts EXCEPT ![Lines[line]] = @ + 1]
         /\ Lacks(Delivering(ser), KeyOfLine(ser))
<1>1. Inputs
  BY DEF Inputs, RInv
<1>2. pc = "script" /\ line <= Len(Lines) /\ Submit(BarPosition, Lines[line], TheBody)
  BY DEF RunLine
<1>3. RecordIntent(BarPosition, Lines[line], TheBody)
  BY <1>2, SubmitRecords
<1>4. PICK key : key = KeyOfLine(ser)
  OBVIOUS
<1>5. BarPosition = PositionOf(bar)
  BY <1>1, <1>2, PositionInBar DEF Inputs, InBar
<1>6. key = DeliveryKey(TapeScope(BarPosition), Lines[line], counts[Lines[line]])
  BY <1>1, <1>2, <1>4, LineKey DEF DInv, KeyOfLine
<1>7. /\ UNCHANGED <<identity, saved>>
      /\ PositionOf(bar) \notin committed
      /\ Deliver(key, TheBody)
      /\ counts' = [counts EXCEPT ![Lines[line]] = @ + 1]
  <2>1. TapeScope(BarPosition).pos = BarPosition
    BY DEF TapeScope
  <2>2. QED
    BY <1>3, <1>5, <1>6, <2>1 DEF RecordIntent, RecordAutomatic
<1>8. Lacks(Delivering(ser), key)
  <2>1. committed = Ended(barIndex)
    BY <1>2 DEF RInv, Sealed
  <2>2. barIndex + 1 = bar - 1
    BY <1>1, <1>2, InThatBar DEF InBar
  <2>3. \A m \in 1..(bar - 1) : PositionOf(m) # PositionOf(bar)
    BY <1>7, <2>1, <2>2 DEF Ended
  <2>4. QED
    BY <1>1, <1>2, <1>4, <2>3, LineFollows DEF DInv
<1>9. key.command = Lines[line]
  BY <1>6 DEF DeliveryKey
<1>10. QED
  BY <1>4, <1>7, <1>8, <1>9

\* A line is delivered: the next one of the run, or one the tape has.
LEMMA LineDelivers ==
  ASSUME TapeAssumption, ContextAssumption, RunnerAssumption, IInv, RInv, DInv, RunLine
  PROVE  DInv'
<1>1. Inputs
  BY DEF Inputs, RInv
<1>2. /\ pc = "script" /\ pc' = "script" /\ line <= Len(Lines) /\ line' = line + 1
      /\ UNCHANGED <<inputs, bar, tick, retried, rtSaved>>
      /\ Submit(BarPosition, Lines[line], TheBody)
  BY DEF RunLine, hostVars, rtVars
<1>3. UNCHANGED <<scope, savedContext>>
  BY <1>2 DEF Submit, PlaceOrder, CancelOrder, CancelAll, AddRiskRule
<1>4. PICK ser \in Series : ser = identity.series
  BY RecordedType
<1>5. PICK key \in AllKeys : key = KeyOfLine(ser)
  BY <1>1, <1>2, LineFollows DEF DInv
<1>6. /\ UNCHANGED <<identity, saved>>
      /\ Deliver(key, TheBody)
      /\ counts' = [counts EXCEPT ![Lines[line]] = @ + 1]
  BY <1>4, <1>5, LineRecorded
<1>7. PICK done \in Seq(AllKeys) : done = Delivering(ser)
  BY <1>1, <1>2, LineFollows DEF DInv
<1>8. PICK all \in Seq(AllKeys) : all = BarsUpTo(ser, Len(feed))
  BY <1>1, <1>2, LineFollows DEF DInv
<1>9. PICK tape \in Seq(AllKeys) : /\ tape = Recorded /\ Len(tape) = Len(events)
                                    /\ \A i \in 1..Len(events) : tape[i] = events[i].key
  BY RecordedType
<1>10. Starts(tape, all) /\ Starts(done, tape) /\ (~retried => Len(tape) = Len(done))
  BY <1>2, <1>4, <1>7, <1>8, <1>9 DEF DInv, Delivered
<1>11. Starts(Append(done, key), all)
  BY <1>1, <1>2, <1>5, <1>7, <1>8, LineFollows DEF DInv
<1>12. Delivering(ser)' = Append(done, key)
  <2>1. line \in Nat
    BY <1>1, <1>2, NextLine DEF DInv
  <2>2. Delivering(ser)' = BarsUpTo(ser, bar - 1) \o Within(ser, bar, Recalc, line)
    BY <1>2, <2>1, LineDone
  <2>3. QED
    BY <1>1, <1>2, <1>5, <1>7, <2>2, LineFollows DEF DInv
<1>13. /\ Recorded = tape
       /\ Lacks(tape, key) => Recorded' = Append(tape, key) /\ Len(events') = Len(events) + 1
       /\ ~Lacks(tape, key) => events' = events
  <2>1. events \in Seq(Events) /\ DOMAIN byKey = KeysIn(events)
    BY DEF IInv, Live, TypeOK, IndexFaithful
  <2>2. QED
    BY <1>6, <1>9, <2>1, DeliverGrows
<1>14. /\ Append(done, key) \in Seq(AllKeys) /\ Len(Append(done, key)) = Len(done) + 1
       /\ Len(tape) = Len(done) => tape = done
       /\ Len(tape) # Len(done) => Starts(Append(done, key), tape) /\ ~Lacks(tape, key)
  BY <1>10, <1>11, EndsOrHas
<1>15. Lacks(done, key)
  BY <1>4, <1>5, <1>7, LineRecorded
<1>16. /\ Starts(Recorded', all) /\ Starts(Append(done, key), Recorded')
       /\ ~retried => Len(events') = Len(Append(done, key))
  <2>1. CASE Len(tape) = Len(done)
    <3>1. tape = done /\ Recorded' = Append(done, key) /\ Len(events') = Len(events) + 1
      BY <1>13, <1>14, <1>15, <2>1
    <3>2. Starts(Append(done, key), Append(done, key))
      BY <1>14, StartsSelf
    <3>3. QED
      BY <1>9, <1>11, <1>14, <3>1, <3>2
  <2>2. CASE Len(tape) # Len(done)
    <3>1. events' = events /\ Starts(Append(done, key), tape)
      BY <1>13, <1>14, <2>2
    <3>2. Recorded' = tape
      BY <1>13, <3>1 DEF Recorded
    <3>3. QED
      BY <1>10, <2>2, <3>1, <3>2
  <2>3. QED
    BY <2>1, <2>2
<1>17. Delivered'
  <2>1. BarsUpTo(identity.series, Len(feed))' = all
    <3>1. BarsUpTo(ser, Len(feed))' = BarsUpTo(ser, Len(feed))
      BY <1>2, SameKeys DEF inputs
    <3>2. QED
      BY <1>4, <1>6, <1>8, <3>1
  <2>2. Delivering(identity.series)' = Append(done, key)
    BY <1>4, <1>6, <1>12
  <2>3. QED
    BY <1>2, <1>16, <2>1, <2>2 DEF Delivered
<1>18. InPass'
  <2>1. /\ line \in Nat \ {0} /\ Lines \in Seq(Commands) /\ Lines[line] \in Commands
    BY <1>1, <1>2, NextLine DEF DInv
  <2>2. counts \in [Commands -> 0..MaxCalls]
    BY DEF IInv, Live, TypeOK
  <2>3. QED
    BY <1>2, <1>3, <1>6, <2>1, <2>2, LineCounted DEF DInv
<1>19. SavedDelivered'
  BY <1>2, <1>3, <1>6, KeptStays DEF DInv
<1>20. QED
  BY <1>17, <1>18, <1>19 DEF DInv

-----------------------------------------------------------------------------
(* Checkpoints, failures and recoveries *)

\* What the bars that ended delivered is a start of what the loop has delivered.
LEMMA EndedFirst ==
  ASSUME Inputs, NEW ser \in Series, RInv, InPass
  PROVE  /\ BarsUpTo(ser, barIndex + 1) \in Seq(AllKeys)
         /\ Delivering(ser) \in Seq(AllKeys)
         /\ Starts(BarsUpTo(ser, barIndex + 1), Delivering(ser))
<1>1. PICK p \in Seq(AllKeys) : p = BarsUpTo(ser, barIndex + 1)
  <2>1. barIndex \in Int /\ -1 <= barIndex /\ barIndex + 1 <= Len(feed)
    BY DEF RInv, Usable
  <2>2. Len(feed) \in Nat
    BY FeedLength DEF Inputs
  <2>3. barIndex + 1 \in 0..Len(feed)
    BY <2>1, <2>2
  <2>4. QED
    BY <2>3, AreKeys
<1>2. ASSUME NEW q \in Seq(AllKeys), Delivering(ser) = p \o q
      PROVE  Delivering(ser) \in Seq(AllKeys) /\ Starts(p, Delivering(ser))
  <2>1. p \o q \in Seq(AllKeys) /\ Starts(p, p \o q)
    BY StartsConcat
  <2>2. QED
    BY <1>2, <2>1
<1>3. ASSUME InBar
      PROVE  \A k \in 0..(MaxRecalc + 1) : PassesUpTo(ser, bar, k) \in Seq(AllKeys)
  BY <1>3, AreKeys, InThatBar
<1>4. ASSUME InBar
      PROVE  p = BarsUpTo(ser, bar - 1) /\ bar \in 1..Len(feed)
             /\ PassesOf(bar) \in 0..(MaxRecalc + 1)
  <2>1. bar - 1 = barIndex + 1 /\ bar \in 1..Len(feed) /\ MaxRecalc \in Nat
        /\ PassesOf(bar) \in 1..(MaxRecalc + 1)
    BY <1>4, InThatBar
  <2>2. PassesOf(bar) \in 0..(MaxRecalc + 1)
    BY <2>1
  <2>3. QED
    BY <1>1, <2>1, <2>2
<1>5. CASE pc = "tick"
  <2>1. tick \in 0..(MaxRecalc + 1)
    <3>1. tick \in 0..MaxRecalc /\ MaxRecalc \in Nat
      BY <1>5, InThatTick DEF Inputs, TapeAssumption
    <3>2. QED
      BY <3>1
  <2>2. InBar
    BY <1>5 DEF InBar
  <2>3. PassesUpTo(ser, bar, tick) \in Seq(AllKeys)
    BY <1>3, <2>1, <2>2
  <2>4. Delivering(ser) = p \o PassesUpTo(ser, bar, tick)
    BY <1>4, <1>5, <2>2 DEF Delivering
  <2>5. QED
    BY <1>1, <1>2, <2>3, <2>4
<1>6. CASE pc = "pass"
  <2>1. Recalc \in 0..(MaxRecalc + 1)
    <3>1. Recalc \in 0..MaxRecalc /\ MaxRecalc \in Nat
      BY <1>6, InThatPass DEF Inputs, TapeAssumption
    <3>2. QED
      BY <3>1
  <2>2. InBar
    BY <1>6 DEF InBar
  <2>3. PassesUpTo(ser, bar, Recalc) \in Seq(AllKeys)
    BY <1>3, <2>1, <2>2
  <2>4. Delivering(ser) = p \o PassesUpTo(ser, bar, Recalc)
    BY <1>4, <1>6, <2>2 DEF Delivering
  <2>5. QED
    BY <1>1, <1>2, <2>3, <2>4
<1>7. CASE pc = "commit" \/ pc = "end"
  <2>1. InBar
    BY <1>7 DEF InBar
  <2>2. PassesUpTo(ser, bar, PassesOf(bar)) \in Seq(AllKeys)
    BY <1>3, <1>4, <2>1
  <2>3. Delivering(ser) = p \o PassesUpTo(ser, bar, PassesOf(bar))
    BY <1>4, <1>7, <2>1, BarWhole DEF Delivering
  <2>4. QED
    BY <1>1, <1>2, <2>2, <2>3
<1>8. CASE Outside
  <2>1. Delivering(ser) = p
    BY <1>1, <1>8, OutsideBars
  <2>2. Starts(p, p)
    BY StartsSelf
  <2>3. QED
    BY <1>1, <2>1, <2>2
<1>9. CASE pc = "script"
  <2>1. InBar
    BY <1>9 DEF InBar
  <2>2. PICK n \in 1..Len(feed), k \in 0..MaxRecalc : n = bar /\ k = Recalc
    BY <1>4, <1>9, <2>1, InThatPass
  <2>3. PICK q \in Seq(AllKeys) : q = PassKeysOf(ser, n, k)
    BY AreKeys
  <2>4. PICK t : t = SubSeq(q, 1, line - 1)
    OBVIOUS
  <2>5. PICK r \in Seq(AllKeys) : r = PassesUpTo(ser, n, k)
    <3>1. MaxRecalc \in Nat
      BY DEF Inputs, TapeAssumption
    <3>2. k \in 0..(MaxRecalc + 1)
      BY <3>1
    <3>3. QED
      BY <3>2, AreKeys
  <2>6. t \in Seq(AllKeys)
    <3>1. line - 1 \in 0..Len(q)
      <4>1. Len(q) = Len(Lines) /\ Lines \in Seq(Commands)
        BY <2>2, <2>3, PassType DEF Lines
      <4>2. line \in Nat \ {0} /\ line <= Len(Lines) + 1
        BY <1>9 DEF RInv, Ticking, InPass
      <4>3. Len(Lines) \in Nat
        BY <4>1
      <4>4. QED
        BY <4>1, <4>2, <4>3
    <3>2. QED
      BY <2>4, <3>1, StartsSubSeq
  <2>7. r \o t \in Seq(AllKeys)
    BY <2>6
  <2>8. Delivering(ser) = p \o (r \o t)
    BY <1>4, <1>9, <2>1, <2>2, <2>3, <2>4, <2>5 DEF Delivering, Within
  <2>9. QED
    BY <1>1, <1>2, <2>7, <2>8
<1>10. QED
  BY <1>1, <1>5, <1>6, <1>7, <1>8, <1>9 DEF Outside

\* The keys of a list of events are as many.
LEMMA KeysLength ==
  ASSUME NEW E, NEW evs \in Seq(E)
  PROVE  Len(KeysOn(evs)) = Len(evs)
<1>1. DOMAIN evs = 1..Len(evs) /\ Len(evs) \in Nat
  OBVIOUS
<1>2. KeysOn(evs) = [i \in 1..Len(evs) |-> evs[i].key]
  BY <1>1 DEF KeysOn
<1>3. QED
  BY <1>1, <1>2

\* A step outside the passes that leaves the tape and its bars, and may be followed
\* by a retry.
LEMMA TapeStays ==
  ASSUME Inputs, IInv, RInv, DInv, TapeAssumption,
         UNCHANGED <<identity, events, inputs, barIndex>>, retried => retried',
         pc' = "raised" \/ retried' \/ (Outside /\ pc # "raised"), Outside'
  PROVE  Delivered' /\ InPass'
<1>1. PICK ser \in Series : ser = identity.series
  BY RecordedType
<1>2. Recorded' = Recorded /\ feed' = feed
  BY DEF Recorded, inputs
<1>3. BarsUpTo(ser, Len(feed))' = BarsUpTo(ser, Len(feed))
  BY <1>2, SameKeys
<1>4. PICK p \in Seq(AllKeys) : p = BarsUpTo(ser, barIndex + 1)
  BY <1>1, EndedFirst DEF DInv
<1>5. Delivering(ser)' = p
  <2>1. Delivering(ser)' = BarsUpTo(ser, barIndex + 1)'
    BY DEF Delivering, Outside
  <2>2. BarsUpTo(ser, barIndex + 1)' = BarsUpTo(ser, barIndex + 1)
    BY SameKeys
  <2>3. QED
    BY <1>4, <2>1, <2>2
<1>6. PICK tape \in Seq(AllKeys) : tape = Recorded
  BY RecordedType
<1>7. PICK done \in Seq(AllKeys) : done = Delivering(ser)
  BY <1>1, EndedFirst DEF DInv
<1>8. Starts(p, done) /\ Starts(done, tape)
  BY <1>1, <1>4, <1>6, <1>7, EndedFirst DEF DInv, Delivered
<1>9. Starts(p, tape)
  BY <1>8, StartsTransitive
<1>10. ASSUME ~retried', pc' # "raised"
       PROVE  Len(events') = Len(p)
  <2>1. Outside /\ pc # "raised" /\ ~retried
    BY <1>10
  <2>2. done = p
    BY <1>4, <1>7, <2>1, OutsideBars
  <2>3. Len(events) = Len(done)
    BY <1>1, <1>7, <2>1 DEF DInv, Delivered
  <2>4. QED
    BY <2>2, <2>3
<1>11. Starts(tape, BarsUpTo(ser, Len(feed)))
  BY <1>1, <1>6 DEF DInv, Delivered
<1>12. Delivered'
  <2>1. BarsUpTo(identity.series, Len(feed))' = BarsUpTo(ser, Len(feed))
        /\ Delivering(identity.series)' = p
    BY <1>1, <1>2, <1>3, <1>5
  <2>2. QED
    BY <1>2, <1>6, <1>9, <1>10, <1>11, <2>1 DEF Delivered
<1>13. InPass'
  BY DEF InPass, Outside
<1>14. QED
  BY <1>12, <1>13

\* A call raises, and a host calls again on the same objects.
LEMMA RaiseDelivers ==
  ASSUME TapeAssumption, RunnerAssumption, IInv, RInv, DInv, Raise \/ Retry
  PROVE  DInv'
<1>1. UNCHANGED <<identity, events, inputs, saved, savedContext, barIndex, rtSaved>>
      /\ (retried => retried')
  BY DEF Raise, Retry, allVars, vars, tapeVars, contextVars, rtVars
<1>2. Outside' /\ (pc' = "raised" \/ retried')
  BY DEF Raise, Retry, Outside
<1>3. Inputs
  BY DEF Inputs, RInv
<1>4. Delivered' /\ InPass'
  BY <1>1, <1>2, <1>3, TapeStays
<1>5. SavedDelivered'
  BY <1>1, KeptStays DEF DInv
<1>6. QED
  BY <1>4, <1>5 DEF DInv

\* The progress callback, also when its host exports the checkpoints.
LEMMA ProgressDelivers ==
  ASSUME TapeAssumption, RunnerAssumption, IInv, RInv, DInv, NEW keep \in BOOLEAN,
         ReportProgress(keep)
  PROVE  DInv'
<1>1. UNCHANGED <<identity, events, inputs, barIndex, retried>>
      /\ pc = "progress" /\ pc' \in {"done", "bar"}
  BY DEF ReportProgress, ExportStrategy, ExportState, R!ExportState, R!runtimeVars,
         hostVars, allVars, vars, tapeVars, rtVars
<1>2. Inputs
  BY DEF Inputs, RInv
<1>3. Outside /\ Outside' /\ pc # "raised"
  BY <1>1 DEF Outside
<1>4. Delivered' /\ InPass'
  BY <1>1, <1>2, <1>3, TapeStays
<1>5. SavedDelivered'
  <2>1. CASE ~keep
    <3>1. UNCHANGED <<saved, savedContext, rtSaved>>
      BY <2>1 DEF ReportProgress, allVars, vars, contextVars, rtVars
    <3>2. QED
      BY <1>1, <3>1, KeptStays DEF DInv
  <2>2. CASE keep
    <3>1. saved' = <<Checkpoint>> /\ rtSaved' = <<R!Snapshot(TRUE)>>
      BY <2>2 DEF ReportProgress, ExportStrategy, ExportState, R!ExportState
    <3>2. /\ rtSaved'[1].barIndex = barIndex /\ saved'[1].events = events
          /\ saved'[1].identity = identity
      BY <3>1 DEF Checkpoint, R!Snapshot
    <3>3. KeysOn(events) = Recorded /\ feed' = feed /\ Len(Recorded) = Len(events)
      BY <1>1, RecordedType DEF KeysOn, Recorded, inputs
    <3>4. PICK ser \in Series : ser = identity.series
      BY RecordedType
    <3>5. Delivering(ser) = BarsUpTo(ser, barIndex + 1)
      BY <1>3, OutsideBars
    <3>6. /\ Starts(KeysOn(events), BarsUpTo(ser, Len(feed)))
          /\ Starts(BarsUpTo(ser, barIndex + 1), KeysOn(events))
          /\ ~retried => Len(KeysOn(events)) = Len(BarsUpTo(ser, barIndex + 1))
      BY <1>1, <3>3, <3>4, <3>5 DEF DInv, Delivered
    <3>7. BarsUpTo(saved[1].identity.series, rtSaved[1].barIndex + 1)' =
            BarsUpTo(ser, barIndex + 1)
          /\ BarsUpTo(saved[1].identity.series, Len(feed))' = BarsUpTo(ser, Len(feed))
      BY <1>1, <3>2, <3>3, <3>4, SameKeys
    <3>8. KeptTo(saved[1], rtSaved[1].barIndex)'
      BY <1>1, <3>2, <3>6, <3>7 DEF KeptTo
    <3>9. QED
      BY <3>8 DEF SavedDelivered
  <2>3. QED
    BY <2>1, <2>2
<1>6. QED
  BY <1>4, <1>5 DEF DInv

\* Both objects go back to the checkpoints.
LEMMA RestoreDelivers ==
  ASSUME TapeAssumption, RunnerAssumption, IInv, IInv', RInv, DInv,
         RestoreStrategy, R!RestoreState, UNCHANGED <<inputs, retried>>, pc' = "call"
  PROVE  DInv'
<1>1. /\ savedContext # <<>> /\ UNCHANGED <<saved, savedContext, identity>>
      /\ saved[1].identity = identity /\ events' = saved[1].events
  BY DEF RestoreStrategy, RestoreState, Restorable
<1>2. UNCHANGED rtSaved /\ barIndex' = rtSaved[1].barIndex
  BY RestoreFacts
<1>3. KeptTo(saved[1], rtSaved[1].barIndex)
  BY <1>1 DEF DInv, SavedDelivered
<1>4. PICK ser : ser = identity.series
  OBVIOUS
<1>5. /\ Starts(KeysOn(events'), BarsUpTo(ser, Len(feed)))
      /\ Starts(BarsUpTo(ser, barIndex' + 1), KeysOn(events'))
      /\ ~retried => Len(KeysOn(events')) = Len(BarsUpTo(ser, barIndex' + 1))
  BY <1>1, <1>2, <1>3, <1>4 DEF KeptTo
<1>6. Recorded' = KeysOn(events')
  BY DEF Recorded, KeysOn
<1>7. Len(KeysOn(events')) = Len(events')
  <2>1. events' \in Seq(Events)
    BY DEF IInv, Live, TypeOK
  <2>2. QED
    BY <2>1, KeysLength
<1>8. feed' = feed /\ BarsUpTo(ser, Len(feed))' = BarsUpTo(ser, Len(feed))
  BY SameKeys DEF inputs
<1>9. Delivering(ser)' = BarsUpTo(ser, barIndex' + 1)
  <2>1. Delivering(ser)' = BarsUpTo(ser, barIndex + 1)'
    BY DEF Delivering
  <2>2. BarsUpTo(ser, barIndex + 1)' = BarsUpTo(ser, barIndex' + 1)
    BY SameKeys
  <2>3. QED
    BY <2>1, <2>2
<1>10. Delivered'
  <2>1. BarsUpTo(identity.series, Len(feed))' = BarsUpTo(ser, Len(feed))
        /\ Delivering(identity.series)' = BarsUpTo(ser, barIndex' + 1)
    BY <1>1, <1>4, <1>8, <1>9
  <2>2. QED
    BY <1>5, <1>6, <1>7, <2>1 DEF Delivered
<1>11. InPass' /\ SavedDelivered'
  BY <1>1, <1>2, KeptStays DEF DInv, InPass
<1>12. QED
  BY <1>10, <1>11 DEF DInv

\* No bar has delivered nothing.
LEMMA NoBars ==
  ASSUME NEW ser
  PROVE  BarsUpTo(ser, 0) = <<>>
<1>1. [m \in 1..0 |-> PassesUpTo(ser, m, PassesOf(m))] = <<>>
  OBVIOUS
<1>2. <<>> \in Seq(Seq({})) /\ <<>> \in Seq({})
  OBVIOUS
<1>3. QED
  BY <1>1, <1>2, FlattenFacts DEF BarsUpTo

\* A tape without events and a runtime without bars.
LEMMA NothingDelivered ==
  ASSUME TapeAssumption, IInv, Inputs, events = <<>>, barIndex = -1, Outside
  PROVE  Delivered /\ InPass
<1>1. PICK ser \in Series : ser = identity.series
  BY RecordedType
<1>2. Recorded = <<>>
  BY DEF Recorded
<1>3. barIndex + 1 = 0
  OBVIOUS
<1>4. Delivering(ser) = <<>>
  BY <1>3, OutsideBars, NoBars
<1>5. BarsUpTo(ser, Len(feed)) \in Seq(AllKeys)
  <2>1. Len(feed) \in Nat
    BY FeedLength DEF Inputs
  <2>2. Len(feed) \in 0..Len(feed)
    BY <2>1
  <2>3. QED
    BY <2>2, AreKeys
<1>6. PICK all \in Seq(AllKeys) : all = BarsUpTo(ser, Len(feed))
  BY <1>5
<1>7. Len(all) \in Nat /\ Len(<<>>) = 0
  OBVIOUS
<1>8. Starts(<<>>, all) /\ Starts(<<>>, <<>>)
  BY <1>7 DEF Starts
<1>9. Delivered
  BY <1>1, <1>2, <1>4, <1>6, <1>8 DEF Delivered
<1>10. InPass
  BY DEF InPass, Outside
<1>11. QED
  BY <1>9, <1>10

\* New objects have nothing and have delivered nothing.
LEMMA NewDelivers ==
  ASSUME TapeAssumption, RunnerAssumption, IInv', RInv, DInv,
         NewContext, R!NewRuntime, UNCHANGED <<inputs, retried>>, pc' = "died"
  PROVE  DInv'
<1>1. events' = <<>> /\ UNCHANGED <<saved, savedContext>>
  BY DEF NewContext, NewTape
<1>2. barIndex' = -1 /\ UNCHANGED rtSaved
  BY NewRuntimeFacts
<1>3. PICK ser \in Series : ser = identity'.series
  <2>1. identity' \in Identities
    BY DEF IInv, Live, TypeOK
  <2>2. QED
    BY <2>1 DEF Identities
<1>4. /\ BarsUpTo(ser, Len(feed))' = BarsUpTo(ser, Len(feed))
      /\ BarsUpTo(ser, 0)' = BarsUpTo(ser, 0)
  BY SameKeys DEF inputs
<1>5. Delivering(ser)' = <<>>
  <2>1. Delivering(ser)' = BarsUpTo(ser, barIndex + 1)'
    BY DEF Delivering
  <2>2. barIndex' + 1 = 0
    BY <1>2
  <2>3. BarsUpTo(ser, barIndex + 1)' = BarsUpTo(ser, 0)
    BY <2>2, SameKeys
  <2>4. QED
    BY <2>1, <2>3, NoBars
<1>6. PICK all \in Seq(AllKeys) : all = BarsUpTo(ser, Len(feed))
  <2>1. Inputs
    BY DEF Inputs, RInv
  <2>2. Len(feed) \in Nat
    BY <2>1, FeedLength DEF Inputs
  <2>3. Len(feed) \in 0..Len(feed)
    BY <2>2
  <2>4. QED
    BY <2>1, <2>3, AreKeys
<1>7. Len(all) \in Nat /\ Len(<<>>) = 0
  OBVIOUS
<1>8. Starts(<<>>, all) /\ Starts(<<>>, <<>>)
  BY <1>7 DEF Starts
<1>9. Recorded' = <<>>
  BY <1>1 DEF Recorded
<1>10. Delivered'
  BY <1>1, <1>3, <1>4, <1>5, <1>6, <1>8, <1>9 DEF Delivered
<1>11. InPass'
  BY DEF InPass
<1>12. SavedDelivered'
  BY <1>1, <1>2, KeptStays DEF DInv
<1>13. QED
  BY <1>10, <1>11, <1>12 DEF DInv

\* A resume restores both checkpoints, or starts with the new objects.
LEMMA ResumeDelivers ==
  ASSUME TapeAssumption, RunnerAssumption, IInv, IInv', RInv, DInv, Resume
  PROVE  DInv'
<1>1. UNCHANGED <<inputs, retried>> /\ pc' = "call" /\ pc = "died"
  BY DEF Resume, hostVars
<1>2. CASE savedContext = <<>>
  <2>1. UNCHANGED <<identity, events, inputs, saved, savedContext, rtSaved, retried, barIndex>>
    BY <1>1, <1>2 DEF Resume, allVars, vars, tapeVars, contextVars, rtVars
  <2>2. QED
    BY <1>1, <2>1, StaysOutside DEF Outside
<1>3. CASE savedContext # <<>>
  BY <1>1, <1>3, RestoreDelivers DEF Resume
<1>4. QED
  BY <1>2, <1>3

\* A step that changes nothing.
LEMMA StutterDelivers ==
  ASSUME DInv, UNCHANGED runnerVars
  PROVE  DInv'
<1>1. UNCHANGED <<identity, events, inputs, saved, savedContext, rtSaved, retried, barIndex,
                  pc, bar, tick, line, scope, counts>>
  BY DEF runnerVars, allVars, vars, tapeVars, contextVars, rtVars, loopVars, hostVars
<1>2. feed' = feed /\ script' = script
  BY <1>1 DEF inputs
<1>3. Recalc' = Recalc
  <2>1. Realtime(bar)' = Realtime(bar)
    BY <1>1, SameKeys
  <2>2. QED
    BY <1>1, <2>1 DEF Recalc
<1>4. Lines' = Lines
  BY <1>1, <1>2, <1>3 DEF Lines
<1>5. InPass'
  BY <1>1, <1>3, <1>4 DEF DInv, InPass
<1>6. /\ \A ser, n : BarsUpTo(ser, n)' = BarsUpTo(ser, n)
      /\ \A ser, n, k : PassesUpTo(ser, n, k)' = PassesUpTo(ser, n, k)
      /\ \A ser, n, k, l : Within(ser, n, k, l)' = Within(ser, n, k, l)
  BY <1>1, SameKeys
<1>7. PICK ser : ser = identity.series
  OBVIOUS
<1>8. Delivering(ser)' = Delivering(ser)
  BY <1>1, <1>3, <1>6 DEF Delivering
<1>9. Recorded' = Recorded
  BY <1>1 DEF Recorded
<1>10. Delivered'
  <2>1. BarsUpTo(identity.series, Len(feed))' = BarsUpTo(ser, Len(feed))
        /\ Delivering(identity.series)' = Delivering(ser)
    BY <1>1, <1>2, <1>6, <1>7, <1>8
  <2>2. QED
    BY <1>1, <1>7, <1>9, <2>1 DEF DInv, Delivered
<1>11. SavedDelivered'
  BY <1>1, KeptStays DEF DInv
<1>12. QED
  BY <1>5, <1>10, <1>11 DEF DInv

-----------------------------------------------------------------------------
(* Theorems *)

\* What a run has delivered, and what its checkpoints hold, is an invariant.
THEOREM DeliveryInductive == RunnerSpec => []DInv
<1>1. RunnerInit /\ IInv /\ RInv => DInv
  <2> SUFFICES ASSUME RunnerInit, IInv, RInv
               PROVE  DInv
    OBVIOUS
  <2>1. events = <<>> /\ savedContext = <<>> /\ barIndex = -1 /\ pc = "call"
    BY DEF RunnerInit, ContextInit, Init, R!Init
  <2>2. Outside /\ Inputs
    BY <2>1, TapeAssumption, RunnerAssumption DEF Outside, Inputs, RInv
  <2>3. Delivered /\ InPass
    BY <2>1, <2>2, NothingDelivered, TapeAssumption
  <2>4. SavedDelivered
    BY <2>1 DEF SavedDelivered
  <2>5. QED
    BY <2>3, <2>4 DEF DInv
<1>2. ASSUME IInv, RInv, IInv', RInv', DInv, [RunnerNext]_runnerVars
      PROVE  DInv'
  <2>1. CASE Call \/ BeginHistoricalBar \/ TakeSnapshot
    BY <1>2, <2>1, OutsideSteps
  <2>2. CASE FlagHistory \/ BeginLiveBar
    BY <1>2, <2>2, OpensPasses, TapeAssumption, RunnerAssumption
  <2>3. CASE FeedTick
    BY <1>2, <2>3, TickThere, TapeAssumption, RunnerAssumption
  <2>4. CASE BeginPass
    BY <1>2, <2>4, PassBegins, TapeAssumption, RunnerAssumption
  <2>5. CASE RunLine
    BY <1>2, <2>5, LineDelivers, TapeAssumption, ContextAssumption, RunnerAssumption
  <2>6. CASE EndPass
    BY <1>2, <2>6, PassEnds, TapeAssumption, RunnerAssumption
  <2>7. CASE CommitTheIntents \/ EndTheBar
    BY <1>2, <2>7, BarEnds, TapeAssumption, RunnerAssumption
  <2>8. CASE \E keep \in BOOLEAN : ReportProgress(keep)
    BY <1>2, <2>8, ProgressDelivers, TapeAssumption, RunnerAssumption
  <2>9. CASE Raise \/ Retry
    BY <1>2, <2>9, RaiseDelivers, TapeAssumption, RunnerAssumption
  <2>10. CASE RollBack
    BY <1>2, <2>10, RestoreDelivers, TapeAssumption, RunnerAssumption DEF RollBack, hostVars
  <2>11. CASE Die \/ Discard
    BY <1>2, <2>11, NewDelivers, TapeAssumption, RunnerAssumption DEF Die, Discard, hostVars
  <2>12. CASE Resume
    BY <1>2, <2>12, ResumeDelivers, TapeAssumption, RunnerAssumption
  <2>13. CASE Finished \/ UNCHANGED runnerVars
    BY <1>2, <2>13, StutterDelivers DEF Finished
  <2>14. QED
    BY <1>2, <2>1, <2>2, <2>3, <2>4, <2>5, <2>6, <2>7, <2>8, <2>9, <2>10, <2>11, <2>12,
       <2>13 DEF RunnerNext, Loop, Recover
<1>3. QED
  BY <1>1, <1>2, RunnerInductive, PTL DEF RunnerSpec

\* Whatever feed and script, wherever calls raise and processes die and however the
\* host recovers, the tape is a start of what the undisturbed run records and holds
\* every delivery of the bars that have ended: no gap, duplicate or reordering.
THEOREM RunDeliversOnce == RunnerSpec => []DeliveredExactlyOnce
<1>1. ASSUME IInv, RInv, DInv
      PROVE  DeliveredExactlyOnce
  <2>1. Inputs
    BY <1>1, TapeAssumption, RunnerAssumption DEF Inputs, RInv
  <2>2. PICK ser \in Series : ser = identity.series
    BY <1>1, RecordedType, TapeAssumption
  <2>3. PICK p \in Seq(AllKeys) : p = BarsUpTo(ser, barIndex + 1)
    BY <1>1, <2>1, EndedFirst DEF DInv
  <2>4. PICK done \in Seq(AllKeys) : done = Delivering(ser)
    BY <1>1, <2>1, EndedFirst DEF DInv
  <2>5. PICK tape \in Seq(AllKeys) : tape = Recorded
    BY <1>1, RecordedType, TapeAssumption
  <2>6. PICK all \in Seq(AllKeys) : all = BarsUpTo(ser, Len(feed))
    <3>1. Len(feed) \in Nat
      BY <2>1, FeedLength DEF Inputs
    <3>2. Len(feed) \in 0..Len(feed)
      BY <3>1
    <3>3. QED
      BY <2>1, <3>2, AreKeys
  <2>7. Starts(p, done) /\ Starts(done, tape) /\ Starts(tape, all)
    BY <1>1, <2>1, <2>2, <2>3, <2>4, <2>5, <2>6, EndedFirst DEF DInv, Delivered
  <2>8. Starts(p, tape)
    BY <2>7, StartsTransitive
  <2>9. IsPrefix(tape, all) /\ IsPrefix(p, tape)
    BY <2>7, <2>8, StartsIsPrefix
  <2>10. KeysUpTo(Len(feed)) = all /\ KeysUpTo(barIndex + 1) = p
    BY <2>2, <2>3, <2>6, ModelKeys
  <2>11. QED
    BY <2>5, <2>9, <2>10 DEF DeliveredExactlyOnce
<1>2. QED
  BY <1>1, DeliveryInductive, RunnerInductive, PTL

-----------------------------------------------------------------------------
(***************************************************************************)
(* The book of a run.  BookIsReplay names the order of a place by CHOOSE;  *)
(* the invariant says instead where the order of each intent is, and that  *)
(* every order is the order of an intent.                                  *)
(***************************************************************************)

OrdersOn(evs) == {i \in DOMAIN evs : IsOrder(evs[i].key)}
RisksOn(evs) == {i \in DOMAIN evs : evs[i].key.command.kind = "risk"}

\* The place in the book of the order intent at place i of the tape.
RankOn(evs, i) == Cardinality({j \in OrdersOn(evs) : j <= i})

OrderAt(evs, i) ==
  [id |-> evs[i].key.command.id,
   status |-> IF \E j \in DOMAIN evs : j > i /\ Cancels(evs[j].key, evs[i].key.command.id)
              THEN "cancelled" ELSE "pending"]

BookOf(p, r, evs) ==
  /\ Len(p) = Cardinality(OrdersOn(evs))
  /\ Len(r) = Cardinality(RisksOn(evs))
  /\ \A i \in OrdersOn(evs) : /\ RankOn(evs, i) \in 1..Len(p)
                              /\ p[RankOn(evs, i)] = OrderAt(evs, i)
  /\ \A n \in 1..Len(p) : \E i \in OrdersOn(evs) : RankOn(evs, i) = n

BookInv ==
  ~retried =>
    /\ BookOf(pending, rules, events)
    /\ savedContext # <<>> =>
         BookOf(savedContext[1].pending, savedContext[1].rules, saved[1].events)

\* The events of a tape, one more, and the places of its orders.
LEMMA OneEventMore ==
  ASSUME NEW E, NEW evs \in Seq(E), NEW e, NEW t, t = Append(evs, e)
  PROVE  /\ Len(evs) \in Nat /\ Len(t) = Len(evs) + 1
         /\ DOMAIN evs = 1..Len(evs) /\ DOMAIN t = 1..(Len(evs) + 1)
         /\ t[Len(evs) + 1] = e /\ \A i \in 1..Len(evs) : t[i] = evs[i]
         /\ IsFiniteSet(OrdersOn(evs)) /\ IsFiniteSet(RisksOn(evs))
         /\ Len(evs) + 1 \notin OrdersOn(evs) /\ Len(evs) + 1 \notin RisksOn(evs)
         /\ IsOrder(e.key) => OrdersOn(t) = OrdersOn(evs) \cup {Len(evs) + 1}
         /\ ~IsOrder(e.key) => OrdersOn(t) = OrdersOn(evs)
         /\ e.key.command.kind = "risk" => RisksOn(t) = RisksOn(evs) \cup {Len(evs) + 1}
         /\ e.key.command.kind # "risk" => RisksOn(t) = RisksOn(evs)
<1>1. PICK T : T = E \cup {e}
  OBVIOUS
<1>2. evs \in Seq(T) /\ e \in T
  BY <1>1
<1>3. /\ Len(evs) \in Nat /\ Len(t) = Len(evs) + 1
      /\ DOMAIN evs = 1..Len(evs) /\ DOMAIN t = 1..(Len(evs) + 1)
      /\ t[Len(evs) + 1] = e /\ \A i \in 1..Len(evs) : t[i] = evs[i]
  BY <1>2
<1>4. PICK n \in Nat : n = Len(evs)
  BY <1>3
<1>5. 1..(n + 1) = 1..n \cup {n + 1} /\ n + 1 \notin 1..n
  OBVIOUS
<1>6. IsFiniteSet(1..n)
  BY FS_Interval
<1>7. OrdersOn(evs) \subseteq 1..n /\ RisksOn(evs) \subseteq 1..n
  BY <1>3, <1>4 DEF OrdersOn, RisksOn
<1>8. IsFiniteSet(OrdersOn(evs)) /\ IsFiniteSet(RisksOn(evs))
  BY <1>6, <1>7, FS_Subset
<1>9. n + 1 \notin OrdersOn(evs) /\ n + 1 \notin RisksOn(evs)
  BY <1>5, <1>7
<1>10. /\ DOMAIN t = 1..n \cup {n + 1} /\ DOMAIN evs = 1..n /\ t[n + 1] = e
       /\ \A i \in 1..n : t[i] = evs[i]
  BY <1>3, <1>4, <1>5
<1>11. /\ IsOrder(e.key) => OrdersOn(t) = OrdersOn(evs) \cup {n + 1}
       /\ ~IsOrder(e.key) => OrdersOn(t) = OrdersOn(evs)
  BY <1>10 DEF OrdersOn
<1>12. /\ e.key.command.kind = "risk" => RisksOn(t) = RisksOn(evs) \cup {n + 1}
       /\ e.key.command.kind # "risk" => RisksOn(t) = RisksOn(evs)
  BY <1>10 DEF RisksOn
<1>13. QED
  BY <1>3, <1>4, <1>8, <1>9, <1>11, <1>12

\* The places in the book of the intents that were on the tape stay.
LEMMA RanksStay ==
  ASSUME NEW E, NEW evs \in Seq(E), NEW e, NEW t, t = Append(evs, e),
         NEW i \in OrdersOn(evs)
  PROVE  RankOn(t, i) = RankOn(evs, i)
<1>1. i <= Len(evs) /\ i \in Nat /\ Len(evs) \in Nat
  <2>1. DOMAIN evs = 1..Len(evs) /\ Len(evs) \in Nat
    OBVIOUS
  <2>2. QED
    BY <2>1 DEF OrdersOn
<1>2. ~(Len(evs) + 1 <= i)
  BY <1>1
<1>3. OrdersOn(t) = OrdersOn(evs) \/ OrdersOn(t) = OrdersOn(evs) \cup {Len(evs) + 1}
  BY OneEventMore
<1>4. {j \in OrdersOn(t) : j <= i} = {j \in OrdersOn(evs) : j <= i}
  BY <1>2, <1>3
<1>5. QED
  BY <1>4 DEF RankOn

\* What became of an order that was on the tape.
LEMMA FateOfOrder ==
  ASSUME NEW E, NEW evs \in Seq(E), NEW e, NEW t, t = Append(evs, e),
         NEW i \in OrdersOn(evs)
  PROVE  OrderAt(t, i) = IF Cancels(e.key, OrderAt(evs, i).id)
                         THEN [OrderAt(evs, i) EXCEPT !.status = "cancelled"]
                         ELSE OrderAt(evs, i)
<1>1. /\ Len(evs) \in Nat /\ DOMAIN evs = 1..Len(evs) /\ DOMAIN t = 1..(Len(evs) + 1)
      /\ t[Len(evs) + 1] = e /\ \A j \in 1..Len(evs) : t[j] = evs[j]
  BY OneEventMore
<1>2. PICK n \in Nat : n = Len(evs)
  BY <1>1
<1>3. i \in 1..n
  BY <1>1, <1>2 DEF OrdersOn
<1>4. PICK id : id = evs[i].key.command.id
  OBVIOUS
<1>5. t[i].key.command.id = id
  BY <1>1, <1>2, <1>3, <1>4
<1>6. (\E j \in DOMAIN t : j > i /\ Cancels(t[j].key, id)) <=>
        (\E j \in DOMAIN evs : j > i /\ Cancels(evs[j].key, id)) \/ Cancels(e.key, id)
  <2>1. \A j \in DOMAIN t : j \in DOMAIN evs \/ j = n + 1
    BY <1>1, <1>2
  <2>2. n + 1 \in DOMAIN t /\ n + 1 > i /\ \A j \in DOMAIN evs : j \in DOMAIN t
    BY <1>1, <1>2, <1>3
  <2>3. t[n + 1].key = e.key /\ \A j \in DOMAIN evs : t[j].key = evs[j].key
    BY <1>1, <1>2
  <2>4. QED
    BY <2>1, <2>2, <2>3
<1>7. QED
  BY <1>4, <1>5, <1>6 DEF OrderAt

\* An order is placed.
LEMMA BookOnOrder ==
  ASSUME NEW E, NEW evs \in Seq(E), NEW e, NEW p \in Seq(Orders), NEW r,
         BookOf(p, r, evs), IsOrder(e.key), e.key.command.id \in Ids
  PROVE  BookOf(Append(p, [id |-> e.key.command.id, status |-> "pending"]), r, Append(evs, e))
<1>1. PICK t : t = Append(evs, e)
  OBVIOUS
<1>2. PICK n \in Nat : n = Len(evs)
  BY OneEventMore
<1>3. /\ OrdersOn(t) = OrdersOn(evs) \cup {n + 1} /\ RisksOn(t) = RisksOn(evs)
      /\ n + 1 \notin OrdersOn(evs) /\ IsFiniteSet(OrdersOn(evs))
      /\ DOMAIN t = 1..(n + 1) /\ t[n + 1] = e /\ DOMAIN evs = 1..n
  <2>1. e.key.command.kind # "risk"
    BY DEF IsOrder
  <2>2. OrdersOn(t) = OrdersOn(evs) \cup {Len(evs) + 1} /\ RisksOn(t) = RisksOn(evs)
    BY <1>1, <2>1, OneEventMore
  <2>3. Len(evs) + 1 \notin OrdersOn(evs) /\ IsFiniteSet(OrdersOn(evs))
    BY <1>1, OneEventMore
  <2>4. DOMAIN t = 1..(Len(evs) + 1) /\ t[Len(evs) + 1] = e /\ DOMAIN evs = 1..Len(evs)
    BY <1>1, OneEventMore
  <2>5. QED
    BY <1>2, <2>2, <2>3, <2>4
<1>4. PICK order \in Orders : order = [id |-> e.key.command.id, status |-> "pending"]
  BY DEF Orders
<1>5. PICK m \in Nat : m = Len(p)
  OBVIOUS
<1>6. PICK q : q = Append(p, order)
  OBVIOUS
<1>7. q \in Seq(Orders) /\ Len(q) = m + 1 /\ q[m + 1] = order /\ \A k \in 1..m : q[k] = p[k]
  BY <1>5, <1>6
<1>8. Cardinality(OrdersOn(evs)) = m /\ Len(r) = Cardinality(RisksOn(evs))
  BY <1>5 DEF BookOf
<1>9. Cardinality(OrdersOn(t)) = m + 1
  BY <1>3, <1>8, FS_AddElement
<1>10. RankOn(t, n + 1) = m + 1
  <2>1. \A j \in OrdersOn(t) : j <= n + 1
    BY <1>3 DEF OrdersOn
  <2>2. {j \in OrdersOn(t) : j <= n + 1} = OrdersOn(t)
    BY <2>1
  <2>3. QED
    BY <1>9, <2>2 DEF RankOn
<1>11. \A i \in OrdersOn(evs) : RankOn(t, i) = RankOn(evs, i)
  BY <1>1, RanksStay
<1>12. \A i \in OrdersOn(evs) : OrderAt(t, i) = OrderAt(evs, i)
  <2>1. \A id : ~Cancels(e.key, id)
    BY DEF IsOrder, Cancels
  <2>2. QED
    BY <1>1, <2>1, FateOfOrder
<1>13. OrderAt(t, n + 1) = order
  <2>1. \A j \in DOMAIN t : ~(j > n + 1)
    BY <1>3
  <2>2. QED
    BY <1>3, <1>4, <2>1 DEF OrderAt
<1>14. ASSUME NEW i \in OrdersOn(t)
       PROVE  RankOn(t, i) \in 1..(m + 1) /\ q[RankOn(t, i)] = OrderAt(t, i)
  <2>1. CASE i = n + 1
    BY <1>7, <1>10, <1>13, <2>1
  <2>2. CASE i \in OrdersOn(evs)
    <3>1. PICK k \in 1..m : k = RankOn(evs, i) /\ p[k] = OrderAt(evs, i)
      BY <1>5, <2>2 DEF BookOf
    <3>2. k \in 1..(m + 1) /\ q[k] = p[k]
      BY <1>7
    <3>3. QED
      BY <1>11, <1>12, <2>2, <3>1, <3>2
  <2>3. QED
    BY <1>3, <2>1, <2>2
<1>15. ASSUME NEW k \in 1..(m + 1)
       PROVE  \E i \in OrdersOn(t) : RankOn(t, i) = k
  <2>1. CASE k = m + 1
    BY <1>3, <1>10, <2>1
  <2>2. CASE k # m + 1
    <3>1. k \in 1..m
      BY <2>2
    <3>2. PICK i \in OrdersOn(evs) : RankOn(evs, i) = k
      BY <1>5, <3>1 DEF BookOf
    <3>3. QED
      BY <1>3, <1>11, <3>2
  <2>3. QED
    BY <2>1, <2>2
<1>16. BookOf(q, r, t)
  BY <1>3, <1>7, <1>8, <1>9, <1>14, <1>15 DEF BookOf
<1>17. QED
  BY <1>1, <1>4, <1>6, <1>16

\* Orders are cancelled.
LEMMA BookOnCancel ==
  ASSUME NEW E, NEW evs \in Seq(E), NEW e, NEW p \in Seq(Orders), NEW r,
         BookOf(p, r, evs), e.key.command.kind \in {"cancel", "cancel_all"},
         NEW q, q = [n \in DOMAIN p |-> IF Cancels(e.key, p[n].id) THEN Cancelled(p[n])
                                                                   ELSE p[n]]
  PROVE  BookOf(q, r, Append(evs, e))
<1>1. PICK t : t = Append(evs, e)
  OBVIOUS
<1>2. OrdersOn(t) = OrdersOn(evs) /\ RisksOn(t) = RisksOn(evs)
  BY <1>1, OneEventMore DEF IsOrder
<1>3. PICK m \in Nat : m = Len(p) /\ DOMAIN p = 1..m
  OBVIOUS
<1>4. /\ DOMAIN q = 1..m /\ Len(q) = m
      /\ \A n \in 1..m : q[n] = IF Cancels(e.key, p[n].id) THEN Cancelled(p[n]) ELSE p[n]
  BY <1>3
<1>5. \A i \in OrdersOn(evs) : RankOn(t, i) = RankOn(evs, i)
  BY <1>1, RanksStay
<1>6. ASSUME NEW i \in OrdersOn(evs)
      PROVE  RankOn(t, i) \in 1..m /\ q[RankOn(t, i)] = OrderAt(t, i)
  <2>1. PICK n \in 1..m : n = RankOn(evs, i) /\ p[n] = OrderAt(evs, i)
    BY <1>3 DEF BookOf
  <2>2. OrderAt(t, i) = IF Cancels(e.key, p[n].id) THEN [p[n] EXCEPT !.status = "cancelled"]
                                                    ELSE p[n]
    <3>1. OrderAt(t, i) = IF Cancels(e.key, OrderAt(evs, i).id)
                          THEN [OrderAt(evs, i) EXCEPT !.status = "cancelled"]
                          ELSE OrderAt(evs, i)
      BY <1>1, FateOfOrder
    <3>2. QED
      BY <2>1, <3>1
  <2>3. QED
    BY <1>4, <1>5, <2>1, <2>2 DEF Cancelled
<1>7. BookOf(q, r, t)
  BY <1>2, <1>3, <1>4, <1>5, <1>6 DEF BookOf
<1>8. QED
  BY <1>1, <1>7

\* A risk rule is added.
LEMMA BookOnRisk ==
  ASSUME NEW E, NEW evs \in Seq(E), NEW e, NEW p, NEW r \in Seq(Ids), NEW rule \in Ids,
         BookOf(p, r, evs), e.key.command.kind = "risk"
  PROVE  BookOf(p, Append(r, rule), Append(evs, e))
<1>1. PICK t : t = Append(evs, e)
  OBVIOUS
<1>2. PICK n \in Nat : n = Len(evs)
  BY OneEventMore
<1>3. /\ OrdersOn(t) = OrdersOn(evs) /\ RisksOn(t) = RisksOn(evs) \cup {n + 1}
      /\ n + 1 \notin RisksOn(evs) /\ IsFiniteSet(RisksOn(evs))
  BY <1>1, <1>2, OneEventMore DEF IsOrder
<1>4. Len(Append(r, rule)) = Len(r) + 1 /\ Len(r) \in Nat
  OBVIOUS
<1>5. Len(Append(r, rule)) = Cardinality(RisksOn(t))
  BY <1>3, <1>4, FS_AddElement DEF BookOf
<1>6. \A i \in OrdersOn(evs) : RankOn(t, i) = RankOn(evs, i) /\ OrderAt(t, i) = OrderAt(evs, i)
  <2>1. \A id : ~Cancels(e.key, id)
    BY DEF Cancels
  <2>2. QED
    BY <1>1, <2>1, RanksStay, FateOfOrder
<1>7. BookOf(p, Append(r, rule), t)
  BY <1>3, <1>5, <1>6 DEF BookOf
<1>8. QED
  BY <1>1, <1>7

\* Nothing on the tape, nothing in the book.
LEMMA BookOnNothing ==
  BookOf(<<>>, <<>>, <<>>)
<1>1. OrdersOn(<<>>) = {} /\ RisksOn(<<>>) = {} /\ Len(<<>>) = 0
  BY DEF OrdersOn, RisksOn
<1>2. Cardinality({}) = 0
  BY FS_EmptySet
<1>3. Len(<<>>) = Cardinality(OrdersOn(<<>>)) /\ Len(<<>>) = Cardinality(RisksOn(<<>>))
  BY <1>1, <1>2
<1>4. \A n \in 1..Len(<<>>) : FALSE
  BY <1>1
<1>5. QED
  BY <1>1, <1>3, <1>4 DEF BookOf

\* The places of a sequence.
LEMMA Places ==
  ASSUME NEW U, NEW s \in Seq(U)
  PROVE  DOMAIN s = 1..Len(s)
OBVIOUS

\* Without a retry every line is a new event.
LEMMA LineStored ==
  ASSUME TapeAssumption, ContextAssumption, RunnerAssumption, IInv, RInv, DInv, RunLine,
         ~retried
  PROVE  \E e : /\ events' = Append(events, e) /\ e.key.command = Lines[line]
                /\ Lines[line] \in Commands
<1>1. Inputs
  BY DEF Inputs, RInv
<1>2. pc = "script" /\ line <= Len(Lines)
  BY DEF RunLine
<1>3. PICK ser \in Series : ser = identity.series
  BY RecordedType
<1>4. PICK key \in AllKeys : key = KeyOfLine(ser)
  BY <1>1, <1>2, LineFollows DEF DInv
<1>5. key.command = Lines[line] /\ Deliver(key, TheBody) /\ Lacks(Delivering(ser), key)
  BY <1>3, <1>4, LineRecorded
<1>6. PICK done \in Seq(AllKeys) : done = Delivering(ser)
  BY <1>1, <1>2, LineFollows DEF DInv
<1>7. PICK tape \in Seq(AllKeys) : /\ tape = Recorded /\ Len(tape) = Len(events)
                                   /\ \A i \in 1..Len(events) : tape[i] = events[i].key
  BY RecordedType
<1>8. Starts(done, tape) /\ Len(tape) = Len(done)
  BY <1>2, <1>3, <1>6, <1>7 DEF DInv, Delivered
<1>9. tape = done
  BY <1>8, StartsWhole
<1>10. DOMAIN events = 1..Len(events) /\ DOMAIN byKey = KeysIn(events)
  <2>1. events \in Seq(Events) /\ DOMAIN byKey = KeysIn(events)
    BY DEF IInv, Live, TypeOK, IndexFaithful
  <2>2. QED
    BY <2>1, Places
<1>11. key \notin DOMAIN byKey
  BY <1>5, <1>6, <1>7, <1>9, <1>10 DEF Lacks, KeysIn
<1>12. events' = Append(events, EventFor(key, TheBody))
  BY <1>5, <1>11 DEF Deliver, StoreNew, RepeatOld
<1>13. EventFor(key, TheBody).key = key
  BY DEF EventFor
<1>14. Lines[line] \in Commands
  BY <1>1, <1>2, NextLine DEF DInv
<1>15. QED
  BY <1>5, <1>12, <1>13, <1>14

\* A line changes the book as its intent says.
LEMMA LineBooked ==
  ASSUME TapeAssumption, ContextAssumption, RunnerAssumption, IInv, CInv, RInv, DInv,
         RunLine, ~retried, BookOf(pending, rules, events)
  PROVE  BookOf(pending, rules, events)'
<1>1. PICK e : /\ events' = Append(events, e) /\ e.key.command = Lines[line]
               /\ Lines[line] \in Commands
  BY LineStored
<1>2. PICK c \in Commands : c = Lines[line]
  BY <1>1
<1>3. c.id \in Ids
  BY DEF Ids
<1>4. pending \in Seq(Orders) /\ rules \in Seq(Ids) /\ events \in Seq(Events)
  BY DEF CInv, BookOK, IInv, Live, TypeOK
<1>5. Submit(BarPosition, c, TheBody)
  BY <1>2 DEF RunLine
<1>6. CASE PlaceOrder(BarPosition, c, TheBody)
  <2>1. /\ c.kind = "order" /\ rules' = rules
        /\ pending' = Append(pending, [id |-> c.id, status |-> "pending"])
    BY <1>6 DEF PlaceOrder
  <2>2. IsOrder(e.key) /\ e.key.command.id = c.id
    BY <1>1, <1>2, <2>1 DEF IsOrder
  <2>3. BookOf(Append(pending, [id |-> e.key.command.id, status |-> "pending"]), rules,
               Append(events, e))
    BY <1>3, <1>4, <2>2, BookOnOrder
  <2>4. QED
    BY <1>1, <2>1, <2>2, <2>3
<1>7. CASE CancelOrder(BarPosition, c, TheBody) \/ CancelAll(BarPosition, c, TheBody)
  <2>1. c.kind \in {"cancel", "cancel_all"} /\ rules' = rules
    BY <1>7 DEF CancelOrder, CancelAll
  <2>2. pending' = [n \in DOMAIN pending |-> IF Cancels(e.key, pending[n].id)
                                             THEN Cancelled(pending[n]) ELSE pending[n]]
    <3>1. CASE CancelOrder(BarPosition, c, TheBody)
      <4>1. \A n \in DOMAIN pending : Cancels(e.key, pending[n].id) <=> pending[n].id = c.id
        BY <1>1, <1>2, <3>1 DEF CancelOrder, Cancels
      <4>2. QED
        BY <3>1, <4>1 DEF CancelOrder
    <3>2. CASE CancelAll(BarPosition, c, TheBody)
      <4>1. \A n \in DOMAIN pending : Cancels(e.key, pending[n].id)
        BY <1>1, <1>2, <3>2 DEF CancelAll, Cancels
      <4>2. QED
        BY <3>2, <4>1 DEF CancelAll
    <3>3. QED
      BY <1>7, <3>1, <3>2
  <2>3. e.key.command.kind \in {"cancel", "cancel_all"}
    BY <1>1, <1>2, <2>1
  <2>4. BookOf(pending', rules, Append(events, e))
    BY <1>4, <2>2, <2>3, BookOnCancel
  <2>5. QED
    BY <1>1, <2>1, <2>4
<1>8. CASE AddRiskRule(BarPosition, c, TheBody)
  <2>1. c.kind = "risk" /\ rules' = Append(rules, c.id) /\ pending' = pending
    BY <1>8 DEF AddRiskRule
  <2>2. e.key.command.kind = "risk"
    BY <1>1, <1>2, <2>1
  <2>3. BookOf(pending, Append(rules, c.id), Append(events, e))
    BY <1>3, <1>4, <2>2, BookOnRisk
  <2>4. QED
    BY <1>1, <2>1, <2>3
<1>9. QED
  BY <1>5, <1>6, <1>7, <1>8 DEF Submit

\* Steps that record nothing leave the book and the checkpoints.
LEMMA BookStays ==
  ASSUME BookInv, UNCHANGED <<events, pending, rules, saved, savedContext>>,
         retried => retried'
  PROVE  BookInv'
BY DEF BookInv

\* What a run's book is, live and saved, is an invariant.
THEOREM BookInductive == RunnerSpec => []BookInv
<1>1. RunnerInit => BookInv
  BY BookOnNothing DEF RunnerInit, ContextInit, Init, BookInv
<1>2. ASSUME IInv, CInv, RInv, DInv, BookInv, [RunnerNext]_runnerVars
      PROVE  BookInv'
  <2>1. CASE Call \/ BeginPass \/ CommitTheIntents \/ TakeSnapshot
    <3>1. UNCHANGED <<events, pending, rules, saved, savedContext, retried>>
      BY <2>1 DEF Call, AttachRuntime, SetSeriesIdentity, BeginPass, BeginIntentCallback,
         BeginCallback, CommitTheIntents, CommitIntents, CommitBar, TakeSnapshot,
         CommitScalarHistory, tapeVars, vars, contextVars, hostVars
    <3>2. QED
      BY <1>2, <3>1, BookStays
  <2>2. CASE BeginHistoricalBar \/ FlagHistory \/ BeginLiveBar \/ FeedTick \/ EndPass \/ EndTheBar
             \/ Raise \/ Retry \/ Finished \/ UNCHANGED runnerVars
    <3>1. UNCHANGED <<events, pending, rules, saved, savedContext>> /\ (retried => retried')
      BY <2>2 DEF BeginHistoricalBar, FlagHistory, BeginLiveBar, FeedTick, EndPass, EndTheBar,
         Raise, Retry, Finished, runnerVars, allVars, vars, tapeVars, contextVars, hostVars
    <3>2. QED
      BY <1>2, <3>1, BookStays
  <2>3. CASE RunLine
    <3>1. UNCHANGED <<saved, savedContext, retried>>
      <4>1. Submit(BarPosition, Lines[line], TheBody) /\ UNCHANGED retried
        BY <2>3 DEF RunLine, hostVars
      <4>2. RecordIntent(BarPosition, Lines[line], TheBody)
        BY <4>1, SubmitRecords
      <4>3. QED
        BY <4>1, <4>2 DEF RecordIntent, RecordAutomatic, Submit, PlaceOrder, CancelOrder,
           CancelAll, AddRiskRule
    <3>2. ~retried => BookOf(pending, rules, events)'
      BY <1>2, <2>3, LineBooked, TapeAssumption, ContextAssumption, RunnerAssumption
         DEF BookInv
    <3>3. QED
      BY <1>2, <3>1, <3>2 DEF BookInv
  <2>4. ASSUME NEW keep \in BOOLEAN, ReportProgress(keep)
        PROVE  BookInv'
    <3>1. UNCHANGED <<events, pending, rules, retried>>
      BY <2>4 DEF ReportProgress, ExportStrategy, ExportState, hostVars, allVars, vars,
         tapeVars, contextVars
    <3>2. CASE keep
      <4>1. /\ saved'[1].events = events /\ savedContext'[1].pending = pending
            /\ savedContext'[1].rules = rules
        BY <2>4, <3>2 DEF ReportProgress, ExportStrategy, ExportState, Checkpoint
      <4>2. QED
        BY <1>2, <3>1, <4>1 DEF BookInv
    <3>3. CASE ~keep
      <4>1. UNCHANGED <<saved, savedContext>>
        BY <2>4, <3>3 DEF ReportProgress, allVars, vars, contextVars
      <4>2. QED
        BY <1>2, <3>1, <4>1, BookStays
    <3>4. QED
      BY <3>2, <3>3
  <2>5. ASSUME RestoreStrategy, UNCHANGED retried
        PROVE  BookInv'
    <3>1. /\ savedContext # <<>> /\ UNCHANGED <<saved, savedContext>>
          /\ events' = saved[1].events /\ pending' = savedContext[1].pending
          /\ rules' = savedContext[1].rules
      BY <2>5 DEF RestoreStrategy, RestoreState
    <3>2. QED
      BY <1>2, <2>5, <3>1 DEF BookInv
  <2>6. CASE Die \/ Discard
    <3>1. /\ events' = <<>> /\ pending' = <<>> /\ rules' = <<>>
          /\ UNCHANGED <<saved, savedContext, retried>>
      BY <2>6 DEF Die, Discard, NewContext, NewTape, hostVars
    <3>2. QED
      BY <1>2, <3>1, BookOnNothing DEF BookInv
  <2>7. CASE RollBack \/ Resume
    <3>1. UNCHANGED retried
      BY <2>7 DEF RollBack, Resume, hostVars
    <3>2. RestoreStrategy \/ UNCHANGED <<events, pending, rules, saved, savedContext>>
      BY <2>7 DEF RollBack, Resume, allVars, vars, tapeVars, contextVars
    <3>3. QED
      BY <1>2, <2>5, <3>1, <3>2, BookStays
  <2>8. QED
    BY <1>2, <2>1, <2>2, <2>3, <2>4, <2>6, <2>7 DEF RunnerNext, Loop, Recover
<1>3. QED
  BY <1>1, <1>2, RunnerInductive, DeliveryInductive, PTL DEF RunnerSpec

\* Without a retry on the same objects the book is the replay of the tape: one order
\* per order intent, in the order of the tape, cancelled exactly by the cancels that
\* came after it, whatever rollbacks and resumes there were.
THEOREM RunReplaysBook == RunnerSpec => []BookIsReplay
<1>1. ASSUME IInv, CInv, BookInv
      PROVE  BookIsReplay
  <2> SUFFICES ASSUME ~retried
               PROVE  BookIsReplay
    BY DEF BookIsReplay
  <2>1. BookOf(pending, rules, events)
    BY <1>1 DEF BookInv
  <2>2. pending \in Seq(Orders)
    BY <1>1 DEF CInv, BookOK
  <2>3. PICK places : places = OrdersOn(events)
    OBVIOUS
  <2>4. PICK m \in Nat : m = Len(pending) /\ m = Cardinality(places)
    BY <2>1, <2>2, <2>3 DEF BookOf
  <2>5. PICK book : book = [i \in places |-> OrderAt(events, i)]
    OBVIOUS
  <2>6. ASSUME NEW n \in 1..m
        PROVE  pending[n] =
                 book[CHOOSE i \in places : Cardinality({j \in places : j \leq i}) = n]
    <3>1. \E i \in places : Cardinality({j \in places : j \leq i}) = n
      BY <2>1, <2>3, <2>4 DEF BookOf, RankOn
    <3>2. PICK i \in places : /\ Cardinality({j \in places : j \leq i}) = n
                              /\ i = CHOOSE h \in places :
                                       Cardinality({j \in places : j \leq h}) = n
      BY <3>1
    <3>3. pending[n] = OrderAt(events, i)
      BY <2>1, <2>3, <3>2 DEF BookOf, RankOn
    <3>4. QED
      BY <2>5, <3>2, <3>3
  <2>7. pending = [n \in 1..m |-> pending[n]]
    <3>1. \A p \in Seq(Orders) : p = [n \in 1..Len(p) |-> p[n]]
      OBVIOUS
    <3>2. pending = [n \in 1..Len(pending) |-> pending[n]]
      BY <2>2, <3>1
    <3>3. QED
      BY <2>4, <3>2
  <2>8. pending = [n \in 1..Cardinality(places) |->
                     book[CHOOSE i \in places : Cardinality({j \in places : j \leq i}) = n]]
    BY <2>4, <2>6, <2>7
  <2>9. QED
    BY <2>3, <2>5, <2>8 DEF BookIsReplay, OrdersOn, OrderAt
<1>2. QED
  BY <1>1, RunnerInductive, BookInductive, PTL

-----------------------------------------------------------------------------
(***************************************************************************)
(* The snapshots of a call.  A process that dies leaves them to the next   *)
(* call to reset, when the tape may have another series: what they count   *)
(* does not depend on the series.                                          *)
(***************************************************************************)

\* The same commands in the same order.
Alike(p, q) == Len(p) = Len(q) /\ \A i \in 1..Len(p) : p[i].command = q[i].command

\* Sequences alike, one after the other.
LEMMA AlikeConcat ==
  ASSUME NEW U, NEW p \in Seq(U), NEW q \in Seq(U), NEW r \in Seq(U), NEW s \in Seq(U),
         Alike(p, q), Alike(r, s)
  PROVE  Alike(p \o r, q \o s)
<1>1. /\ Len(p) \in Nat /\ Len(r) \in Nat /\ Len(q) = Len(p) /\ Len(s) = Len(r)
      /\ Len(p \o r) = Len(p) + Len(r) /\ Len(q \o s) = Len(p) + Len(r)
  <2>1. Len(q) = Len(p) /\ Len(s) = Len(r)
    BY DEF Alike
  <2>2. /\ Len(p) \in Nat /\ Len(r) \in Nat
        /\ Len(p \o r) = Len(p) + Len(r) /\ Len(q \o s) = Len(q) + Len(s)
    OBVIOUS
  <2>3. QED
    BY <2>1, <2>2
<1>2. ASSUME NEW i \in 1..(Len(p) + Len(r))
      PROVE  (p \o r)[i].command = (q \o s)[i].command
  <2>1. CASE i <= Len(p)
    <3>1. i \in 1..Len(p) /\ i \in 1..Len(q)
      BY <1>1, <2>1
    <3>2. (p \o r)[i] = p[i] /\ (q \o s)[i] = q[i]
      BY <1>1, <2>1
    <3>3. QED
      BY <3>1, <3>2 DEF Alike
  <2>2. CASE ~(i <= Len(p))
    <3>1. i - Len(p) \in 1..Len(r)
      BY <1>1, <2>2
    <3>2. (p \o r)[i] = r[i - Len(p)] /\ (q \o s)[i] = s[i - Len(p)]
      BY <1>1, <2>2
    <3>3. QED
      BY <3>1, <3>2 DEF Alike
  <2>3. QED
    BY <2>1, <2>2
<1>3. QED
  BY <1>1, <1>2 DEF Alike

\* Sequences alike have as many commands of a kind.
LEMMA AlikeCount ==
  ASSUME NEW U, NEW p \in Seq(U), NEW q \in Seq(U), Alike(p, q), NEW kind
  PROVE  CountIn(p, kind) = CountIn(q, kind)
<1>1. DOMAIN p = 1..Len(p) /\ DOMAIN q = 1..Len(p)
  BY Places DEF Alike
<1>2. {i \in DOMAIN p : p[i].command.kind = kind} = {i \in DOMAIN q : q[i].command.kind = kind}
  BY <1>1 DEF Alike
<1>3. QED
  BY <1>2 DEF CountIn

\* Nothing is like nothing.
LEMMA AlikeNothing == Alike(<<>>, <<>>)
BY DEF Alike

\* The passes of a bar deliver the same commands to tapes of any series.
LEMMA PassesAlike ==
  ASSUME Inputs, NEW a \in Series, NEW b \in Series, NEW n \in 1..Len(feed)
  PROVE  Alike(PassesUpTo(a, n, PassesOf(n)), PassesUpTo(b, n, PassesOf(n)))
<1> DEFINE S == {m \in Nat : m <= PassesOf(n) =>
                               Alike(PassesUpTo(a, n, m), PassesUpTo(b, n, m))}
<1>1. PassesOf(n) \in 1..(MaxRecalc + 1) /\ MaxRecalc \in Nat
  BY PassesBound DEF Inputs, TapeAssumption
<1>2. 0 \in S
  <2>1. 0 \in 0..MaxRecalc
    BY <1>1
  <2>2. PassesUpTo(a, n, 0) = <<>> /\ PassesUpTo(b, n, 0) = <<>>
    BY <2>1, PassesStep
  <2>3. QED
    BY <2>2, AlikeNothing
<1>3. ASSUME NEW m \in Nat, m \in S PROVE m + 1 \in S
  <2> SUFFICES ASSUME m + 1 <= PassesOf(n)
               PROVE  Alike(PassesUpTo(a, n, m + 1), PassesUpTo(b, n, m + 1))
    OBVIOUS
  <2>1. m \in 0..MaxRecalc /\ m \in 0..(MaxRecalc + 1) /\ m <= PassesOf(n)
    BY <1>1
  <2>2. Alike(PassesUpTo(a, n, m), PassesUpTo(b, n, m))
    BY <1>3, <2>1
  <2>3. Alike(PassKeysOf(a, n, m), PassKeysOf(b, n, m))
    <3>1. PICK lines : lines = script[<<n, m>>]
      OBVIOUS
    <3>2. ASSUME NEW ser \in Series
          PROVE  /\ Len(PassKeysOf(ser, n, m)) = Len(lines)
                 /\ \A i \in 1..Len(lines) : PassKeysOf(ser, n, m)[i].command = lines[i]
      <4>1. /\ Len(PassKeysOf(ser, n, m)) = Len(lines)
            /\ \A i \in 1..Len(lines) :
                 PassKeysOf(ser, n, m)[i] =
                   [series |-> ser, pos |-> PositionOf(n), phase |-> "BAR_BEGIN",
                    recalc |-> m, command |-> lines[i],
                    ordinal |-> Earlier(lines, lines[i], i)]
        BY <2>1, <3>1, PassType
      <4>2. ASSUME NEW i \in 1..Len(lines)
            PROVE  PassKeysOf(ser, n, m)[i].command = lines[i]
        <5>1. PICK count : count = Earlier(lines, lines[i], i)
          OBVIOUS
        <5>2. PassKeysOf(ser, n, m)[i] =
                [series |-> ser, pos |-> PositionOf(n), phase |-> "BAR_BEGIN",
                 recalc |-> m, command |-> lines[i], ordinal |-> count]
          BY <4>1, <5>1
        <5>3. QED
          BY <5>2
      <4>3. QED
        BY <4>1, <4>2
    <3>3. QED
      BY <3>2 DEF Alike
  <2>4. /\ PassesUpTo(a, n, m) \in Seq(AllKeys) /\ PassesUpTo(b, n, m) \in Seq(AllKeys)
        /\ PassKeysOf(a, n, m) \in Seq(AllKeys) /\ PassKeysOf(b, n, m) \in Seq(AllKeys)
    BY <2>1, AreKeys
  <2>5. Alike(PassesUpTo(a, n, m) \o PassKeysOf(a, n, m),
              PassesUpTo(b, n, m) \o PassKeysOf(b, n, m))
    BY <2>2, <2>3, <2>4, AlikeConcat
  <2>6. QED
    BY <2>1, <2>5, PassesStep
<1>4. Nat \subseteq S
  <2> HIDE DEF S
  <2> QED
    BY <1>2, <1>3, F!SetInduction
<1>5. QED
  BY <1>1, <1>4

\* And so do the bars of the feed.
LEMMA BarsAlike ==
  ASSUME Inputs, NEW a \in Series, NEW b \in Series, NEW n \in 0..Len(feed)
  PROVE  Alike(BarsUpTo(a, n), BarsUpTo(b, n))
<1> DEFINE S == {m \in Nat : m <= Len(feed) => Alike(BarsUpTo(a, m), BarsUpTo(b, m))}
<1>1. Len(feed) \in Nat /\ MaxRecalc \in Nat
  BY FeedLength DEF Inputs, TapeAssumption
<1>2. 0 \in S
  BY NoBars, AlikeNothing
<1>3. ASSUME NEW m \in Nat, m \in S PROVE m + 1 \in S
  <2> SUFFICES ASSUME m + 1 <= Len(feed)
               PROVE  Alike(BarsUpTo(a, m + 1), BarsUpTo(b, m + 1))
    OBVIOUS
  <2>1. m \in 0..Len(feed) /\ m + 1 \in 1..Len(feed) /\ m <= Len(feed)
    BY <1>1
  <2>2. Alike(BarsUpTo(a, m), BarsUpTo(b, m))
    BY <1>3, <2>1
  <2>3. Alike(PassesUpTo(a, m + 1, PassesOf(m + 1)), PassesUpTo(b, m + 1, PassesOf(m + 1)))
    BY <2>1, PassesAlike
  <2>4. PassesOf(m + 1) \in 0..(MaxRecalc + 1)
    <3>1. PassesOf(m + 1) \in 1..(MaxRecalc + 1)
      BY <2>1, PassesBound
    <3>2. QED
      BY <1>1, <3>1
  <2>5. /\ BarsUpTo(a, m) \in Seq(AllKeys) /\ BarsUpTo(b, m) \in Seq(AllKeys)
        /\ PassesUpTo(a, m + 1, PassesOf(m + 1)) \in Seq(AllKeys)
        /\ PassesUpTo(b, m + 1, PassesOf(m + 1)) \in Seq(AllKeys)
    BY <2>1, <2>4, AreKeys
  <2>6. Alike(BarsUpTo(a, m) \o PassesUpTo(a, m + 1, PassesOf(m + 1)),
              BarsUpTo(b, m) \o PassesUpTo(b, m + 1, PassesOf(m + 1)))
    BY <2>2, <2>3, <2>5, AlikeConcat
  <2>7. QED
    BY <2>1, <2>6, BarsStep
<1>4. Nat \subseteq S
  <2> HIDE DEF S
  <2> QED
    BY <1>2, <1>3, F!SetInduction
<1>5. QED
  BY <1>1, <1>4

\* What the snapshot of bar n tells.
SnapshotOf(ser, n) ==
  [index |-> n - 1, time |-> feed[n].bar.time,
   orders |-> CountIn(BarsUpTo(ser, n), "order"),
   rules |-> CountIn(BarsUpTo(ser, n), "risk")]

Snapshots == {SnapshotOf(ser, n) : ser \in Series, n \in 1..Len(feed)}

\* The snapshots of a call are those of its bars, up to where the loop stands.
Snapped ==
  /\ first \in Nat \ {0}
  /\ snapshots \in Seq(Snapshots)
  /\ \A i \in 1..Len(snapshots) :
       /\ first + i - 1 \in 1..Len(feed)
       /\ \A ser \in Series : snapshots[i] = SnapshotOf(ser, first + i - 1)
  /\ pc \in {"bar", "snapshot"} \/ InBar => bar = first + Len(snapshots)
  /\ pc = "progress" => bar = first + Len(snapshots) - 1

SnapInv == ~retried => Snapped

\* A snapshot does not depend on the series.
LEMMA SnapshotAlike ==
  ASSUME Inputs, NEW a \in Series, NEW b \in Series, NEW n \in 1..Len(feed)
  PROVE  SnapshotOf(a, n) = SnapshotOf(b, n)
<1>1. Len(feed) \in Nat
  BY FeedLength DEF Inputs
<1>2. n \in 0..Len(feed)
  BY <1>1
<1>3. BarsUpTo(a, n) \in Seq(AllKeys) /\ BarsUpTo(b, n) \in Seq(AllKeys)
  BY <1>2, AreKeys
<1>4. Alike(BarsUpTo(a, n), BarsUpTo(b, n))
  BY <1>2, BarsAlike
<1>5. \A kind : CountIn(BarsUpTo(a, n), kind) = CountIn(BarsUpTo(b, n), kind)
  BY <1>3, <1>4, AlikeCount
<1>6. QED
  BY <1>5 DEF SnapshotOf

\* The snapshot the loop takes is that of its bar.
LEMMA SnapshotNow ==
  ASSUME Inputs, IInv, CInv, RInv, RowInv, DInv, BookInv, ~retried, pc = "snapshot"
  PROVE  /\ bar \in 1..Len(feed)
         /\ Snapshot = SnapshotOf(identity.series, bar)
<1>1. ~Opened /\ pc # "raised"
  BY DEF Opened, InBar
<1>2. RowsOK(feed, barIndex, chartBars, currentBar, series[BarName], FALSE)
  BY <1>1, RowsNow DEF RowsOK
<1>3. /\ bar = barIndex + 1 /\ barIndex \in Nat
      /\ bar \in 1..Len(feed) /\ bar \in 0..Len(feed)
  <2>1. bar = barIndex + 1 /\ barIndex + 1 \leq Len(feed) /\ barIndex \in Int
    BY DEF RInv, Placed, Usable
  <2>2. ScalarsOK(closedtrades, barIndex)
    BY DEF RowInv
  <2>3. barIndex \in Nat
    <3>1. PICK h \in Seq(Nat) : h = closedtrades.history /\ Len(h) = barIndex
      BY <2>2 DEF ScalarsOK
    <3>2. QED
      BY <3>1, LengthIsNumber
  <2>4. Len(feed) \in Nat
    BY FeedLength DEF Inputs
  <2>5. QED
    BY <2>1, <2>3, <2>4
<1>4. currentBar.time = feed[bar].bar.time
  <2>1. Len(chartBars) = bar /\ currentBar = chartBars[bar] /\ bar # 0
    BY <1>2, <1>3 DEF RowsOK
  <2>2. bar \in 1..(barIndex + 1)
    BY <1>3
  <2>3. QED
    BY <1>2, <2>1, <2>2 DEF RowsOK
<1>5. PICK ser \in Series : ser = identity.series
  BY RecordedType DEF Inputs
<1>6. PICK done \in Seq(AllKeys) : done = BarsUpTo(ser, bar)
  BY <1>3, AreKeys
<1>7. PICK tape \in Seq(AllKeys) : /\ tape = Recorded /\ Len(tape) = Len(events)
                                  /\ \A i \in 1..Len(events) : tape[i] = events[i].key
  BY RecordedType DEF Inputs
<1>8. Delivering(ser) = done
  BY <1>3, <1>6 DEF Delivering
<1>9. Starts(done, tape) /\ Len(tape) = Len(done)
  BY <1>5, <1>7, <1>8 DEF DInv, Delivered
<1>10. tape = done
  BY <1>9, StartsWhole
<1>11. DOMAIN tape = 1..Len(events) /\ DOMAIN events = 1..Len(events)
  <2>1. events \in Seq(Events)
    BY DEF IInv, Live, TypeOK
  <2>2. QED
    BY <1>7, <2>1, Places
<1>12. Len(pending) = CountIn(done, "order") /\ Len(rules) = CountIn(done, "risk")
  <2>1. Len(pending) = Cardinality(OrdersOn(events)) /\ Len(rules) = Cardinality(RisksOn(events))
    BY DEF BookInv, BookOf
  <2>2. OrdersOn(events) = {i \in DOMAIN tape : tape[i].command.kind = "order"}
    BY <1>7, <1>11 DEF OrdersOn, IsOrder
  <2>3. RisksOn(events) = {i \in DOMAIN tape : tape[i].command.kind = "risk"}
    BY <1>7, <1>11 DEF RisksOn
  <2>4. QED
    BY <1>10, <2>1, <2>2, <2>3 DEF CountIn
<1>13. barIndex = bar - 1
  BY <1>3
<1>14. QED
  BY <1>3, <1>4, <1>5, <1>6, <1>12, <1>13 DEF Snapshot, SnapshotOf
\* Snapshots tell of the inputs, which never change.
LEMMA SameSnapshots ==
  ASSUME UNCHANGED inputs
  PROVE  /\ \A ser, n : SnapshotOf(ser, n)' = SnapshotOf(ser, n)
         /\ Snapshots' = Snapshots /\ Len(feed)' = Len(feed)
<1>1. feed' = feed
  BY DEF inputs
<1>2. \A ser, n : BarsUpTo(ser, n)' = BarsUpTo(ser, n)
  BY SameKeys
<1>3. \A ser, n : SnapshotOf(ser, n)' = SnapshotOf(ser, n)
  BY <1>1, <1>2 DEF SnapshotOf
<1>4. QED
  BY <1>1, <1>3 DEF Snapshots

\* Where the place of the loop's bar among the snapshots is known.
AtABar == pc \in {"bar", "snapshot"} \/ InBar

\* Steps that take no snapshot and stay at their bar.
LEMMA SnapshotsStay ==
  ASSUME Snapped, UNCHANGED <<first, bar, snapshots, inputs>>,
         AtABar' => AtABar, pc' = "progress" => pc = "progress"
  PROVE  Snapped'
<1>1. /\ \A ser, n : SnapshotOf(ser, n)' = SnapshotOf(ser, n)
      /\ Snapshots' = Snapshots /\ Len(feed)' = Len(feed)
  BY SameSnapshots
<1>2. first' = first /\ bar' = bar /\ snapshots' = snapshots
  OBVIOUS
<1>3. /\ first' \in Nat \ {0}
      /\ snapshots' \in Seq(Snapshots')
  BY <1>1, <1>2 DEF Snapped
<1>4. \A i \in 1..Len(snapshots') :
        /\ first' + i - 1 \in 1..Len(feed)'
        /\ \A ser \in Series : snapshots'[i] = SnapshotOf(ser, first + i - 1)'
  BY <1>1, <1>2 DEF Snapped
<1>5. AtABar' => bar' = first' + Len(snapshots')
  BY <1>2 DEF Snapped, AtABar
<1>6. pc' = "progress" => bar' = first' + Len(snapshots') - 1
  BY <1>2 DEF Snapped
<1>7. QED
  BY <1>2, <1>3, <1>4, <1>5, <1>6 DEF Snapped, AtABar

\* A call starts without snapshots, before the first bar that has not ended.
LEMMA CallSnaps ==
  ASSUME RInv, Call
  PROVE  Snapped'
<1>1. barIndex \in Int /\ -1 \leq barIndex
  BY DEF RInv, Usable
<1>2. /\ first' = barIndex + 2 /\ bar' = barIndex + 2 /\ snapshots' = <<>>
      /\ pc' \in {"done", "bar"}
  BY DEF Call
<1>3. first' \in Nat \ {0} /\ bar' = first' + 0
  BY <1>1, <1>2
<1>4. snapshots' \in Seq(Snapshots') /\ Len(snapshots') = 0
  BY <1>2
<1>5. \A i \in 1..Len(snapshots') : FALSE
  BY <1>4
<1>6. QED
  BY <1>2, <1>3, <1>4, <1>5 DEF Snapped

\* One snapshot more.
LEMMA OneSnapshotMore ==
  ASSUME NEW U, NEW s \in Seq(U), NEW e \in U, NEW t, t = Append(s, e)
  PROVE  /\ t \in Seq(U) /\ Len(s) \in Nat /\ Len(t) = Len(s) + 1
         /\ \A i \in 1..Len(s) : t[i] = s[i]
         /\ t[Len(s) + 1] = e
OBVIOUS

\* Taking a snapshot.
LEMMA SnapshotSnaps ==
  ASSUME Inputs, IInv, CInv, RInv, RowInv, DInv, BookInv, Snapped, ~retried, TakeSnapshot
  PROVE  Snapped'
<1>1. /\ pc = "snapshot" /\ pc' = "progress" /\ UNCHANGED <<first, bar, inputs>>
      /\ snapshots' = Append(snapshots, Snapshot)
  BY DEF TakeSnapshot, hostVars
<1>2. PICK snap : snap = Snapshot /\ snap = SnapshotOf(identity.series, bar)
  BY <1>1, SnapshotNow
<1>3. bar \in 1..Len(feed)
  BY <1>1, SnapshotNow
<1>4. identity.series \in Series
  BY RecordedType DEF Inputs
<1>5. \A ser \in Series : snap = SnapshotOf(ser, bar)
  BY <1>2, <1>3, <1>4, SnapshotAlike
<1>6. snap \in Snapshots
  BY <1>2, <1>3, <1>4 DEF Snapshots
<1>7. PICK len \in Nat : len = Len(snapshots)
  BY LengthIsNumber DEF Snapped
<1>8. /\ snapshots' \in Seq(Snapshots) /\ Len(snapshots') = len + 1
      /\ \A i \in 1..len : snapshots'[i] = snapshots[i]
      /\ snapshots'[len + 1] = snap
  BY <1>1, <1>2, <1>6, <1>7, OneSnapshotMore DEF Snapped
<1>9. /\ \A ser, n : SnapshotOf(ser, n)' = SnapshotOf(ser, n)
      /\ Snapshots' = Snapshots /\ Len(feed)' = Len(feed)
  BY <1>1, SameSnapshots
<1>10. first \in Nat \ {0} /\ bar = first + len
  BY <1>1, <1>7 DEF Snapped
<1>11. \A i \in 1..(len + 1) : i \in 1..len \/ i = len + 1
  OBVIOUS
<1>12. ASSUME NEW i \in 1..(len + 1)
       PROVE  /\ first + i - 1 \in 1..Len(feed)
              /\ \A ser \in Series : snapshots'[i] = SnapshotOf(ser, first + i - 1)
  <2>1. CASE i \in 1..len
    BY <1>7, <1>8, <2>1 DEF Snapped
  <2>2. CASE i = len + 1
    <3>1. first + i - 1 = bar
      BY <1>10, <2>2
    <3>2. QED
      BY <1>3, <1>5, <1>8, <2>2, <3>1
  <2>3. QED
    BY <1>11, <2>1, <2>2
<1>13. /\ first' \in Nat \ {0} /\ snapshots' \in Seq(Snapshots')
       /\ bar' = first' + Len(snapshots') - 1
  BY <1>1, <1>8, <1>9, <1>10
<1>14. \A i \in 1..Len(snapshots') :
         /\ first' + i - 1 \in 1..Len(feed)'
         /\ \A ser \in Series : snapshots'[i] = SnapshotOf(ser, first + i - 1)'
  BY <1>1, <1>8, <1>9, <1>12
<1>15. ~AtABar'
  BY <1>1 DEF AtABar, InBar
<1>16. QED
  BY <1>1, <1>13, <1>14, <1>15 DEF Snapped, AtABar

\* The loop goes on to the next bar, for which there is no snapshot yet.
LEMMA ProgressSnaps ==
  ASSUME Snapped, NEW keep \in BOOLEAN, ReportProgress(keep)
  PROVE  Snapped'
<1>1. /\ pc = "progress" /\ pc' \in {"done", "bar"} /\ bar' = bar + 1
      /\ UNCHANGED <<first, snapshots, inputs>>
  BY DEF ReportProgress, hostVars
<1>2. /\ \A ser, n : SnapshotOf(ser, n)' = SnapshotOf(ser, n)
      /\ Snapshots' = Snapshots /\ Len(feed)' = Len(feed)
  BY <1>1, SameSnapshots
<1>3. PICK len \in Nat : len = Len(snapshots) /\ len = Len(snapshots')
  BY <1>1, LengthIsNumber DEF Snapped
<1>4. /\ first \in Nat \ {0} /\ snapshots \in Seq(Snapshots)
      /\ bar = first + len - 1
  BY <1>1, <1>3 DEF Snapped
<1>5. bar' = first' + len
  BY <1>1, <1>4
<1>6. \A i \in 1..Len(snapshots') :
        /\ first' + i - 1 \in 1..Len(feed)'
        /\ \A ser \in Series : snapshots'[i] = SnapshotOf(ser, first + i - 1)'
  BY <1>1, <1>2 DEF Snapped
<1>7. QED
  BY <1>1, <1>2, <1>3, <1>4, <1>5, <1>6 DEF Snapped

\* The snapshots of a call and the bar the loop is at go together.
THEOREM SnapshotsInductive == RunnerSpec => []SnapInv
<1>1. RunnerInit => SnapInv
  <2> SUFFICES ASSUME RunnerInit PROVE Snapped
    BY DEF SnapInv
  <2>1. first = 1 /\ bar = 1 /\ snapshots = <<>> /\ pc = "call"
    BY DEF RunnerInit
  <2>2. snapshots \in Seq(Snapshots) /\ Len(snapshots) = 0
    BY <2>1
  <2>3. \A i \in 1..Len(snapshots) : FALSE
    BY <2>2
  <2>4. QED
    BY <2>1, <2>2, <2>3 DEF Snapped, InBar
<1>2. ASSUME IInv, CInv, RInv, RowInv, DInv, BookInv, SnapInv, [RunnerNext]_runnerVars
      PROVE  SnapInv'
  <2> SUFFICES ASSUME ~retried' PROVE Snapped'
    BY DEF SnapInv
  <2>1. CASE Retry
    BY <2>1 DEF Retry
  <2>2. CASE ~Retry
    <3>1. UNCHANGED <<inputs, retried>>
      BY <1>2, <2>2 DEF RunnerNext, Loop, Recover, Call, BeginHistoricalBar, FlagHistory,
         BeginLiveBar, FeedTick, BeginPass, RunLine, EndPass, CommitTheIntents, EndTheBar,
         TakeSnapshot, ReportProgress, Raise, RollBack, Discard, Resume, Die, Finished,
         runnerVars, hostVars
    <3>2. Snapped /\ ~retried
      BY <1>2, <3>1 DEF SnapInv
    <3>3. Inputs
      BY <1>2, TapeAssumption, RunnerAssumption DEF Inputs, RInv
    <3>4. CASE Call
      BY <1>2, <3>4, CallSnaps
    <3>5. CASE TakeSnapshot
      BY <1>2, <3>2, <3>3, <3>5, SnapshotSnaps
    <3>6. ASSUME NEW keep \in BOOLEAN, ReportProgress(keep) PROVE Snapped'
      BY <3>2, <3>6, ProgressSnaps
    <3>7. CASE BeginHistoricalBar \/ FlagHistory \/ BeginLiveBar \/ FeedTick \/ BeginPass
               \/ RunLine \/ EndPass \/ CommitTheIntents \/ EndTheBar
      <4>1. UNCHANGED <<first, bar, snapshots>> /\ AtABar /\ pc' # "progress"
        BY <3>7 DEF BeginHistoricalBar, FlagHistory, BeginLiveBar, FeedTick, BeginPass,
           RunLine, EndPass, CommitTheIntents, EndTheBar, loopVars, AtABar, InBar
      <4>2. QED
        BY <3>1, <3>2, <4>1, SnapshotsStay
    <3>8. CASE Raise \/ RollBack \/ Discard \/ Resume \/ Die
      <4>1. UNCHANGED <<first, bar, snapshots>> /\ pc' \in {"raised", "call", "died"}
        BY <3>8 DEF Raise, RollBack, Discard, Resume, Die, loopVars
      <4>2. ~AtABar' /\ pc' # "progress"
        BY <4>1 DEF AtABar, InBar
      <4>3. QED
        BY <3>1, <3>2, <4>1, <4>2, SnapshotsStay
    <3>9. CASE Finished \/ UNCHANGED runnerVars
      <4>1. UNCHANGED <<first, bar, snapshots, pc>>
        BY <3>9 DEF Finished, runnerVars, loopVars
      <4>2. AtABar' <=> AtABar
        BY <4>1 DEF AtABar, InBar
      <4>3. QED
        BY <3>1, <3>2, <4>1, <4>2, SnapshotsStay
    <3>10. QED
      BY <1>2, <2>2, <3>4, <3>5, <3>6, <3>7, <3>8, <3>9 DEF RunnerNext, Loop, Recover
  <2>3. QED
    BY <2>1, <2>2
<1>3. QED
  BY <1>1, <1>2, RunnerInductive, RowsInductive, DeliveryInductive, BookInductive, PTL
     DEF RunnerSpec

\* Without a retry on the same objects every snapshot, of a first call and of one that
\* resumed, tells the index and the time of its bar and the orders and rules the run
\* has submitted up to that bar.
THEOREM RunSnapshotsTrue == RunnerSpec => []SnapshotsTrue
<1>1. ASSUME IInv, SnapInv
      PROVE  SnapshotsTrue
  <2>1. ASSUME ~retried, NEW i \in DOMAIN snapshots, NEW n, n = first + i - 1
        PROVE  /\ snapshots[i].index = n - 1
               /\ snapshots[i].time = feed[n].bar.time
               /\ snapshots[i].orders = CountIn(KeysUpTo(n), "order")
               /\ snapshots[i].rules = CountIn(KeysUpTo(n), "risk")
    <3>1. snapshots \in Seq(Snapshots)
      BY <1>1, <2>1 DEF SnapInv, Snapped
    <3>2. i \in 1..Len(snapshots)
      BY <3>1, Places
    <3>3. identity.series \in Series
      BY <1>1, RecordedType, TapeAssumption
    <3>4. snapshots[i] = SnapshotOf(identity.series, n)
      BY <1>1, <2>1, <3>2, <3>3 DEF SnapInv, Snapped
    <3>5. KeysUpTo(n) = BarsUpTo(identity.series, n)
      BY ModelKeys
    <3>6. QED
      BY <3>4, <3>5 DEF SnapshotOf
  <2>2. QED
    BY <2>1 DEF SnapshotsTrue
<1>2. QED
  BY <1>1, RunnerInductive, SnapshotsInductive, PTL

===============================================================================
