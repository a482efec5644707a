------------------------------ MODULE IntentLog ------------------------------
(***************************************************************************)
(* What an intent tape promises its readers, with none of its machinery:   *)
(* an append-only log in which a delivery key occurs at most once, whose   *)
(* bars can be sealed against further entries, and which can be put back   *)
(* to a state that was kept earlier.  A delivery of something the log      *)
(* already holds is a stuttering step.                                     *)
(***************************************************************************)
EXTENDS Naturals, Sequences

CONSTANTS
  Keys,       \* delivery identities; each is a record with a "pos" field
  Contents,   \* what an entry says
  Seals       \* the bar positions that can be sealed

VARIABLES
  log,        \* the entries, oldest first
  sealed,     \* the bar positions that accept no more entries
  kept        \* <<>>, or the one state a checkpoint has kept

logVars == <<log, sealed, kept>>

Entries == [key : Keys, content : Contents]

KeysOf(entries) == {entries[i].key : i \in DOMAIN entries}

LogInit ==
  /\ log = <<>>
  /\ sealed = {}
  /\ kept = <<>>

Append1(key, content) ==
  /\ key \notin KeysOf(log)
  /\ key.pos \notin sealed
  /\ log' = Append(log, [key |-> key, content |-> content])
  /\ UNCHANGED <<sealed, kept>>

Seal(pos) ==
  /\ sealed' = sealed \cup {pos}
  /\ UNCHANGED <<log, kept>>

Keep ==
  /\ kept' = <<[log |-> log, sealed |-> sealed]>>
  /\ UNCHANGED <<log, sealed>>

RollBack ==
  /\ kept # <<>>
  /\ log' = kept[1].log
  /\ sealed' = kept[1].sealed
  /\ UNCHANGED kept

StartOver ==
  /\ log' = <<>>
  /\ sealed' = {}
  /\ UNCHANGED kept

LogNext ==
  \/ \E key \in Keys, content \in Contents : Append1(key, content)
  \/ \E pos \in Seals : Seal(pos)
  \/ Keep
  \/ RollBack
  \/ StartOver

LogSpec == LogInit /\ [][LogNext]_logVars
=============================================================================
