------------------------------ MODULE SyncUnits ------------------------------
(***************************************************************************)
(* The units a RisuNest library is made of, as the sync server and its     *)
(* clients share them: a key (a tuple of components, the first of which is *)
(* the kind), the hybrid logical stamp of the version, and its value.      *)
(*                                                                         *)
(* A value is Deleted, a member of Values (an inline value or an object:   *)
(* the protocol compares them by identity only) or, for the one key        *)
(* FormatKey, the level of the library as a number.  A writer is a number  *)
(* because stamps of one instant are ordered by the writer's name.         *)
(***************************************************************************)
EXTENDS Integers, Sequences, FiniteSets

CONSTANTS
    Keys,          \* the unit keys in use
    Writers,       \* the writer identities, ordered like their names
    Values,        \* contents, equal when their identities are
    PartedValues,  \* the contents that name byte parts
    Deleted        \* the tombstone

LIBRARY_FORMAT_MAX_LEVEL == 2
Levels == 2 .. LIBRARY_FORMAT_MAX_LEVEL

FormatKey == <<"library-format">>

ASSUME WritersAssumption == Writers \subseteq Nat
ASSUME DeletedAssumption == Deleted \notin Values \cup Nat
ASSUME PartedAssumption  == PartedValues \subseteq Values
ASSUME ValuesAssumption  == Values \cap Nat = {}
(* A unit key is built for records of these kinds and refused for others.    *)
ASSUME KeysAssumption == \A key \in Keys :
    key[1] = "record" => key[2] \in {"modules", "plugins", "loadouts", "customModels"}

Stamp  == [physical : Nat, logical : Nat, writer : Writers]
Value  == Values \cup {Deleted} \cup Nat
Version == [stamp : Stamp, value : Value]
Change  == [key : Keys, stamp : Stamp, value : Value]

(* Stamps are ordered by physical time, then logical count, then writer.   *)
StampLess(s, t) ==
    \/ s.physical < t.physical
    \/ s.physical = t.physical /\ s.logical < t.logical
    \/ s.physical = t.physical /\ s.logical = t.logical /\ s.writer < t.writer

ApplyRemoteAgain(local, remote) == ~StampLess(remote.stamp, local.stamp)   \* mutant

(* The decisions of compare_version on a stored and an incoming version.   *)
ApplyRemote(local, remote) == StampLess(local.stamp, remote.stamp)
EqualStampConflict(local, remote) ==
    local.stamp = remote.stamp /\ local.value # remote.value

(* The existence units a key lives under.                                  *)
Parents(key) ==
    CASE key[1] \in {"character", "archive"} -> {<<"exists", "character", key[2]>>}
      [] key[1] \in {"preset", "persona"} -> {<<"exists", key[1], key[2]>>}
      [] key[1] \in {"conversation", "messages"} ->
            {<<"exists", "character", key[2]>>,
             <<"exists", "conversation", key[2], key[3]>>}
      [] key[1] = "exists" /\ key[2] = "conversation" -> {<<"exists", "character", key[3]>>}
      [] key[1] = "record" /\ key[2] # "plugins" -> {<<"exists", key[2], key[3]>>}
      [] key[1] = "order" /\ key[2] = "conversations" -> {<<"exists", "character", key[3]>>}
      [] OTHER -> {}

(* A retirement is the deletion of an existence unit; it is for ever.      *)
IsRetirement(change) == change.key[1] = "exists" /\ change.value = Deleted

NeedsLevelTwoInPlugins(change) ==             \* mutant: looks at another kind of key
    change.key[1] = "plugin" /\ change.value \in PartedValues

(* Content a level 1 library cannot hold.                                  *)
NeedsLevelTwo(change) == change.key[1] = "plugin-local" /\ change.value \in PartedValues

VersionOf(change) == [stamp |-> change.stamp, value |-> change.value]

------------------------------------------------------------------------------
(* What a client makes of a library it reads from a pin.                   *)

TailReplacesLater(pinned, incoming) == ApplyRemote(pinned, incoming)   \* mutant

(* A journal row read after the pin replaces the pinned version.           *)
TailReplaces(pinned, incoming) ==
    \/ ApplyRemote(pinned, incoming)
    \/ IsRetirement(incoming) /\ pinned.value # Deleted

(* The pinned versions overlaid with the rows of the tail, one per key.    *)
MergeTail(pinned, tail) ==
    [key \in DOMAIN pinned \cup DOMAIN tail |->
        IF key \in DOMAIN tail /\ (key \in DOMAIN pinned => TailReplaces(pinned[key], tail[key]))
        THEN VersionOf(tail[key])
        ELSE pinned[key]]

(* Applied parents first: below a retired parent only retirements are kept. *)
RetiredIn(state) == {key \in DOMAIN state : key[1] = "exists" /\ state[key].value = Deleted}
Applied(state) ==
    [key \in {k \in DOMAIN state : k \in RetiredIn(state) \/ Parents(k) \cap RetiredIn(state) = {}}
        |-> state[key]]
==============================================================================
