----------------------------- MODULE LwwLibrary -----------------------------
(***************************************************************************)
(* What a synchronised library promises: it is a function of the set of    *)
(* changes that were accepted, whatever order, grouping, repetition or     *)
(* device they came by.  A unit holds the latest of its versions, a        *)
(* retirement outweighs every other version of its key, and below a        *)
(* retired parent there is nothing but retirements.  The level of the      *)
(* library is the highest one accepted.                                    *)
(***************************************************************************)
EXTENDS SyncUnits

VARIABLES
    accepted,   \* the changes accepted so far
    library     \* the version of every unit there is

libraryVars == <<accepted, library>>

RetiredBy(changes) == {c.key : c \in {x \in changes : IsRetirement(x)}}

Candidates(changes, key) ==
    {c \in changes : c.key = key /\ (key \in RetiredBy(changes) => IsRetirement(c))}

Outweighs(c, d) ==
    IF c.key = FormatKey THEN d.value <= c.value ELSE ~StampLess(c.stamp, d.stamp)

Present(changes) ==
    {key \in {c.key : c \in changes} :
        key \in RetiredBy(changes) \/ Parents(key) \cap RetiredBy(changes) = {}}

IsJoin(changes, state) ==
    /\ DOMAIN state = Present(changes)
    /\ \A key \in DOMAIN state :
         \E c \in Candidates(changes, key) :
             /\ state[key] = VersionOf(c)
             /\ \A d \in Candidates(changes, key) : Outweighs(c, d)

LibraryInit == accepted = {} /\ library = << >>

Accept ==
    /\ accepted \subseteq accepted'
    /\ IsJoin(accepted', library')

LibrarySpec == LibraryInit /\ [][Accept]_libraryVars
=============================================================================
