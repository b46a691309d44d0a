--------------------------- MODULE SyncClientProofs ---------------------------
(***************************************************************************)
(* What the devices and the server owe each other, for any number of       *)
(* devices, units, edits and lost requests: no change a device made is     *)
(* forgotten before the library has it, what a device gave up is not       *)
(* published behind its back, versions of a device only grow, nothing      *)
(* before its cursor is missing, and devices that are up to date show the  *)
(* library.                                                                *)
(***************************************************************************)
EXTENDS SyncClient, LwwServerProofs

------------------------------------------------------------------------------
(* The invariant.                                                          *)

Message == [device : Clients, op : OperationIds, request : Request]
Publication == [op : OperationIds, request : Request,
                receipt : {"none", "accepted", "rejected", "cancelled"}]
Page == [changes : SUBSET Change, cursor : Nat, last : BOOLEAN, after : Nat,
         status : {"stored", "interrupted", "applied", "finished", "acknowledged"}]
StateRead == [pin : Nat, start_seq : Nat, after : Nat]

StoreFields == {"units", "retired", "outbox", "rows", "intents", "issued", "accepted"}

IntentShape(i) ==
  /\ DOMAIN i = {"commit", "stamp", "fresh"}
  /\ IsTable(i.commit, Keys \ {FormatKey}, Value) /\ i.stamp \in Stamp

(* The format unit is received like any other and never in the outbox.     *)
StoreShape(s) ==
  /\ DOMAIN s = StoreFields
  /\ IsTable(s.units, Keys, Version)
  /\ s.retired \subseteq Keys
  /\ s.outbox \subseteq DOMAIN s.units \ {FormatKey}
  /\ s.rows \subseteq Row /\ IsFiniteSet(s.rows)
  /\ \A i \in s.intents : IntentShape(i)
  /\ {s.issued, s.accepted} \subseteq Stamp \cup {NoStamp}

(* The level of a library is set once.                                     *)
LevelIsKnown == FormatKey \in DOMAIN units => units[FormatKey].value \in Levels

(* The deletion of a record is for ever.                                   *)
IsDeletion(k, v) == k[1] = "exists" /\ v.value = Deleted

(* A change, a row or a unit is this version.                              *)
Same(c, v) == c.stamp = v.stamp /\ c.value = v.value

(* The library has this version of a unit or a later one, or the deletion  *)
(* of what it belonged to; of the deletion of a record, that deletion.     *)
Spent(k, v) ==
  \/ k \in retired \/ Parents(k) \cap retired # {}
  \/ /\ k \in DOMAIN units /\ ~IsDeletion(k, v)
     /\ (StampLess(v.stamp, units[k].stamp) \/ Same(units[k], v))

SpentChanges(changes) == \A c \in changes : Spent(c.key, c)

(* What came from the library is spent, wherever it waits: in the units of  *)
(* a device, its received rows, its page, and the pin it reads.             *)
StoreIsSpent(s) ==
  /\ \A k \in DOMAIN s.units \ s.outbox : Spent(k, s.units[k])
  /\ SpentChanges(s.rows)

StoresInv ==
  /\ DOMAIN store = Clients
  /\ \A d \in Clients : StoreShape(store[d]) /\ StoreIsSpent(store[d])
CursorsInv ==
  /\ cursor \in [Clients -> Nat]
  /\ \A d \in Clients : cursor[d] <= head.seq
PagesInv ==
  /\ page \in [Clients -> Page \cup {None}]
  /\ \A d \in Clients : page[d] # None =>
       /\ IsFiniteSet(page[d].changes) /\ page[d].cursor <= head.seq
       /\ SpentChanges(page[d].changes)
PinsInv ==
  /\ bootstrap \in [Clients -> StateRead \cup {None}]
  /\ \A p \in state_pins :
       /\ p.start_seq <= head.seq
       /\ \A k \in DOMAIN p.units : Spent(k, p.units[k])

NamesNoLevel(request) == \A c \in ChangesOf(request) : c.key # FormatKey

(* Whatever carries the identity of a device's publication is that         *)
(* publication, and what the library has accepted of it is spent.          *)
PublicationsInv ==
  /\ publication \in [Clients -> Publication \cup {None}]
  /\ in_flight \subseteq Message
  /\ \A m \in in_flight : NamesNoLevel(m.request)
  /\ \A d \in Clients : publication[d] # None =>
       /\ NamesNoLevel(publication[d].request)
       /\ \A m \in in_flight : m.device = d /\ m.op = publication[d].op =>
            m.request = publication[d].request
       /\ Answered(d, publication[d].op) =>
            operations[<<d, publication[d].op>>].digest = publication[d].request
       /\ publication[d].receipt = "accepted" =>
            SpentChanges(ChangesOf(publication[d].request))
AcceptedIsSpent ==
  \A id \in DOMAIN operations : operations[id].outcome = "accepted" =>
    \A c \in ChangesOf(operations[id].digest) : c.key # FormatKey => Spent(c.key, c)

LanesInv ==
  /\ StoreInv /\ LevelIsKnown
  /\ StoresInv /\ CursorsInv /\ PagesInv /\ PinsInv
  /\ PublicationsInv /\ AcceptedIsSpent

(* A push that is still on its way when its operation was given up is too  *)
(* late.                                                                   *)
GivenUpIsAnswered ==
  \A d \in Clients :
      publication[d] # None /\ publication[d].receipt \in {"rejected", "cancelled"} =>
    IF Answered(d, publication[d].op)
    THEN operations[<<d, publication[d].op>>].outcome # "accepted"
    ELSE \A m \in in_flight : m.device = d => m.op # publication[d].op

------------------------------------------------------------------------------
(* Finite sets of numbers and of stamps.                                   *)

(* A strict order has a maximal element in every finite set: the one with  *)
(* the fewest above it.                                                    *)
LEMMA MaximalOf ==
  ASSUME NEW S, IsFiniteSet(S), S # {}, NEW R,
         \A x \in S : <<x, x>> \notin R,
         \A x, y, z \in S : <<x, y>> \in R /\ <<y, z>> \in R => <<x, z>> \in R
  PROVE  \E x \in S : \A y \in S : <<x, y>> \notin R
<1> DEFINE Above(x) == {y \in S : <<x, y>> \in R}
           Counts == {Cardinality(Above(x)) : x \in S}
<1>1. ASSUME NEW x \in S
      PROVE  IsFiniteSet(Above(x)) /\ Cardinality(Above(x)) \in Nat
  <2>1. Above(x) \in SUBSET S
    OBVIOUS
  <2>2. QED
    BY <2>1, FS_Subset, FS_CardinalityType
<1>2. ASSUME NEW x \in S, NEW y \in S, <<x, y>> \in R
      PROVE  Cardinality(Above(y)) < Cardinality(Above(x))
  <2>1. Above(y) \in SUBSET Above(x) /\ y \in Above(x) /\ y \notin Above(y)
    BY <1>2
  <2>2. Above(x) # Above(y)
    BY <2>1
  <2> HIDE DEF Above
  <2>3. /\ Cardinality(Above(y)) <= Cardinality(Above(x))
        /\ Cardinality(Above(x)) # Cardinality(Above(y))
    BY <1>1, <2>1, <2>2, FS_Subset
  <2>4. QED
    BY <1>1, <2>3
<1> HIDE DEF Above
<1>3. Counts \in SUBSET Nat /\ Counts # {}
  BY <1>1
<1>4. PICK x \in S : \A m \in Counts : Cardinality(Above(x)) <= m
  <2>1. PICK n \in Counts : \A m \in Counts : n <= m
    BY <1>3, MinOfNaturals
  <2>2. PICK x \in S : n = Cardinality(Above(x))
    OBVIOUS
  <2>3. QED
    BY <2>1, <2>2
<1>5. SUFFICES ASSUME NEW y \in S, <<x, y>> \in R PROVE FALSE
  BY <1>4
<1>6. Cardinality(Above(x)) <= Cardinality(Above(y))
  BY <1>4
<1>7. QED
  BY <1>1, <1>2, <1>5, <1>6

(* The image of a finite set is finite.                                    *)
LEMMA FiniteImage ==
  ASSUME NEW S, IsFiniteSet(S), NEW f, DOMAIN f = S, NEW T, T = {f[x] : x \in S}
  PROVE  IsFiniteSet(T)
<1> DEFINE g == [x \in S |-> f[x]]
<1>1. g \in Surjection(S, T)
  BY DEF Surjection
<1>2. QED
  BY <1>1, FS_Surjection

(* A nonempty finite set of numbers has a greatest one, which Max picks.   *)
LEMMA MaxOfNaturals ==
  ASSUME NEW S \in SUBSET Nat, IsFiniteSet(S), S # {}
  PROVE  Max(S) \in S /\ \A x \in S : x <= Max(S)
<1> DEFINE R == {p \in S \X S : p[1] < p[2]}
<1>1. \A x, y \in S : <<x, y>> \in R <=> x < y
  OBVIOUS
<1>2. /\ \A x \in S : <<x, x>> \notin R
      /\ \A x, y, z \in S : <<x, y>> \in R /\ <<y, z>> \in R => <<x, z>> \in R
  BY <1>1
<1> HIDE DEF R
<1>3. PICK x \in S : \A y \in S : <<x, y>> \notin R
  BY <1>2, MaximalOf
<1>4. ASSUME NEW y \in S
      PROVE  x >= y
  <2>1. ~(x < y) /\ x \in Nat /\ y \in Nat
    BY <1>1, <1>3
  <2>2. QED
    BY <2>1
<1>5. QED
  BY <1>4 DEF Max

(* Stamps that are not less than each other are the same.                  *)
LEMMA StampsAreTotal ==
  ASSUME NEW s \in Stamp, NEW t \in Stamp
  PROVE  s = t \/ StampLess(s, t) \/ StampLess(t, s)
<1>1. /\ s.physical \in Nat /\ s.logical \in Nat /\ s.writer \in Nat
      /\ t.physical \in Nat /\ t.logical \in Nat /\ t.writer \in Nat
  BY WritersAssumption DEF Stamp
<1>2. ASSUME s.physical = t.physical, s.logical = t.logical, s.writer = t.writer
      PROVE  s = t
  BY <1>2 DEF Stamp
<1>3. QED
  BY <1>1, <1>2 DEF StampLess

(* Of finitely many stamps Greatest picks the one above all others.        *)
LEMMA GreatestIsAbove ==
  ASSUME NEW S \in SUBSET Stamp, IsFiniteSet(S), S # {}
  PROVE  /\ Greatest(S) \in S
         /\ \A t \in S : Greatest(S) = t \/ StampLess(t, Greatest(S))
<1> DEFINE R == {p \in S \X S : StampLess(p[1], p[2])}
<1>1. \A x, y \in S : <<x, y>> \in R <=> StampLess(x, y)
  OBVIOUS
<1>2. /\ \A x \in S : <<x, x>> \notin R
      /\ \A x, y, z \in S : <<x, y>> \in R /\ <<y, z>> \in R => <<x, z>> \in R
  BY <1>1, StampOrder
<1> HIDE DEF R
<1>3. PICK x \in S : \A y \in S : <<x, y>> \notin R
  BY <1>2, MaximalOf
<1>4. \A t \in S : x = t \/ StampLess(t, x)
  BY <1>1, <1>3, StampsAreTotal
<1>5. QED
  BY <1>4 DEF Greatest

(* issue_stamp takes the wall clock, or the latest time the device issued   *)
(* or accepted when its clock stands behind, and counts on within one       *)
(* time: whatever the clock says, and however often it steps back, the      *)
(* stamp is above all that were seen.  The counter is a number here; where  *)
(* its 32 bits end, issue_stamp refuses.                                   *)
THEOREM IssuedIsAbove ==
  ASSUME NEW wall \in Nat, NEW writer \in Writers, NEW seen \in SUBSET Stamp, IsFiniteSet(seen)
  PROVE  /\ IssueStamp(wall, writer, seen) \in Stamp
         /\ \A s \in seen : StampLess(s, IssueStamp(wall, writer, seen))
<1> DEFINE walls == {wall} \cup {s.physical : s \in seen}
           physical == Max(walls)
           level == {x \in seen : x.physical = physical}
           counts == {s.logical : s \in level}
           logical == IF counts = {} THEN 0 ELSE Max(counts) + 1
<1>1. IssueStamp(wall, writer, seen) = [physical |-> physical,
                                        logical |-> logical, writer |-> writer]
  BY DEF IssueStamp
<1>2. \A s \in seen : s.physical \in Nat /\ s.logical \in Nat
  BY DEF Stamp
<1>3. walls \in SUBSET Nat /\ walls # {} /\ IsFiniteSet(walls)
  <2>1. IsFiniteSet({s.physical : s \in seen})
    <3> DEFINE f == [s \in seen |-> s.physical]
    <3>1. {f[s] : s \in seen} = {s.physical : s \in seen} /\ DOMAIN f = seen
      OBVIOUS
    <3> HIDE DEF f
    <3>2. QED
      BY <3>1, FiniteImage
  <2>2. QED
    BY <1>2, <2>1, FS_Singleton, FS_Union
<1>4. physical \in Nat /\ \A x \in walls : x <= physical
  BY <1>3, MaxOfNaturals
<1>5. counts \in SUBSET Nat /\ IsFiniteSet(counts)
  <2>1. level \in SUBSET seen /\ IsFiniteSet(level)
    BY FS_Subset
  <2>2. IsFiniteSet(counts)
    <3> DEFINE f == [s \in level |-> s.logical]
    <3>1. {f[s] : s \in level} = counts /\ DOMAIN f = level
      OBVIOUS
    <3> HIDE DEF f, level
    <3>2. QED
      BY <2>1, <3>1, FiniteImage
  <2>3. QED
    BY <1>2, <2>2
<1>6. logical \in Nat /\ \A x \in counts : x < logical
  <2>1. CASE counts = {}
    BY <2>1
  <2>2. CASE counts # {}
    <3>1. Max(counts) \in Nat /\ \A x \in counts : x <= Max(counts)
      BY <1>5, <2>2, MaxOfNaturals
    <3>2. logical = Max(counts) + 1
      BY <2>2
    <3> HIDE DEF counts, logical
    <3>3. QED
      BY <1>5, <3>1, <3>2
  <2>3. QED
    BY <2>1, <2>2
<1>7. IssueStamp(wall, writer, seen) \in Stamp
  <2>1. physical \in Nat /\ logical \in Nat
    BY <1>4, <1>6
  <2> HIDE DEF physical, logical
  <2>2. QED
    BY <1>1, <2>1 DEF Stamp
<1>8. ASSUME NEW s \in seen
      PROVE  StampLess(s, IssueStamp(wall, writer, seen))
  <2>1. s.physical \in walls /\ s.physical <= physical
    BY <1>4
  <2>2. s.physical = physical => s.logical < logical
    BY <1>6
  <2> HIDE DEF walls, physical, logical
  <2>3. QED
    BY <1>1, <1>2, <1>4, <1>6, <2>1, <2>2 DEF StampLess
<1>9. QED
  BY <1>7, <1>8

------------------------------------------------------------------------------
(* What the operations of a store leave of it.                             *)

LEMMA TableOf ==
  ASSUME NEW T, T = [k \in DOMAIN T |-> T[k]], NEW K, NEW V,
         \A k \in DOMAIN T : k \in K /\ T[k] \in V
  PROVE  IsTable(T, K, V)
BY DEF IsTable

LEMMA TableRow ==
  ASSUME NEW T, NEW K, NEW V, IsTable(T, K, V), NEW k \in DOMAIN T
  PROVE  k \in K /\ T[k] \in V
BY DEF IsTable

(* The keys of versions that retire, what goes with them, and those put.   *)
RetiringIn(versions) == {k \in DOMAIN versions : k[1] = "exists" /\ versions[k].value = Deleted}
Swept(versions) == Below(RetiringIn(versions))
PutsOf(versions) == DOMAIN versions \ Swept(versions)

LEMMA PutUnitsFields ==
  ASSUME NEW s, StoreShape(s), NEW versions, NEW to_publish, NEW t,
         t = PutUnits(s, versions, to_publish)
  PROVE  /\ DOMAIN t = StoreFields
         /\ t.units = [k \in DOMAIN t.units |-> t.units[k]]
         /\ DOMAIN t.units = (DOMAIN s.units \ Swept(versions)) \cup PutsOf(versions)
         /\ \A k \in PutsOf(versions) : t.units[k] = versions[k]
         /\ \A k \in DOMAIN t.units \ PutsOf(versions) : t.units[k] = s.units[k]
         /\ t.retired = s.retired \cup (RetiringIn(versions) \cap PutsOf(versions))
         /\ t.outbox = ((s.outbox \ Swept(versions)) \ DOMAIN versions)
                         \cup (to_publish \cap PutsOf(versions))
         /\ t.rows \subseteq s.rows /\ \A r \in s.rows :
                r \in t.rows <=> r.key \notin Swept(versions)
         /\ t.intents = s.intents /\ t.issued = s.issued /\ t.accepted = s.accepted
<1> DEFINE B == Swept(versions)
           puts == PutsOf(versions)
           kept == SuppressRetired(s, RetiringIn(versions))
<1>1. DOMAIN s = StoreFields
  BY DEF StoreShape
<1>2. kept = [s EXCEPT !.units = [k \in DOMAIN s.units \ B |-> s.units[k]],
                       !.outbox = s.outbox \ B,
                       !.rows = {r \in s.rows : r.key \notin B}]
  BY <1>1 DEF SuppressRetired, StoreFields, Swept
<1>3. /\ DOMAIN kept = StoreFields
      /\ kept.units = [k \in DOMAIN s.units \ B |-> s.units[k]]
      /\ kept.outbox = s.outbox \ B
      /\ kept.rows = {r \in s.rows : r.key \notin B}
      /\ kept.retired = s.retired /\ kept.intents = s.intents
      /\ kept.issued = s.issued /\ kept.accepted = s.accepted
  BY <1>1, <1>2 DEF StoreFields
<1>4. t = [kept EXCEPT
             !.units = [k \in DOMAIN @ \cup puts |->
                           IF k \in puts THEN versions[k] ELSE s.units[k]],
             !.retired = @ \cup (RetiringIn(versions) \cap puts),
             !.outbox = (@ \ DOMAIN versions) \cup (to_publish \cap puts)]
  BY DEF PutUnits, RetiringIn, PutsOf, Swept
<1> HIDE DEF kept, B, puts
<1>5. /\ DOMAIN t = StoreFields
      /\ t.units = [k \in DOMAIN kept.units \cup puts |->
                         IF k \in puts THEN versions[k] ELSE s.units[k]]
      /\ t.retired = kept.retired \cup (RetiringIn(versions) \cap puts)
      /\ t.outbox = (kept.outbox \ DOMAIN versions) \cup (to_publish \cap puts)
      /\ t.rows = kept.rows /\ t.intents = kept.intents
      /\ t.issued = kept.issued /\ t.accepted = kept.accepted
  BY <1>3, <1>4 DEF StoreFields
<1>6. QED
  BY <1>3, <1>5 DEF B, puts

(* What enters a store without being published is what comes with changes: *)
(* a version that may leave the outbox, or a row that may wait.             *)
Comes(s, t, changes) ==
  /\ \A k \in DOMAIN t.units \ t.outbox :
       \/ k \in DOMAIN s.units \ s.outbox /\ t.units[k] = s.units[k]
       \/ \E c \in changes : c.key = k /\ Same(c, t.units[k])
  /\ \A r \in t.rows : r \in s.rows \/ \E c \in changes : c.key = r.key /\ Same(c, r)

LEMMA PutUnitsComes ==
  ASSUME NEW s, StoreShape(s), NEW versions, IsTable(versions, Keys, Version),
         NEW to_publish \in SUBSET (Keys \ {FormatKey}), NEW t,
         t = PutUnits(s, versions, to_publish),
         NEW changes, \A k \in DOMAIN versions \ to_publish :
                        \E c \in changes : c.key = k /\ Same(c, versions[k])
  PROVE  StoreShape(t) /\ Comes(s, t, changes) /\ t.rows \subseteq s.rows
<1>1. /\ DOMAIN t = StoreFields
      /\ t.units = [k \in DOMAIN t.units |-> t.units[k]]
      /\ DOMAIN t.units = (DOMAIN s.units \ Swept(versions)) \cup PutsOf(versions)
      /\ \A k \in PutsOf(versions) : t.units[k] = versions[k]
      /\ \A k \in DOMAIN t.units \ PutsOf(versions) : t.units[k] = s.units[k]
      /\ t.retired = s.retired \cup (RetiringIn(versions) \cap PutsOf(versions))
      /\ t.outbox = ((s.outbox \ Swept(versions)) \ DOMAIN versions)
                      \cup (to_publish \cap PutsOf(versions))
      /\ t.rows \subseteq s.rows
      /\ t.intents = s.intents /\ t.issued = s.issued /\ t.accepted = s.accepted
  BY PutUnitsFields
<1>2. PutsOf(versions) = DOMAIN versions \ Swept(versions)
  BY DEF PutsOf
<1>3. IsTable(t.units, Keys, Version)
  <2>1. ASSUME NEW k \in DOMAIN t.units
        PROVE  k \in Keys /\ t.units[k] \in Version
    <3>1. CASE k \in PutsOf(versions)
      BY <1>1, <1>2, <3>1, TableRow
    <3>2. CASE k \notin PutsOf(versions)
      BY <1>1, <3>2, TableRow DEF StoreShape
    <3>3. QED
      BY <3>1, <3>2
  <2>2. QED
    BY <1>1, <2>1, TableOf
<1>4. /\ t.retired \subseteq Keys
      /\ t.outbox \subseteq DOMAIN t.units \ {FormatKey}
  <2>1. RetiringIn(versions) \subseteq Keys
    BY DEF RetiringIn, IsTable
  <2>2. QED
    BY <1>1, <1>2, <2>1 DEF StoreShape
<1>5. t.rows \subseteq s.rows /\ IsFiniteSet(t.rows)
  <2>1. t.rows \in SUBSET s.rows /\ IsFiniteSet(s.rows)
    BY <1>1 DEF StoreShape
  <2>2. QED
    BY <2>1, FS_Subset
<1>6. StoreShape(t)
  <2>1. /\ t.rows \subseteq Row /\ {t.issued, t.accepted} \subseteq Stamp \cup {NoStamp}
        /\ \A i \in t.intents : IntentShape(i)
    BY <1>1 DEF StoreShape
  <2>2. QED
    BY <1>1, <1>3, <1>4, <1>5, <2>1 DEF StoreShape
<1>7. ASSUME NEW k \in DOMAIN t.units \ t.outbox
      PROVE  \/ k \in DOMAIN s.units \ s.outbox /\ t.units[k] = s.units[k]
             \/ \E c \in changes : c.key = k /\ Same(c, t.units[k])
  <2>1. CASE k \in PutsOf(versions)
    BY <1>1, <1>2, <1>7, <2>1
  <2>2. CASE k \notin PutsOf(versions)
    BY <1>1, <1>2, <1>7, <2>2
  <2>3. QED
    BY <2>1, <2>2
<1>8. QED
  BY <1>5, <1>6, <1>7 DEF Comes

(* Nothing enters: what was not in the outbox was there before.            *)
LEMMA ComesTransitive ==
  ASSUME NEW s, NEW t, NEW u, NEW changes, Comes(s, t, changes), Comes(t, u, changes)
  PROVE  Comes(s, u, changes)
BY DEF Comes

(* Another field of a store changes.                                       *)
LEMMA StoreExcept ==
  ASSUME NEW s, StoreShape(s), NEW stamp \in Stamp \cup {NoStamp}
  PROVE  /\ StoreShape([s EXCEPT !.issued = stamp]) /\ StoreShape([s EXCEPT !.accepted = stamp])
         /\ StoreShape([s EXCEPT !.intents = {}])
         /\ Comes(s, [s EXCEPT !.issued = stamp], {}) /\ Comes(s, [s EXCEPT !.accepted = stamp], {})
         /\ Comes(s, [s EXCEPT !.intents = {}], {})
<1>1. /\ DOMAIN s = StoreFields
      /\ DOMAIN [s EXCEPT !.issued = stamp] = StoreFields
      /\ DOMAIN [s EXCEPT !.accepted = stamp] = StoreFields
      /\ DOMAIN [s EXCEPT !.intents = {}] = StoreFields
  BY DEF StoreShape
<1>2. ASSUME NEW t, DOMAIN t = StoreFields, t.units = s.units, t.retired = s.retired,
             t.outbox = s.outbox, t.rows = s.rows, t.intents = s.intents \/ t.intents = {},
             {t.issued, t.accepted} \subseteq Stamp \cup {NoStamp}
      PROVE  StoreShape(t) /\ Comes(s, t, {})
  <2>1. \A i \in t.intents : i \in s.intents
    BY <1>2
  <2>2. StoreShape(t)
    BY <1>2, <2>1 DEF StoreShape
  <2>3. QED
    BY <1>2, <2>2 DEF Comes
<1>3. {s.issued, s.accepted} \subseteq Stamp \cup {NoStamp}
  BY DEF StoreShape
<1>4. /\ StoreShape([s EXCEPT !.issued = stamp])
      /\ Comes(s, [s EXCEPT !.issued = stamp], {})
  BY <1>1, <1>3, <1>2 DEF StoreFields
<1>5. /\ StoreShape([s EXCEPT !.accepted = stamp])
      /\ Comes(s, [s EXCEPT !.accepted = stamp], {})
  BY <1>1, <1>3, <1>2 DEF StoreFields
<1>6. /\ StoreShape([s EXCEPT !.intents = {}])
      /\ Comes(s, [s EXCEPT !.intents = {}], {})
  BY <1>1, <1>3, <1>2 DEF StoreFields
<1>7. QED
  BY <1>4, <1>5, <1>6

(* A commit and its repetition put what they change into the outbox.        *)
LEMMA RecordChangesComes ==
  ASSUME NEW s, StoreShape(s), NEW commit, IsTable(commit, Keys \ {FormatKey}, Value),
         NEW stamp \in Stamp, NEW t, t = RecordChanges(s, commit, stamp)
  PROVE  StoreShape(t) /\ Comes(s, t, {})
<1> DEFINE changed == Changed(s, commit)
           versions == [k \in changed |-> [stamp |-> stamp, value |-> commit[k]]]
           issued == [s EXCEPT !.issued = stamp]
<1>1. StoreShape(issued) /\ Comes(s, issued, {})
  BY StoreExcept
<1>2. changed \in SUBSET (Keys \ {FormatKey}) /\ \A k \in changed : commit[k] \in Value
  BY DEF Changed, IsTable
<1>3. IsTable(versions, Keys, Version) /\ DOMAIN versions = changed
  BY <1>2 DEF IsTable, Version
<1>4. t = PutUnits(issued, versions, changed)
  BY DEF RecordChanges
<1> HIDE DEF changed, versions, issued
<1>5. StoreShape(t) /\ Comes(issued, t, {})
  BY <1>1, <1>2, <1>3, <1>4, PutUnitsComes
<1>6. QED
  BY <1>1, <1>5, ComesTransitive

LEMMA ReserveIntentComes ==
  ASSUME NEW s, StoreShape(s), NEW commit, IsTable(commit, Keys \ {FormatKey}, Value),
         NEW stamp \in Stamp, NEW t, t = ReserveIntent(s, commit, stamp)
  PROVE  StoreShape(t) /\ Comes(s, t, {})
<1> DEFINE intent == [commit |-> commit, stamp |-> stamp, fresh |-> TRUE]
<1>1. IntentShape(intent)
  BY DEF IntentShape
<1>2. /\ DOMAIN s = StoreFields /\ s.accepted \in Stamp \cup {NoStamp}
      /\ IsTable(s.units, Keys, Version)
      /\ s.retired \subseteq Keys
      /\ s.outbox \subseteq DOMAIN s.units \ {FormatKey}
      /\ s.rows \subseteq Row /\ IsFiniteSet(s.rows)
  BY DEF StoreShape
<1> HIDE DEF intent
<1>3. /\ DOMAIN t = StoreFields /\ t.units = s.units /\ t.retired = s.retired
      /\ t.outbox = s.outbox /\ t.rows = s.rows /\ t.accepted = s.accepted
      /\ t.intents = {intent} /\ t.issued = stamp
  BY <1>2 DEF ReserveIntent, StoreFields, intent
<1>4. StoreShape(t)
  BY <1>1, <1>2, <1>3 DEF StoreShape
<1>5. QED
  BY <1>3, <1>4 DEF Comes

LEMMA ReplayIntentComes ==
  ASSUME NEW s, StoreShape(s), s.intents # {}, NEW t, t = ReplayIntent(s)
  PROVE  StoreShape(t) /\ Comes(s, t, {})
<1> DEFINE intent == CHOOSE i \in s.intents : TRUE
           closed == [s EXCEPT !.intents = {}]
<1>1. StoreShape(closed) /\ Comes(s, closed, {})
  BY StoreExcept DEF StoreShape
<1>2. IsTable(intent.commit, Keys \ {FormatKey}, Value) /\ intent.stamp \in Stamp
  BY DEF StoreShape, IntentShape
<1>3. t = RecordChanges(closed, intent.commit, intent.stamp) \/ t = closed
  BY DEF ReplayIntent
<1> HIDE DEF intent, closed
<1>4. CASE t = RecordChanges(closed, intent.commit, intent.stamp)
  <2>1. StoreShape(t) /\ Comes(closed, t, {})
    BY <1>1, <1>2, <1>4, RecordChangesComes
  <2>2. QED
    BY <1>1, <2>1, ComesTransitive
<1>5. QED
  BY <1>1, <1>3, <1>4

(* What is stamped anew stays to be published.                             *)
LEMMA StampAnewComes ==
  ASSUME NEW s, StoreShape(s), NEW upper, NEW stamp \in Stamp, NEW t, t = StampAnew(s, upper, stamp)
  PROVE  StoreShape(t) /\ Comes(s, t, {})
<1> DEFINE ahead == {k \in s.outbox : s.units[k].stamp.physical > upper}
           versions == [k \in ahead |-> [stamp |-> stamp, value |-> s.units[k].value]]
           issued == [s EXCEPT !.issued = stamp]
<1>1. StoreShape(issued) /\ Comes(s, issued, {})
  BY StoreExcept
<1>2. ahead \in SUBSET (Keys \ {FormatKey}) /\ \A k \in ahead : s.units[k].value \in Value
  BY DEF StoreShape, IsTable, Version
<1>3. IsTable(versions, Keys, Version) /\ DOMAIN versions = ahead
  BY <1>2 DEF IsTable, Version
<1>4. t = PutUnits(issued, versions, ahead)
  BY DEF StampAnew
<1> HIDE DEF ahead, versions, issued
<1>5. StoreShape(t) /\ Comes(issued, t, {})
  BY <1>1, <1>2, <1>3, <1>4, PutUnitsComes
<1>6. QED
  BY <1>1, <1>5, ComesTransitive

(* Observing stamps changes what the next one is issued above, nothing else. *)
LEMMA ObserveComes ==
  ASSUME NEW s, StoreShape(s), NEW stamps \in SUBSET Stamp, IsFiniteSet(stamps),
         NEW t, t = Observe(s, stamps)
  PROVE  StoreShape(t) /\ Comes(s, t, {})
<1> DEFINE known == stamps \cup ({s.accepted} \ {NoStamp})
<1>1. t = s \/ (known # {} /\ t = [s EXCEPT !.accepted = Greatest(known)])
  BY DEF Observe
<1>2. known \in SUBSET Stamp
  BY DEF StoreShape
<1>3. IsFiniteSet(known)
  <2>1. IsFiniteSet({s.accepted}) /\ {s.accepted} \ {NoStamp} \in SUBSET {s.accepted}
    BY FS_Singleton
  <2>2. IsFiniteSet({s.accepted} \ {NoStamp})
    BY <2>1, FS_Subset
  <2>3. QED
    BY <2>2, FS_Union
<1> HIDE DEF known
<1>4. CASE t = s
  BY <1>4 DEF Comes
<1>5. CASE known # {} /\ t = [s EXCEPT !.accepted = Greatest(known)]
  <2>1. Greatest(known) \in known
    BY <1>2, <1>3, <1>5, GreatestIsAbove
  <2> DEFINE stamp == Greatest(known)
  <2>2. stamp \in Stamp \cup {NoStamp} /\ t = [s EXCEPT !.accepted = stamp]
    BY <1>2, <1>5, <2>1
  <2> HIDE DEF stamp
  <2>3. /\ StoreShape([s EXCEPT !.accepted = stamp])
        /\ Comes(s, [s EXCEPT !.accepted = stamp], {})
    BY <2>2, StoreExcept
  <2>4. QED
    BY <2>2, <2>3, Zenon
<1>6. QED
  BY <1>1, <1>4, <1>5

(* An entry leaves the outbox with the change it is.                       *)
LEMMA OutboxLeaves ==
  ASSUME NEW s, StoreShape(s), NEW changes, NEW t,
         t = [s EXCEPT !.outbox = {k \in @ : ~\E c \in changes :
                                             c.key = k /\ VersionOf(c) = s.units[k]}]
  PROVE  StoreShape(t) /\ Comes(s, t, changes) /\ t.rows = s.rows
<1>1. /\ DOMAIN t = StoreFields /\ t.units = s.units /\ t.retired = s.retired
      /\ t.rows = s.rows /\ t.intents = s.intents
      /\ t.issued = s.issued /\ t.accepted = s.accepted
      /\ t.outbox = {k \in s.outbox : ~\E c \in changes : c.key = k /\ VersionOf(c) = s.units[k]}
  BY DEF StoreShape, StoreFields
<1>2. t.outbox \subseteq s.outbox
  BY <1>1
<1>3. StoreShape(t)
  BY <1>1, <1>2 DEF StoreShape
<1>4. ASSUME NEW k \in DOMAIN t.units \ t.outbox, k \in s.outbox
      PROVE  \E c \in changes : c.key = k /\ Same(c, t.units[k])
  <2>1. PICK c \in changes : c.key = k /\ VersionOf(c) = s.units[k]
    BY <1>1, <1>4
  <2>2. Same(c, VersionOf(c))
    BY DEF Same, VersionOf
  <2>3. QED
    BY <1>1, <2>1, <2>2
<1>5. QED
  BY <1>1, <1>3, <1>4 DEF Comes

LEMMA AckOutboxComes ==
  ASSUME NEW s, StoreShape(s), NEW changes, NEW t, t = AckOutbox(s, changes)
  PROVE  StoreShape(t) /\ Comes(s, t, changes)
BY OutboxLeaves DEF AckOutbox

LEMMA WitnessReceivedComes ==
  ASSUME NEW s, StoreShape(s), NEW rows, NEW t, t = WitnessReceived(s, rows)
  PROVE  StoreShape(t) /\ Comes(s, t, rows) /\ t.rows = s.rows
BY OutboxLeaves DEF WitnessReceived

------------------------------------------------------------------------------
(* Receiving.                                                              *)

ReceivedRow == [key : Keys, stamp : Stamp, value : Value,
                status : {"held", "deferred", "staged"}]

(* Of finitely many received versions of a key one prevails.               *)
LEMMA SomePrevails ==
  ASSUME NEW rows \in SUBSET ReceivedRow, IsFiniteSet(rows), NEW k, k \in {r.key : r \in rows}
  PROVE  \E r \in rows : r.key = k /\ \A o \in rows : o.key = k => ~Prevails(o, r)
<1> DEFINE S == {r \in rows : r.key = k}
           R == {p \in S \X S : Prevails(p[2], p[1])}
<1>1. S \in SUBSET rows /\ S # {}
  OBVIOUS
<1>2. IsFiniteSet(S)
  BY <1>1, FS_Subset
<1>3. \A x, y \in S : <<x, y>> \in R <=> Prevails(y, x)
  OBVIOUS
<1>4. \A x \in S : x.stamp \in Stamp
  BY DEF ReceivedRow
<1>5. ASSUME NEW x \in S, NEW y \in S, NEW z \in S
      PROVE  ~Prevails(x, x) /\ (Prevails(y, x) /\ Prevails(z, y) => Prevails(z, x))
  <2>1. /\ ~StampLess(x.stamp, x.stamp)
        /\ StampLess(x.stamp, y.stamp) /\ StampLess(y.stamp, z.stamp) => StampLess(x.stamp, z.stamp)
    BY <1>4, StampOrder
  <2>2. QED
    BY <2>1 DEF Prevails
<1> HIDE DEF S, R
<1>6. PICK r \in S : \A y \in S : <<r, y>> \notin R
  <2>1. /\ \A x \in S : <<x, x>> \notin R
        /\ \A x, y, z \in S : <<x, y>> \in R /\ <<y, z>> \in R => <<x, z>> \in R
    BY <1>3, <1>5
  <2>2. QED
    BY <1>1, <1>2, <2>1, MaximalOf
<1>7. \A o \in S : ~Prevails(o, r)
  BY <1>3, <1>6
<1>8. QED
  BY <1>7 DEF S

(* What a layer of received rows leaves.                                   *)
SettledOf(s, rows, generating) ==
  {r \in rows : /\ Fate(s, r, generating) = "done"
                /\ ParentStatus(s, r.key) = "retired" => IsRetirement(r)}
WinnersOf(s, rows, generating) == {r \in SettledOf(s, rows, generating) : Overwrites(s, r)}
WonBy(winners, k) ==
  CHOOSE r \in winners : r.key = k /\ \A o \in winners : o.key = k => ~Prevails(o, r)
VersionsWon(winners) == [k \in {r.key : r \in winners} |-> VersionOf(WonBy(winners, k))]
WaitingOf(s, rows, generating) ==
  {[r EXCEPT !.status = Fate(s, r, generating)] :
     r \in {x \in rows : Fate(s, x, generating) # "done"}}
IntentsAfter(s, rows, generating) ==
  IF Affects(s, SettledOf(s, rows, generating)) THEN Stale(s.intents) ELSE s.intents

LEMMA LayerParts ==
  ASSUME NEW s, NEW rows, rows # {}, NEW generating
  PROVE  ApplyLayer(s, rows, generating) =
           WitnessReceived(
             [PutUnits(s, VersionsWon(WinnersOf(s, rows, generating)), {}) EXCEPT
                !.rows = (@ \ rows) \cup WaitingOf(s, rows, generating),
                !.intents = IntentsAfter(s, rows, generating)],
             SettledOf(s, rows, generating))
BY DEF ApplyLayer, SettledOf, WinnersOf, WonBy, VersionsWon, WaitingOf, IntentsAfter

LEMMA WonVersions ==
  ASSUME NEW winners \in SUBSET ReceivedRow, IsFiniteSet(winners)
  PROVE  /\ IsTable(VersionsWon(winners), Keys, Version)
         /\ DOMAIN VersionsWon(winners) = {r.key : r \in winners}
         /\ \A k \in DOMAIN VersionsWon(winners) :
              \E r \in winners : /\ r.key = k /\ VersionsWon(winners)[k] = VersionOf(r)
                                 /\ \A o \in winners : o.key = k => ~Prevails(o, r)
<1>1. ASSUME NEW k \in {r.key : r \in winners}
      PROVE  /\ WonBy(winners, k) \in winners /\ WonBy(winners, k).key = k
             /\ \A o \in winners : o.key = k => ~Prevails(o, WonBy(winners, k))
  BY SomePrevails DEF WonBy
<1>2. \A r \in ReceivedRow : r.key \in Keys /\ VersionOf(r) \in Version
  BY DEF ReceivedRow, VersionOf, Version
<1>3. DOMAIN VersionsWon(winners) = {r.key : r \in winners}
  BY DEF VersionsWon
<1>4. IsTable(VersionsWon(winners), Keys, Version)
  BY <1>1, <1>2 DEF VersionsWon, IsTable
<1>5. QED
  BY <1>1, <1>3, <1>4 DEF VersionsWon

(* The rows that wait are the rows that came, with another status.         *)
LEMMA WaitingRows ==
  ASSUME NEW s, NEW rows \in SUBSET ReceivedRow, IsFiniteSet(rows), NEW generating
  PROVE  /\ WaitingOf(s, rows, generating) \subseteq Row
         /\ IsFiniteSet(WaitingOf(s, rows, generating))
         /\ \A w \in WaitingOf(s, rows, generating) :
              \E r \in rows : /\ w.key = r.key /\ w.stamp = r.stamp /\ w.value = r.value
                              /\ w.status = Fate(s, r, generating)
         /\ \A r \in rows : Fate(s, r, generating) # "done" =>
              \E w \in WaitingOf(s, rows, generating) :
                w.key = r.key /\ w.stamp = r.stamp /\ w.value = r.value
<1> DEFINE wait(r) == [r EXCEPT !.status = Fate(s, r, generating)]
           late == {x \in rows : Fate(s, x, generating) # "done"}
<1>1. ASSUME NEW r \in late
      PROVE  /\ wait(r) \in Row /\ wait(r).key = r.key /\ wait(r).stamp = r.stamp
             /\ wait(r).value = r.value /\ wait(r).status = Fate(s, r, generating)
  <2>1. Fate(s, r, generating) \in {"held", "deferred"}
    BY DEF Fate
  <2>2. r \in ReceivedRow
    OBVIOUS
  <2>3. QED
    BY <2>1, <2>2 DEF ReceivedRow, Row
<1>2. IsFiniteSet(WaitingOf(s, rows, generating))
  <2> DEFINE f == [r \in late |-> wait(r)]
  <2>1. late \in SUBSET rows
    OBVIOUS
  <2>2. IsFiniteSet(late)
    BY <2>1, FS_Subset
  <2>3. DOMAIN f = late /\ WaitingOf(s, rows, generating) = {f[r] : r \in late}
    BY DEF WaitingOf
  <2> HIDE DEF f, late
  <2>4. QED
    BY <2>2, <2>3, FiniteImage
<1>3. WaitingOf(s, rows, generating) = {wait(r) : r \in late}
  BY DEF WaitingOf
<1> HIDE DEF wait
<1>4. QED
  BY <1>1, <1>2, <1>3

(* What a layer changes comes with its rows.                               *)
LEMMA ApplyLayerComes ==
  ASSUME NEW s, StoreShape(s), NEW rows \in SUBSET ReceivedRow, IsFiniteSet(rows), NEW generating,
         NEW t, t = ApplyLayer(s, rows, generating)
  PROVE  StoreShape(t) /\ Comes(s, t, rows)
<1>1. CASE rows = {}
  <2>1. t = s
    BY <1>1, Zenon DEF ApplyLayer
  <2>2. QED
    BY <2>1 DEF Comes
<1>2. CASE rows # {}
  <2> DEFINE settled == SettledOf(s, rows, generating)
             winners == WinnersOf(s, rows, generating)
             versions == VersionsWon(winners)
             nothing == {}
             put == PutUnits(s, versions, nothing)
             waiting == WaitingOf(s, rows, generating)
             mid == [put EXCEPT !.rows = (@ \ rows) \cup waiting,
                                !.intents = IntentsAfter(s, rows, generating)]
  <2>1. t = WitnessReceived(mid, settled)
    BY <1>2, LayerParts
  <2>2. /\ winners \in SUBSET rows /\ winners \in SUBSET ReceivedRow
        /\ settled \subseteq rows
    BY DEF WinnersOf, SettledOf
  <2>3. IsFiniteSet(winners)
    BY <2>2, FS_Subset
  <2>4. /\ IsTable(versions, Keys, Version)
        /\ \A k \in DOMAIN versions : \E c \in rows : c.key = k /\ versions[k] = VersionOf(c)
    <3> HIDE DEF winners
    <3>1. QED
      BY <2>2, <2>3, WonVersions
  <2> HIDE DEF versions
  <2>5. /\ nothing \in SUBSET (Keys \ {FormatKey})
        /\ \A k \in DOMAIN versions \ nothing :
             \E c \in rows : c.key = k /\ Same(c, versions[k])
    BY <2>4 DEF VersionOf, Same
  <2> HIDE DEF nothing
  <2>6. StoreShape(put) /\ Comes(s, put, rows) /\ put.rows \subseteq s.rows
    BY <2>4, <2>5, PutUnitsComes
  <2> HIDE DEF put
  <2>7. /\ waiting \subseteq Row /\ IsFiniteSet(waiting)
        /\ \A w \in waiting : \E c \in rows : c.key = w.key /\ Same(c, w)
    BY WaitingRows DEF Same
  <2>8. /\ DOMAIN mid = StoreFields /\ mid.units = put.units /\ mid.retired = put.retired
        /\ mid.outbox = put.outbox /\ mid.issued = put.issued /\ mid.accepted = put.accepted
        /\ mid.rows = (put.rows \ rows) \cup waiting
        /\ mid.intents = IntentsAfter(s, rows, generating)
    BY <2>6 DEF StoreShape, StoreFields
  <2> HIDE DEF mid, waiting, settled
  <2>9. \A i \in mid.intents : IntentShape(i)
    <3>1. ASSUME NEW i \in s.intents
          PROVE  IntentShape(i) /\ IntentShape([i EXCEPT !.fresh = FALSE])
      <4>1. IntentShape(i)
        BY DEF StoreShape
      <4>2. QED
        BY <4>1 DEF IntentShape
    <3>2. CASE mid.intents = s.intents
      BY <3>1, <3>2
    <3>3. CASE mid.intents = Stale(s.intents)
      <4>1. ASSUME NEW i \in mid.intents PROVE \E j \in s.intents : i = [j EXCEPT !.fresh = FALSE]
        BY <3>3, <4>1, Zenon DEF Stale
      <4>2. QED
        BY <3>1, <4>1
    <3>4. QED
      BY <2>8, <3>2, <3>3 DEF IntentsAfter
  <2>10. mid.rows \subseteq Row /\ IsFiniteSet(mid.rows)
    <3>1. put.rows \subseteq Row /\ IsFiniteSet(put.rows)
      BY <2>6 DEF StoreShape
    <3>2. put.rows \ rows \in SUBSET put.rows
      OBVIOUS
    <3>3. IsFiniteSet(put.rows \ rows)
      BY <3>1, <3>2, FS_Subset
    <3>4. IsFiniteSet((put.rows \ rows) \cup waiting)
      BY <2>7, <3>3, FS_Union
    <3>5. QED
      BY <2>7, <2>8, <3>1, <3>4
  <2>11. StoreShape(mid)
    BY <2>6, <2>8, <2>9, <2>10 DEF StoreShape
  <2>12. Comes(s, mid, rows)
    BY <2>6, <2>7, <2>8 DEF Comes
  <2>13. StoreShape(t) /\ Comes(mid, t, settled)
    BY <2>1, <2>11, WitnessReceivedComes
  <2>14. Comes(mid, t, rows)
    BY <2>2, <2>13 DEF Comes, settled
  <2>15. QED
    BY <2>12, <2>13, <2>14, ComesTransitive
<1>3. QED
  BY <1>1, <1>2

LayerOf(rows, i) == {r \in rows : Layer(r.key) = i}

(* And so does what a whole page changes, layer by layer.                  *)
LEMMA ApplyRowsComes ==
  ASSUME NEW s, StoreShape(s), NEW rows \in SUBSET ReceivedRow, IsFiniteSet(rows), NEW generating,
         NEW t, t = ApplyRows(s, rows, generating)
  PROVE  StoreShape(t) /\ Comes(s, t, rows)
<1> DEFINE one == ApplyLayer(s, LayerOf(rows, 1), generating)
           two == ApplyLayer(one, LayerOf(rows, 2), generating)
<1>1. ASSUME NEW i \in {1, 2, 3}
      PROVE  /\ LayerOf(rows, i) \in SUBSET rows /\ LayerOf(rows, i) \in SUBSET ReceivedRow
             /\ IsFiniteSet(LayerOf(rows, i))
  <2>1. LayerOf(rows, i) \in SUBSET rows
    BY DEF LayerOf
  <2>2. QED
    BY <2>1, FS_Subset
<1>2. t = ApplyLayer(two, LayerOf(rows, 3), generating)
  BY DEF ApplyRows, LayerOf
<1>3. StoreShape(one) /\ Comes(s, one, rows)
  <2>1. StoreShape(one) /\ Comes(s, one, LayerOf(rows, 1))
    BY <1>1, ApplyLayerComes
  <2>2. QED
    BY <1>1, <2>1 DEF Comes
<1> HIDE DEF one
<1>4. StoreShape(two) /\ Comes(one, two, rows)
  <2>1. StoreShape(two) /\ Comes(one, two, LayerOf(rows, 2))
    BY <1>1, <1>3, ApplyLayerComes
  <2>2. QED
    BY <1>1, <2>1 DEF Comes
<1> HIDE DEF two
<1>5. StoreShape(t) /\ Comes(two, t, rows)
  <2>1. StoreShape(t) /\ Comes(two, t, LayerOf(rows, 3))
    BY <1>1, <1>2, <1>4, ApplyLayerComes
  <2>2. QED
    BY <1>1, <2>1 DEF Comes
<1>6. QED
  BY <1>3, <1>4, <1>5, ComesTransitive

------------------------------------------------------------------------------
(* What the server's steps leave of the spent.                             *)

(* It does not matter which of the same versions is spent, and what the     *)
(* library has is.                                                         *)
LEMMA SameIsSpent ==
  ASSUME NEW k, NEW c, NEW v, Same(c, v), Spent(k, c)
  PROVE  Spent(k, v)
BY DEF Same, Spent, IsDeletion

LEMMA StoredIsSpent ==
  ASSUME StoreInv, NEW k \in DOMAIN units, NEW v, Same(units[k], v)
  PROVE  Spent(k, v)
BY DEF Same, Spent, IsDeletion, StoreInv, RetiredAreTombstones

StaysSpent == \A k, v : v.stamp \in Stamp /\ Spent(k, v) => Spent(k, v)'

(* What every step of the server keeps.                                    *)
ServerMoves ==
  /\ StoreInv' /\ LevelIsKnown' /\ StaysSpent
  /\ head.seq \in Nat /\ head'.seq \in Nat /\ head.seq <= head'.seq

(* A unit that leaves does so below a retirement, one that is replaced is   *)
(* replaced by a later version or by its own retirement.                   *)
LEMMA PushKeepsSpent ==
  ASSUME StoreInv, LevelIsKnown, NEW d \in DeviceIds, NEW op \in OperationIds,
         NEW request \in Request, NEW e \in BOOLEAN, AcceptPush(d, op, request, e)
  PROVE  ServerMoves
<1>1. StoreInv'
  BY AcceptPushIsSafe
<1>2. /\ retired \subseteq retired'
      /\ DOMAIN units' \subseteq DOMAIN units \cup WonKeys(request)
      /\ \A k \in DOMAIN units' \ WonKeys(request) : units'[k] = units[k]
      /\ \A k \in DOMAIN units \ DOMAIN units' : Parents(k) \cap retired' # {}
  BY <1>1, KeptUnits
<1>3. ASSUME NEW k \in WonKeys(request)
      PROVE  \E c \in ChangesOf(request) :
               /\ c \in Change /\ c.key = k /\ Wins(request, c)
               /\ k \in DOMAIN units' /\ units'[k] = VersionOf(c)
               /\ k = FormatKey => c.value \in Levels
               /\ IsRetirement(c) => k \in retired'
  <2> DEFINE c == request.changes[WinnerOf(request, k)]
  <2>1. c \in ChangesOf(request) /\ c.key = k
    BY WinnerFacts DEF ChangesOf
  <2> HIDE DEF c
  <2>2. QED
    BY <1>1, <2>1, ChangeEffect
<1>4. LevelIsKnown'
  <2>1. SUFFICES ASSUME FormatKey \in DOMAIN units'
                 PROVE  units'[FormatKey].value \in Levels
    BY DEF LevelIsKnown
  <2>2. CASE FormatKey \in WonKeys(request)
    <3>1. PICK c \in ChangesOf(request) :
            units'[FormatKey] = VersionOf(c) /\ c.value \in Levels
      BY <1>3, <2>2
    <3>2. QED
      BY <3>1 DEF VersionOf
  <2>3. CASE FormatKey \notin WonKeys(request)
    BY <1>2, <2>1, <2>3 DEF LevelIsKnown
  <2>4. QED
    BY <2>2, <2>3
<1>5. ASSUME NEW k, NEW v, v.stamp \in Stamp, k \in DOMAIN units, ~IsDeletion(k, v),
             StampLess(v.stamp, units[k].stamp) \/ Same(units[k], v)
      PROVE  Spent(k, v)'
  <2>1. CASE k \in WonKeys(request)
    <3>1. PICK c \in ChangesOf(request) :
               /\ c \in Change /\ c.key = k /\ Wins(request, c)
               /\ k \in DOMAIN units' /\ units'[k] = VersionOf(c)
               /\ k = FormatKey => c.value \in Levels
               /\ IsRetirement(c) => k \in retired'
      BY <1>3, <2>1
    <3>2. k # FormatKey
      <4>1. SUFFICES ASSUME k = FormatKey PROVE FALSE
        OBVIOUS
      <4>2. c.value > Level
        BY <3>1, <4>1 DEF Wins
      <4>3. Level \in 2 .. 2 /\ c.value \in 2 .. 2
        BY <1>5, <3>1, <4>1 DEF LevelIsKnown, Level, Levels, LIBRARY_FORMAT_MAX_LEVEL
      <4>4. QED
        BY <4>2, <4>3
    <3>3. ApplyRemote(units[k], c) \/ IsRetirement(c)
      BY <1>5, <3>1, <3>2 DEF Wins
    <3>4. CASE IsRetirement(c)
      BY <3>1, <3>4 DEF Spent
    <3>5. CASE ApplyRemote(units[k], c)
      <4>1. units[k].stamp \in Stamp /\ c.stamp \in Stamp
        BY <1>5, <3>1 DEF StoreInv, TypeOK, IsTable, Version, Change
      <4>2. StampLess(v.stamp, c.stamp)
        BY <1>5, <3>5, <4>1, StampOrder DEF ApplyRemote, Same
      <4>3. QED
        BY <1>5, <3>1, <4>2 DEF Spent, VersionOf
    <3>6. QED
      BY <3>3, <3>4, <3>5
  <2>2. CASE k \notin WonKeys(request) /\ k \in DOMAIN units'
    BY <1>2, <1>5, <2>2 DEF Spent
  <2>3. CASE k \notin DOMAIN units'
    BY <1>2, <1>5, <2>3 DEF Spent
  <2>4. QED
    BY <2>1, <2>2, <2>3
<1>6. StaysSpent
  <2>1. SUFFICES ASSUME NEW k, NEW v, v.stamp \in Stamp, Spent(k, v) PROVE Spent(k, v)'
    BY DEF StaysSpent
  <2>2. CASE k \in retired \/ Parents(k) \cap retired # {}
    BY <1>2, <2>2 DEF Spent
  <2>3. CASE /\ k \in DOMAIN units /\ ~IsDeletion(k, v)
             /\ (StampLess(v.stamp, units[k].stamp) \/ Same(units[k], v))
    BY <1>5, <2>1, <2>3
  <2>4. QED
    BY <2>1, <2>2, <2>3 DEF Spent
<1>7. head.seq \in Nat /\ head'.seq = head.seq + Cardinality(Winners(request))
  BY DEF AcceptPush, ApplyWinners, StoreInv, TypeOK
<1>8. QED
  BY <1>1, <1>4, <1>6, <1>7, WinnerFacts DEF ServerMoves

(* What is accepted is spent, whether it won or was outweighed.            *)
LEMMA PushIsSpent ==
  ASSUME StoreInv, LevelIsKnown, NEW d \in DeviceIds, NEW op \in OperationIds,
         NEW request \in Request, NEW e \in BOOLEAN, AcceptPush(d, op, request, e),
         NEW c \in ChangesOf(request), c.key # FormatKey
  PROVE  Spent(c.key, c)'
<1>1. StoreInv' /\ StaysSpent
  BY PushKeepsSpent DEF ServerMoves
<1>2. c \in Change /\ retired \subseteq retired'
  BY <1>1, ChangeEffect, KeptUnits
<1>3. c.stamp \in Stamp
  BY <1>2 DEF Change
<1>4. CASE c.key \in WonKeys(request)
  <2>1. /\ units'[c.key] = VersionOf(c) /\ c.key \in DOMAIN units'
        /\ IsRetirement(c) => c.key \in retired'
    BY <1>1, <1>4, ChangeEffect
  <2>2. Same(VersionOf(c), c)
    BY DEF Same, VersionOf
  <2>3. QED
    BY <2>1, <2>2 DEF Spent, IsDeletion, IsRetirement
<1>5. CASE c.key \notin WonKeys(request)
  <2>1. \/ c.key \in retired \/ Parents(c.key) \cap retired' # {}
        \/ /\ c.key \in DOMAIN units /\ ~StampLess(units[c.key].stamp, c.stamp)
           /\ IsRetirement(c) => c.key \in retired
    BY <1>1, <1>5, LosersAreOutweighed
  <2>2. CASE c.key \in retired \/ Parents(c.key) \cap retired' # {}
    BY <1>2, <2>2 DEF Spent
  <2>3. CASE /\ c.key \in DOMAIN units /\ ~StampLess(units[c.key].stamp, c.stamp)
             /\ c.key \notin retired /\ Parents(c.key) \cap retired' = {}
    <3>1. ~IsDeletion(c.key, c)
      BY <2>1, <2>3 DEF IsDeletion, IsRetirement
    <3>2. Same(units[c.key], c) \/ StampLess(c.stamp, units[c.key].stamp)
      <4>1. units[c.key].stamp \in Stamp
        BY <2>3 DEF StoreInv, TypeOK, IsTable, Version
      <4>2. ~EqualStampConflict(units[c.key], c)
        BY <2>3 DEF AcceptPush, Refused, RefusedChange, Collides
      <4>3. QED
        BY <1>3, <2>3, <4>1, <4>2, StampsAreTotal DEF EqualStampConflict, Same
    <3>3. QED
      BY <1>1, <1>3, <2>3, <3>1, <3>2 DEF StaysSpent, Spent
  <2>4. QED
    BY <2>1, <2>2, <2>3
<1>6. QED
  BY <1>4, <1>5

(* Steps that leave the library alone.                                     *)
LEMMA QuietKeepsSpent ==
  ASSUME StoreInv, LevelIsKnown, TypeOK', UNCHANGED <<head, contents, journal>>
  PROVE  ServerMoves
<1>1. /\ head' = head /\ units' = units /\ retired' = retired
      /\ unit_parents' = unit_parents /\ journal' = journal
  BY DEF contents
<1>2. StoreInv' /\ LevelIsKnown'
  BY <1>1 DEF StoreInv, JournalMirrorsLibrary, ChildrenAreLinked, RetiredAreTombstones,
     NothingLivesBelowTheRetired, LevelIsKnown
<1>3. StaysSpent
  BY <1>1 DEF StaysSpent, Spent
<1>4. QED
  BY <1>1, <1>2, <1>3 DEF ServerMoves, StoreInv, TypeOK

LEMMA StillKeepsSpent ==
  ASSUME StoreInv, LevelIsKnown, UNCHANGED vars
  PROVE  ServerMoves
<1>1. TypeOK'
  BY NextTypes DEF StoreInv
<1>2. QED
  BY <1>1, QuietKeepsSpent DEF vars

LEMMA MaintainKeepsSpent ==
  ASSUME StoreInv, LevelIsKnown, NEW holding, Maintain(holding)
  PROVE  ServerMoves
<1>1. TypeOK' /\ JournalMirrorsLibrary'
  BY MaintainTypes, MaintainMirrors DEF StoreInv
<1>2. /\ head.seq \in Nat /\ head'.seq = head.seq
      /\ units' = units /\ retired' = retired /\ unit_parents' = unit_parents
  BY DEF Maintain, contents, StoreInv, TypeOK
<1>3. StoreInv' /\ LevelIsKnown'
  BY <1>1, <1>2 DEF StoreInv, ChildrenAreLinked, RetiredAreTombstones,
     NothingLivesBelowTheRetired, LevelIsKnown
<1>4. StaysSpent
  BY <1>2 DEF StaysSpent, Spent
<1>5. QED
  BY <1>2, <1>3, <1>4 DEF ServerMoves

------------------------------------------------------------------------------
(* The parts of the invariant, when others move.                           *)

LEMMA StoresStay ==
  ASSUME StoresInv, ServerMoves, UNCHANGED store
  PROVE  StoresInv'
<1>1. SUFFICES ASSUME NEW d \in Clients PROVE StoreShape(store[d]) /\ StoreIsSpent(store[d])'
  BY DEF StoresInv
<1>2. PICK s : s = store[d] /\ s = store'[d]
  OBVIOUS
<1>3. StoreShape(s) /\ StoreIsSpent(s)
  BY <1>2 DEF StoresInv
<1>4. /\ \A k \in DOMAIN s.units : s.units[k].stamp \in Stamp
      /\ \A r \in s.rows : r.stamp \in Stamp
  BY <1>3 DEF StoreShape, IsTable, Version, Row
<1>5. StoreIsSpent(s)'
  BY <1>3, <1>4 DEF StoreIsSpent, SpentChanges, ServerMoves, StaysSpent
<1>6. QED
  BY <1>2, <1>3, <1>5 DEF StoreIsSpent, SpentChanges, Spent

LEMMA CursorsStay ==
  ASSUME CursorsInv, ServerMoves, UNCHANGED cursor
  PROVE  CursorsInv'
<1>1. ASSUME NEW d \in Clients
      PROVE  cursor'[d] <= head'.seq
  <2>1. cursor[d] \in Nat /\ cursor[d] <= head.seq /\ cursor'[d] = cursor[d]
    BY DEF CursorsInv
  <2>2. head.seq \in Nat /\ head'.seq \in Nat /\ head.seq <= head'.seq
    BY DEF ServerMoves
  <2>3. QED
    BY <2>1, <2>2
<1>2. QED
  BY <1>1 DEF CursorsInv

LEMMA PageStays ==
  ASSUME ServerMoves, NEW p \in Page, p.cursor <= head.seq, SpentChanges(p.changes)
  PROVE  p.cursor <= head'.seq /\ SpentChanges(p.changes)'
<1>1. p.cursor \in Nat /\ \A c \in p.changes : c.stamp \in Stamp
  BY DEF Page, Change
<1>2. head.seq \in Nat /\ head'.seq \in Nat /\ head.seq <= head'.seq
  BY DEF ServerMoves
<1>3. p.cursor <= head'.seq
  BY <1>1, <1>2
<1>4. SpentChanges(p.changes)'
  BY <1>1 DEF SpentChanges, ServerMoves, StaysSpent
<1>5. QED
  BY <1>3, <1>4

(* A page that is stored, moved on or closed: what it carries is spent.     *)
LEMMA PageStep ==
  ASSUME PagesInv, ServerMoves, NEW d \in Clients, NEW p \in Page \cup {None},
         page' = [page EXCEPT ![d] = p],
         p # None => /\ IsFiniteSet(p.changes) /\ p.cursor <= head.seq
                     /\ SpentChanges(p.changes)
  PROVE  PagesInv'
<1>1. ASSUME NEW e \in Clients, page'[e] # None
      PROVE  /\ IsFiniteSet(page'[e].changes) /\ page'[e].cursor <= head'.seq
             /\ SpentChanges(page[e].changes)'
  <2>1. PICK q : q = page'[e]
    OBVIOUS
  <2>2. q \in Page /\ IsFiniteSet(q.changes) /\ q.cursor <= head.seq /\ SpentChanges(q.changes)
    BY <1>1, <2>1 DEF PagesInv
  <2>3. q.cursor <= head'.seq /\ SpentChanges(q.changes)'
    BY <2>2, PageStays
  <2>4. QED
    BY <2>1, <2>2, <2>3 DEF SpentChanges, Spent
<1>2. QED
  BY <1>1 DEF PagesInv

LEMMA PagesStay ==
  ASSUME PagesInv, ServerMoves, UNCHANGED page
  PROVE  PagesInv'
<1>1. ASSUME NEW e \in Clients, page'[e] # None
      PROVE  /\ IsFiniteSet(page'[e].changes) /\ page'[e].cursor <= head'.seq
             /\ SpentChanges(page[e].changes)'
  <2>1. PICK q : q = page'[e]
    OBVIOUS
  <2>2. q \in Page /\ IsFiniteSet(q.changes) /\ q.cursor <= head.seq /\ SpentChanges(q.changes)
    BY <1>1, <2>1 DEF PagesInv
  <2>3. q.cursor <= head'.seq /\ SpentChanges(q.changes)'
    BY <2>2, PageStays
  <2>4. QED
    BY <2>1, <2>2, <2>3 DEF SpentChanges, Spent
<1>2. QED
  BY <1>1 DEF PagesInv

(* A pin that is kept is what it was; a new one is the library.            *)
LEMMA PinsStep ==
  ASSUME StoreInv, PinsInv, ServerMoves, bootstrap' \in [Clients -> StateRead \cup {None}],
         \A p \in state_pins' \ state_pins :
           p.start_seq <= head'.seq /\ \A k \in DOMAIN p.units : Spent(k, p.units[k])'
  PROVE  PinsInv'
<1>1. ASSUME NEW p \in state_pins', p \in state_pins
      PROVE  /\ p.start_seq <= head'.seq
             /\ \A k \in DOMAIN p.units : Spent(k, p.units[k])'
  <2>1. /\ p.start_seq \in Nat /\ p.start_seq <= head.seq
        /\ \A k \in DOMAIN p.units : p.units[k].stamp \in Stamp /\ Spent(k, p.units[k])
    BY <1>1 DEF StoreInv, TypeOK, IsTable, Version, PinsInv
  <2>2. head.seq \in Nat /\ head'.seq \in Nat /\ head.seq <= head'.seq
    BY DEF ServerMoves
  <2>3. p.start_seq <= head'.seq
    BY <2>1, <2>2
  <2>4. QED
    BY <2>1, <2>3 DEF ServerMoves, StaysSpent
<1>2. QED
  BY <1>1 DEF PinsInv

LEMMA PinsStay ==
  ASSUME StoreInv, PinsInv, ServerMoves, UNCHANGED bootstrap, state_pins' \subseteq state_pins
  PROVE  PinsInv'
<1>1. bootstrap' \in [Clients -> StateRead \cup {None}] /\ state_pins' \ state_pins = {}
  BY DEF PinsInv
<1>2. QED
  BY <1>1, PinsStep

(* The stamps of a request are stamps.                                     *)
LEMMA RequestStamps ==
  ASSUME NEW request \in Request, NEW c \in ChangesOf(request)
  PROVE  c \in Change /\ c.stamp \in Stamp
<1>1. c \in Change
  BY WinnerFacts DEF ChangesOf
<1>2. QED
  BY <1>1 DEF Change

(* An operation that has its answer keeps it or forgets it; one that gets   *)
(* an answer gets it for what was published under its name.                *)
NewAnswer(id) ==
  /\ \A d \in Clients : publication[d] # None /\ id = <<d, publication[d].op>> =>
       operations'[id].digest = publication[d].request
  /\ operations'[id].outcome = "accepted" =>
       \A c \in ChangesOf(operations'[id].digest) : c.key # FormatKey => Spent(c.key, c)'

(* A publication goes on, or learns that it is accepted when it is, or ends. *)
GoesOn(d) ==
  publication'[d] # None =>
    /\ publication[d] # None
    /\ publication'[d].op = publication[d].op
    /\ publication'[d].request = publication[d].request
    /\ \/ publication'[d].receipt = "accepted" => publication[d].receipt = "accepted"
       \/ SpentChanges(ChangesOf(publication[d].request))

LEMMA AnswersStep ==
  ASSUME StoreInv, PublicationsInv, AcceptedIsSpent, ServerMoves,
         publication' \in [Clients -> Publication \cup {None}],
         \A d \in Clients : GoesOn(d),
         in_flight' \subseteq in_flight,
         \A id \in DOMAIN operations' :
           \/ id \in DOMAIN operations /\ operations'[id] = operations[id]
           \/ NewAnswer(id)
  PROVE  PublicationsInv' /\ AcceptedIsSpent'
<1>1. AcceptedIsSpent'
  <2>1. SUFFICES ASSUME NEW id \in DOMAIN operations', operations'[id].outcome = "accepted",
                        NEW c \in ChangesOf(operations'[id].digest), c.key # FormatKey
                 PROVE  Spent(c.key, c)'
    BY DEF AcceptedIsSpent, ChangesOf
  <2>2. CASE id \in DOMAIN operations /\ operations'[id] = operations[id]
    <3>1. operations[id].digest \in Request
      BY <2>2 DEF StoreInv, TypeOK, IsTable, Receipt, Digest
    <3>2. c.stamp \in Stamp /\ Spent(c.key, c)
      BY <2>1, <2>2, <3>1, RequestStamps DEF AcceptedIsSpent
    <3>3. QED
      BY <3>2 DEF ServerMoves, StaysSpent
  <2>3. CASE NewAnswer(id)
    BY <2>1, <2>3 DEF NewAnswer
  <2>4. QED
    BY <2>2, <2>3
<1>2. ASSUME NEW d \in Clients, publication'[d] # None
      PROVE  /\ NamesNoLevel(publication'[d].request)
             /\ \A m \in in_flight' : m.device = d /\ m.op = publication'[d].op =>
                  m.request = publication'[d].request
             /\ <<d, publication'[d].op>> \in DOMAIN operations' =>
                  operations'[<<d, publication'[d].op>>].digest = publication'[d].request
             /\ publication'[d].receipt = "accepted" =>
                  SpentChanges(ChangesOf(publication[d].request))'
  <2>1. PICK p : p = publication[d]
    OBVIOUS
  <2>2. PICK q : q = publication'[d]
    OBVIOUS
  <2>3. /\ p # None /\ q # None /\ q.op = p.op /\ q.request = p.request
        /\ (q.receipt = "accepted" => p.receipt = "accepted") \/ SpentChanges(ChangesOf(p.request))
    BY <1>2, <2>1, <2>2 DEF GoesOn
  <2>4. p \in Publication /\ p.request \in Request
    BY <2>1, <2>3 DEF PublicationsInv, Publication
  <2>5. /\ NamesNoLevel(p.request)
        /\ \A m \in in_flight : m.device = d /\ m.op = p.op => m.request = p.request
        /\ <<d, p.op>> \in DOMAIN operations => operations[<<d, p.op>>].digest = p.request
        /\ p.receipt = "accepted" => SpentChanges(ChangesOf(p.request))
    BY <2>1, <2>3 DEF PublicationsInv, Answered
  <2>6. ASSUME <<d, p.op>> \in DOMAIN operations'
        PROVE  operations'[<<d, p.op>>].digest = p.request
    BY <2>1, <2>3, <2>5, <2>6 DEF NewAnswer
  <2>7. ASSUME q.receipt = "accepted"
        PROVE  SpentChanges(ChangesOf(p.request))'
    <3>1. \A c \in ChangesOf(p.request) : c.stamp \in Stamp
      BY <2>4, RequestStamps
    <3>2. SpentChanges(ChangesOf(p.request))
      BY <2>3, <2>5, <2>7
    <3>3. QED
      BY <3>1, <3>2 DEF SpentChanges, ServerMoves, StaysSpent
  <2>8. /\ NamesNoLevel(q.request)
        /\ \A m \in in_flight' : m.device = d /\ m.op = q.op => m.request = q.request
        /\ <<d, q.op>> \in DOMAIN operations' => operations'[<<d, q.op>>].digest = q.request
    BY <2>3, <2>5, <2>6
  <2>9. q.receipt = "accepted" => SpentChanges(ChangesOf(publication[d].request))'
    BY <2>2, <2>3, <2>7 DEF SpentChanges, Spent, ChangesOf
  <2>10. QED
    BY <2>2, <2>8, <2>9
<1>3. QED
  BY <1>1, <1>2 DEF PublicationsInv, Answered, NamesNoLevel, ChangesOf

LEMMA AnswersStay ==
  ASSUME StoreInv, PublicationsInv, AcceptedIsSpent, ServerMoves,
         UNCHANGED <<operations, publication, in_flight>>
  PROVE  PublicationsInv' /\ AcceptedIsSpent'
<1>1. publication' \in [Clients -> Publication \cup {None}] /\ \A d \in Clients : GoesOn(d)
  BY DEF PublicationsInv, GoesOn
<1>2. QED
  BY <1>1, AnswersStep

(* A store that changes by itself, with the changes of something spent.     *)
LEMMA StoreStep ==
  ASSUME StoresInv, UNCHANGED <<units, retired>>, NEW d \in Clients, NEW t, NEW changes,
         SpentChanges(changes), StoreShape(t), Comes(store[d], t, changes),
         store' = [store EXCEPT ![d] = t]
  PROVE  StoresInv'
<1>1. PICK s : s = store[d]
  OBVIOUS
<1>2. StoreShape(s) /\ StoreIsSpent(s) /\ Comes(s, t, changes)
  BY <1>1 DEF StoresInv
<1>3. StoreIsSpent(t)
  <2>1. ASSUME NEW k \in DOMAIN t.units \ t.outbox
        PROVE  Spent(k, t.units[k])
    BY <1>2, SameIsSpent DEF Comes, StoreIsSpent, SpentChanges
  <2>2. ASSUME NEW r \in t.rows
        PROVE  Spent(r.key, r)
    BY <1>2, SameIsSpent DEF Comes, StoreIsSpent, SpentChanges
  <2>3. QED
    BY <2>1, <2>2 DEF StoreIsSpent, SpentChanges
<1>4. ASSUME NEW e \in Clients
      PROVE  StoreShape(store'[e]) /\ StoreIsSpent(store'[e])
  BY <1>3 DEF StoresInv
<1>5. QED
  BY <1>4 DEF StoresInv, StoreIsSpent, SpentChanges, Spent

------------------------------------------------------------------------------
(* The steps of a device on its own store.                                 *)

(* A step that leaves the server and the other lanes alone.                *)
LEMMA OwnStep ==
  ASSUME LanesInv, UNCHANGED <<vars, publication, in_flight, cursor, bootstrap, page>>, StoresInv'
  PROVE  LanesInv'
<1>1. ServerMoves
  BY StillKeepsSpent DEF LanesInv
<1>2. state_pins' \subseteq state_pins /\ UNCHANGED operations
  BY DEF vars
<1>3. CursorsInv' /\ PagesInv' /\ PinsInv'
  BY <1>1, <1>2, CursorsStay, PagesStay, PinsStay DEF LanesInv
<1>4. PublicationsInv' /\ AcceptedIsSpent'
  BY <1>1, <1>2, AnswersStay DEF LanesInv
<1>5. QED
  BY <1>1, <1>3, <1>4 DEF LanesInv, ServerMoves

(* What is stamped comes above all the device has seen.                    *)
LEMMA SeenStamps ==
  ASSUME NEW s, StoreShape(s), NEW d \in Clients, NEW wall \in Nat
  PROVE  /\ Seen(s) \in SUBSET Stamp /\ IsFiniteSet(Seen(s))
         /\ IssueStamp(wall, WriterOf[d], Seen(s)) \in Stamp
         /\ NewStamp(s, wall, WriterOf[d]) \in Stamp
<1>1. WriterOf[d] \in Writers
  BY ClientsAssumption
<1>2. /\ {s.issued, s.accepted} \ {NoStamp} \in SUBSET Stamp
      /\ {s.accepted} \ {NoStamp} \in SUBSET Stamp
  BY DEF StoreShape
<1>3. IsFiniteSet({s.issued, s.accepted} \ {NoStamp}) /\ IsFiniteSet({s.accepted} \ {NoStamp})
  <2>1. /\ {s.issued, s.accepted} = {s.issued} \cup {s.accepted}
        /\ IsFiniteSet({s.issued}) /\ IsFiniteSet({s.accepted})
    BY FS_Singleton
  <2>2. /\ {s.issued, s.accepted} \ {NoStamp} \in SUBSET {s.issued, s.accepted}
        /\ {s.accepted} \ {NoStamp} \in SUBSET {s.accepted}
    OBVIOUS
  <2>3. IsFiniteSet({s.issued, s.accepted})
    BY <2>1, FS_Union
  <2>4. QED
    BY <2>1, <2>2, <2>3, FS_Subset
<1>4. QED
  BY <1>1, <1>2, <1>3, IssuedIsAbove DEF Seen, NewStamp

LEMMA EditKeeps ==
  ASSUME LanesInv, NEW d \in Clients, NEW commit \in Commits, NEW wall \in 0 .. MaxWall,
         Edit(d, commit, wall)
  PROVE  LanesInv'
<1>1. PICK s : s = store[d]
  OBVIOUS
<1>2. StoreShape(s)
  BY <1>1 DEF LanesInv, StoresInv
<1>3. PICK stamp : stamp = IssueStamp(wall, WriterOf[d], Seen(s))
  OBVIOUS
<1>4. stamp \in Stamp
  BY <1>2, <1>3, SeenStamps, ClientBounds
<1>5. PICK t : t = RecordChanges(s, commit, stamp)
  OBVIOUS
<1>6. StoreShape(t) /\ Comes(s, t, {})
  BY <1>2, <1>4, <1>5, RecordChangesComes, CommitsAssumption
<1>7. store' = [store EXCEPT ![d] = t]
  BY <1>1, <1>3, <1>5 DEF Edit
<1>8. StoresInv'
  BY <1>1, <1>6, <1>7, StoreStep DEF LanesInv, Edit, vars, contents, SpentChanges
<1>9. QED
  BY <1>8, OwnStep DEF Edit

LEMMA InterruptEditKeeps ==
  ASSUME LanesInv, NEW d \in Clients, NEW commit \in Commits, NEW wall \in 0 .. MaxWall,
         InterruptEdit(d, commit, wall)
  PROVE  LanesInv'
<1>1. PICK s : s = store[d]
  OBVIOUS
<1>2. StoreShape(s)
  BY <1>1 DEF LanesInv, StoresInv
<1>3. PICK stamp : stamp = IssueStamp(wall, WriterOf[d], Seen(s))
  OBVIOUS
<1>4. stamp \in Stamp
  BY <1>2, <1>3, SeenStamps, ClientBounds
<1>5. PICK t : t = ReserveIntent(s, commit, stamp)
  OBVIOUS
<1>6. StoreShape(t) /\ Comes(s, t, {})
  BY <1>2, <1>4, <1>5, ReserveIntentComes, CommitsAssumption
<1>7. store' = [store EXCEPT ![d] = t]
  BY <1>1, <1>3, <1>5 DEF InterruptEdit
<1>8. StoresInv'
  BY <1>1, <1>6, <1>7, StoreStep DEF LanesInv, InterruptEdit, vars, contents, SpentChanges
<1>9. QED
  BY <1>8, OwnStep DEF InterruptEdit

LEMMA RecoverIntentsKeeps ==
  ASSUME LanesInv, NEW d \in Clients, RecoverIntents(d)
  PROVE  LanesInv'
<1>1. PICK s : s = store[d]
  OBVIOUS
<1>2. StoreShape(s) /\ s.intents # {}
  BY <1>1 DEF LanesInv, StoresInv, RecoverIntents
<1>3. PICK t : t = ReplayIntent(s)
  OBVIOUS
<1>4. StoreShape(t) /\ Comes(s, t, {})
  BY <1>2, <1>3, ReplayIntentComes
<1>5. store' = [store EXCEPT ![d] = t]
  BY <1>1, <1>3 DEF RecoverIntents
<1>6. StoresInv'
  <2>1. StoresInv /\ UNCHANGED <<units, retired>> /\ SpentChanges({})
    BY DEF LanesInv, RecoverIntents, vars, contents, SpentChanges
  <2>2. QED
    BY <1>1, <1>4, <1>5, <2>1, StoreStep
<1>7. QED
  BY <1>6, OwnStep DEF RecoverIntents

LEMMA RetryUnpublishedKeeps ==
  ASSUME LanesInv, NEW d \in Clients, NEW corrected \in 0 .. MaxWall,
         RetryUnpublished(d, corrected)
  PROVE  LanesInv'
<1>1. PICK s : s = store[d]
  OBVIOUS
<1>2. StoreShape(s)
  BY <1>1 DEF LanesInv, StoresInv
<1>3. PICK stamp : stamp = NewStamp(s, corrected, WriterOf[d])
  OBVIOUS
<1>4. stamp \in Stamp
  BY <1>2, <1>3, SeenStamps, ClientBounds
<1>5. PICK t : t = StampAnew(s, corrected + MAX_CLOCK_SKEW, stamp)
  OBVIOUS
<1>6. StoreShape(t) /\ Comes(s, t, {})
  BY <1>2, <1>4, <1>5, StampAnewComes
<1>7. store' = [store EXCEPT ![d] = t]
  BY <1>1, <1>3, <1>5 DEF RetryUnpublished
<1>8. StoresInv'
  BY <1>1, <1>6, <1>7, StoreStep DEF LanesInv, RetryUnpublished, vars, contents, SpentChanges
<1>9. QED
  BY <1>8, OwnStep DEF RetryUnpublished

(* Rows that wait, and rows that came, are received rows.                  *)
LEMMA RowsAreReceived == Row \subseteq ReceivedRow
BY DEF Row, ReceivedRow

LEMMA DrainKeeps ==
  ASSUME LanesInv, NEW d \in Clients, NEW generating \in SUBSET Generated, Drain(d, generating)
  PROVE  LanesInv'
<1>1. PICK s : s = store[d]
  OBVIOUS
<1>2. StoreShape(s) /\ StoreIsSpent(s)
  BY <1>1 DEF LanesInv, StoresInv
<1>3. s.rows \in SUBSET ReceivedRow /\ IsFiniteSet(s.rows) /\ SpentChanges(s.rows)
  BY <1>2, RowsAreReceived DEF StoreShape, StoreIsSpent
<1>4. PICK rows : rows = s.rows
  OBVIOUS
<1>5. PICK t : t = ApplyRows(s, rows, generating)
  OBVIOUS
<1>6. StoreShape(t) /\ Comes(s, t, rows)
  BY <1>2, <1>3, <1>4, <1>5, ApplyRowsComes
<1>7. store' = [store EXCEPT ![d] = t]
  BY <1>1, <1>4, <1>5 DEF Drain
<1>8. StoresInv'
  BY <1>1, <1>3, <1>4, <1>6, <1>7, StoreStep DEF LanesInv, Drain, vars, contents
<1>9. QED
  BY <1>8, OwnStep DEF Drain

------------------------------------------------------------------------------
(* The send lane.                                                          *)

(* A step that leaves what the server has and the receive lane alone.      *)
LEMMA SendStepKeeps ==
  ASSUME LanesInv, ServerMoves, UNCHANGED <<state_pins, cursor, bootstrap, page>>,
         StoresInv', PublicationsInv', AcceptedIsSpent'
  PROVE  LanesInv'
<1>1. CursorsInv' /\ PagesInv' /\ PinsInv'
  BY CursorsStay, PagesStay, PinsStay DEF LanesInv
<1>2. QED
  BY <1>1 DEF LanesInv, ServerMoves

(* A push carries what the outbox has, and no two operations have one name. *)
LEMMA PublishKeeps ==
  ASSUME LanesInv, NEW d \in Clients, NEW generating \in SUBSET Generated, Publish(d, generating)
  PROVE  LanesInv'
<1> DEFINE chosen == OutboxPage(d, generating)
           op == CHOOSE o \in Unused(d) : TRUE
<1>1. PICK ordered \in InOrder(chosen) :
        LET request == [writer |-> WriterOf[d],
                        changes |-> [i \in DOMAIN ordered |-> ChangeOf(d, ordered[i])]] IN
        /\ Prepare(d, op, request)
        /\ in_flight' = in_flight \cup {[device |-> d, op |-> op, request |-> request]}
  BY DEF Publish
<1>2. PICK request : request = [writer |-> WriterOf[d],
                                changes |-> [i \in DOMAIN ordered |-> ChangeOf(d, ordered[i])]]
  OBVIOUS
<1>3. op \in Unused(d)
  BY DEF Publish
<1>4. PICK o : o = op
  OBVIOUS
<1>5. /\ publication' = [publication EXCEPT ![d] = [op |-> o, request |-> request,
                                                    receipt |-> "none"]]
      /\ in_flight' = in_flight \cup {[device |-> d, op |-> o, request |-> request]}
  BY <1>1, <1>2, <1>4 DEF Prepare
<1>6. /\ o \in OperationIds /\ ~Answered(d, o)
      /\ \A m \in in_flight : m.device # d \/ m.op # o
  BY <1>3, <1>4 DEF Unused
<1> HIDE DEF op
<1>7. /\ chosen \in SUBSET (Keys \ {FormatKey}) /\ chosen \in SUBSET Keys
      /\ chosen \subseteq DOMAIN store[d].units
  BY DEF OutboxPage, FirstOf, LanesInv, StoresInv, StoreShape, IsTable
<1>8. \A k \in chosen : ChangeOf(d, k) \in Change /\ ChangeOf(d, k).key = k
  BY <1>7 DEF ChangeOf, LanesInv, StoresInv, StoreShape, IsTable, Version, Change
<1>9. Cardinality(chosen) \in Nat
  <2>1. IsFiniteSet(Keys)
    BY KeyOrderAssumption
  <2> HIDE DEF chosen
  <2>2. QED
    BY <1>7, <2>1, FS_Subset, FS_CardinalityType
<1>10. request \in Request /\ NamesNoLevel(request)
  <2> HIDE DEF chosen
  <2>1. ordered \in [1 .. Cardinality(chosen) -> chosen]
    BY DEF InOrder
  <2>2. PICK n \in Nat : n = Cardinality(chosen)
    BY <1>9
  <2>3. /\ request.changes = [i \in 1 .. n |-> ChangeOf(d, ordered[i])]
        /\ \A i \in 1 .. n : ordered[i] \in chosen
    BY <1>2, <2>1, <2>2
  <2>4. request.changes \in [1 .. n -> Change]
    BY <1>8, <2>3
  <2>5. request.changes \in Seq(Change)
    BY <2>2, <2>4
  <2>6. request = [writer |-> WriterOf[d], changes |-> request.changes] /\ WriterOf[d] \in Writers
    BY <1>2, ClientsAssumption
  <2>7. request \in Request
    BY <2>5, <2>6 DEF Request
  <2>8. ASSUME NEW c \in ChangesOf(request)
        PROVE  c.key # FormatKey
    <3>1. PICK i \in 1 .. n : c = ChangeOf(d, ordered[i])
      BY <2>3 DEF ChangesOf
    <3>2. c.key \in chosen
      BY <1>8, <2>3, <3>1
    <3>3. QED
      BY <1>7, <3>2
  <2>9. QED
    BY <2>7, <2>8 DEF NamesNoLevel
<1>11. ServerMoves /\ UNCHANGED <<units, retired, operations>>
  BY StillKeepsSpent DEF LanesInv, Publish, vars, contents
<1>12. PICK p : p = [op |-> o, request |-> request, receipt |-> "none"]
  OBVIOUS
<1>13. PICK message : message = [device |-> d, op |-> o, request |-> request]
  OBVIOUS
<1>14. /\ p \in Publication /\ p.op = o /\ p.request = request /\ p.receipt = "none"
       /\ message \in Message /\ message.device = d /\ message.op = o /\ message.request = request
       /\ publication' = [publication EXCEPT ![d] = p] /\ in_flight' = in_flight \cup {message}
  BY <1>5, <1>6, <1>10, <1>12, <1>13 DEF Publication, Message
<1>15. ASSUME NEW e \in Clients, publication'[e] # None
       PROVE  /\ NamesNoLevel(publication'[e].request)
              /\ \A m \in in_flight' : m.device = e /\ m.op = publication'[e].op =>
                   m.request = publication'[e].request
              /\ <<e, publication'[e].op>> \in DOMAIN operations' =>
                   operations'[<<e, publication'[e].op>>].digest = publication'[e].request
              /\ publication'[e].receipt = "accepted" =>
                   SpentChanges(ChangesOf(publication[e].request))'
  <2>1. CASE e = d
    <3>1. publication'[e] = p
      BY <1>14, <2>1 DEF LanesInv, PublicationsInv
    <3>2. QED
      BY <1>6, <1>10, <1>11, <1>14, <2>1, <3>1 DEF Answered
  <2>2. CASE e # d
    <3>1. publication'[e] = publication[e]
      BY <1>14, <2>2 DEF LanesInv, PublicationsInv
    <3>2. /\ NamesNoLevel(publication[e].request)
          /\ \A m \in in_flight : m.device = e /\ m.op = publication[e].op =>
               m.request = publication[e].request
          /\ <<e, publication[e].op>> \in DOMAIN operations =>
               operations[<<e, publication[e].op>>].digest = publication[e].request
          /\ publication[e].receipt = "accepted" =>
               SpentChanges(ChangesOf(publication[e].request))
      BY <1>15, <3>1 DEF LanesInv, PublicationsInv, Answered
    <3>3. SpentChanges(ChangesOf(publication[e].request)) =>
            SpentChanges(ChangesOf(publication[e].request))'
      BY <1>11, <3>1 DEF SpentChanges, Spent, ChangesOf
    <3>4. QED
      BY <1>11, <1>14, <2>2, <3>1, <3>2, <3>3
  <2>3. QED
    BY <2>1, <2>2
<1>16. PublicationsInv'
  <2>1. publication' \in [Clients -> Publication \cup {None}] /\ in_flight' \subseteq Message
    BY <1>14 DEF LanesInv, PublicationsInv
  <2>2. \A m \in in_flight' : NamesNoLevel(m.request)
    BY <1>10, <1>14 DEF LanesInv, PublicationsInv
  <2>3. \A e \in Clients : publication'[e] # None =>
          /\ NamesNoLevel(publication'[e].request)
          /\ publication'[e].receipt = "accepted" =>
                SpentChanges(ChangesOf(publication[e].request))'
    BY <1>15
  <2>4. QED
    BY <1>15, <2>1, <2>2, <2>3 DEF PublicationsInv, Answered, NamesNoLevel, ChangesOf
<1>17. AcceptedIsSpent'
  BY <1>11 DEF LanesInv, AcceptedIsSpent, Spent, ChangesOf
<1>18. StoresInv'
  BY <1>11, StoresStay DEF LanesInv, Publish
<1>19. QED
  BY <1>11, <1>16, <1>17, <1>18, SendStepKeeps DEF Publish, vars

(* The answer an operation gets is the only one that changes.              *)
LEMMA SavedAnswer ==
  ASSUME NEW d, NEW op, NEW receipt, SaveOperation(d, op, receipt), NEW id \in DOMAIN operations'
  PROVE  \/ id \in DOMAIN operations /\ operations'[id] = operations[id]
         \/ id = <<d, op>> /\ operations'[id] = receipt
BY DEF SaveOperation

(* A device's publications are not touched by what others send.            *)
LEMMA PublicationsGoOn ==
  ASSUME PublicationsInv, UNCHANGED publication
  PROVE  /\ publication' \in [Clients -> Publication \cup {None}]
         /\ \A d \in Clients : GoesOn(d)
BY DEF PublicationsInv, GoesOn

(* A push that is taken is the publication it was sent for.                *)
SentFor(d, op, request) ==
  \A e \in Clients : publication[e] # None /\ <<d, op>> = <<e, publication[e].op>> =>
    publication[e].request = request

LEMMA TakenPush ==
  ASSUME LanesInv, NEW d \in DeviceIds, NEW op \in OperationIds, NEW request \in Request,
         SentFor(d, op, request), NEW e \in BOOLEAN,
         AcceptPush(d, op, request, e), UNCHANGED publication, in_flight' \subseteq in_flight
  PROVE  ServerMoves /\ PublicationsInv' /\ AcceptedIsSpent'
<1>1. StoreInv /\ LevelIsKnown /\ PublicationsInv /\ AcceptedIsSpent
  BY DEF LanesInv
<1>2. ServerMoves
  BY <1>1, PushKeepsSpent
<1>3. PICK receipt : /\ SaveOperation(d, op, receipt)
                     /\ receipt.outcome = "accepted" /\ receipt.digest = request
  BY DEF AcceptPush
<1>4. ASSUME NEW id \in DOMAIN operations',
             ~(id \in DOMAIN operations /\ operations'[id] = operations[id])
      PROVE  NewAnswer(id)
  <2>1. id = <<d, op>> /\ operations'[id] = receipt
    BY <1>3, <1>4, SavedAnswer
  <2>2. \A c \in ChangesOf(request) : c.key # FormatKey => Spent(c.key, c)'
    BY <1>1, PushIsSpent
  <2>3. QED
    BY <1>3, <2>1, <2>2 DEF NewAnswer, SentFor
<1>5. QED
  BY <1>1, <1>2, <1>4, PublicationsGoOn, AnswersStep

LEMMA DeliverPushKeeps ==
  ASSUME LanesInv, NEW m \in in_flight, DeliverPush(m)
  PROVE  LanesInv'
<1>1. /\ m.device \in Clients /\ m.device \in DeviceIds
      /\ m.op \in OperationIds /\ m.request \in Request
  BY ClientsAssumption DEF LanesInv, PublicationsInv, Message
<1>2. \A e \in Clients : publication[e] # None /\ <<m.device, m.op>> = <<e, publication[e].op>> =>
        publication[e].request = m.request
  BY DEF LanesInv, PublicationsInv
<1>3. /\ in_flight' \subseteq in_flight /\ UNCHANGED publication
      /\ UNCHANGED store /\ UNCHANGED <<cursor, bootstrap, page>>
  BY DEF DeliverPush
<1>4. StoreInv /\ LevelIsKnown /\ StoresInv /\ PublicationsInv /\ AcceptedIsSpent
  BY DEF LanesInv
<1>5. CASE AcceptPush(m.device, m.op, m.request, FALSE)
  <2>1. ServerMoves /\ PublicationsInv' /\ AcceptedIsSpent'
    <3>1. SentFor(m.device, m.op, m.request)
      BY <1>2 DEF SentFor
    <3>2. QED
      BY <1>1, <1>3, <1>5, <3>1, TakenPush
  <2>2. StoresInv' /\ UNCHANGED state_pins
    BY <1>3, <1>4, <1>5, <2>1, StoresStay DEF AcceptPush
  <2>3. QED
    BY <1>3, <2>1, <2>2, SendStepKeeps
<1>6. CASE RefusePush(m.device, m.op, m.request, FALSE, TRUE)
  <2>1. TypeOK'
    BY <1>1, <1>4, <1>6, RefusalTypes DEF StoreInv
  <2>2. ServerMoves /\ UNCHANGED state_pins
    BY <1>4, <1>6, <2>1, QuietKeepsSpent DEF RefusePush
  <2>3. PICK receipt : /\ SaveOperation(m.device, m.op, receipt)
                       /\ receipt.outcome = "rejected" /\ receipt.digest = m.request
    BY <1>6 DEF RefusePush
  <2>4. ASSUME NEW id \in DOMAIN operations',
               ~(id \in DOMAIN operations /\ operations'[id] = operations[id])
        PROVE  NewAnswer(id)
    <3>1. id = <<m.device, m.op>> /\ operations'[id] = receipt
      BY <2>3, <2>4, SavedAnswer
    <3>2. QED
      BY <1>2, <2>3, <3>1 DEF NewAnswer
  <2>5. PublicationsInv' /\ AcceptedIsSpent'
    BY <1>3, <1>4, <2>2, <2>4, PublicationsGoOn, AnswersStep
  <2>6. StoresInv'
    BY <1>3, <1>4, <2>2, StoresStay
  <2>7. QED
    BY <1>3, <2>2, <2>5, <2>6, SendStepKeeps
<1>7. CASE UNCHANGED vars
  <2>1. ServerMoves /\ UNCHANGED <<state_pins, operations>>
    BY <1>4, <1>7, StillKeepsSpent DEF vars
  <2>2. PublicationsInv' /\ AcceptedIsSpent'
    BY <1>3, <1>4, <2>1, PublicationsGoOn, AnswersStep
  <2>3. StoresInv'
    BY <1>3, <1>4, <2>1, StoresStay
  <2>4. QED
    BY <1>3, <2>1, <2>2, <2>3, SendStepKeeps
<1>8. QED
  BY <1>5, <1>6, <1>7 DEF DeliverPush

LEMMA LosePushKeeps ==
  ASSUME LanesInv, NEW m \in in_flight, LosePush(m)
  PROVE  LanesInv'
<1>1. StoreInv /\ LevelIsKnown /\ StoresInv /\ PublicationsInv /\ AcceptedIsSpent
  BY DEF LanesInv
<1>2. ServerMoves /\ UNCHANGED <<state_pins, operations>>
  BY <1>1, StillKeepsSpent DEF LosePush, vars
<1>3. in_flight' \subseteq in_flight /\ UNCHANGED publication
  BY DEF LosePush
<1>4. PublicationsInv' /\ AcceptedIsSpent'
  BY <1>1, <1>2, <1>3, PublicationsGoOn, AnswersStep
<1>5. StoresInv'
  BY <1>1, <1>2, StoresStay DEF LosePush
<1>6. QED
  BY <1>2, <1>4, <1>5, SendStepKeeps DEF LosePush

(* A publication whose outcome is written to the log.                      *)
LEMMA Finished ==
  ASSUME PublicationsInv, NEW d \in Clients, publication[d] # None,
         NEW outcome \in {"accepted", "rejected", "cancelled"}, Finish(d, outcome),
         outcome = "accepted" => SpentChanges(ChangesOf(publication[d].request))
  PROVE  /\ publication' \in [Clients -> Publication \cup {None}]
         /\ \A e \in Clients : GoesOn(e)
<1>1. PICK p : p = publication[d]
  OBVIOUS
<1>2. p \in Publication
  BY <1>1 DEF PublicationsInv
<1>3. PICK q : q = [p EXCEPT !.receipt = outcome]
  OBVIOUS
<1>4. q \in Publication /\ q.op = p.op /\ q.request = p.request /\ q.receipt = outcome
  BY <1>2, <1>3 DEF Publication
<1>5. publication' = [publication EXCEPT ![d] = q]
  BY <1>1, <1>3 DEF Finish
<1>6. publication' \in [Clients -> Publication \cup {None}]
  BY <1>4, <1>5 DEF PublicationsInv
<1>7. ASSUME NEW e \in Clients
      PROVE  GoesOn(e)
  <2>1. CASE e = d
    <3>1. publication'[e] = q
      BY <1>5, <2>1 DEF PublicationsInv
    <3>2. QED
      BY <1>1, <1>4, <2>1, <3>1 DEF GoesOn
  <2>2. CASE e # d
    BY <1>5, <2>2 DEF GoesOn, PublicationsInv
  <2>3. QED
    BY <2>1, <2>2
<1>8. QED
  BY <1>6, <1>7

LEMMA LearnOutcomeKeeps ==
  ASSUME LanesInv, NEW d \in Clients, LearnOutcome(d)
  PROVE  LanesInv'
<1>1. StoreInv /\ LevelIsKnown /\ StoresInv /\ PublicationsInv /\ AcceptedIsSpent
  BY DEF LanesInv
<1>2. publication[d] # None /\ <<d, publication[d].op>> \in DOMAIN operations
  BY DEF LearnOutcome, Open, Answered
<1>3. PICK outcome : outcome = operations[<<d, publication[d].op>>].outcome
  OBVIOUS
<1>4. outcome \in {"accepted", "rejected", "cancelled"}
  BY <1>1, <1>2, <1>3 DEF StoreInv, TypeOK, IsTable, Receipt
<1>5. outcome = "accepted" => SpentChanges(ChangesOf(publication[d].request))
  BY <1>1, <1>2, <1>3 DEF PublicationsInv, AcceptedIsSpent, NamesNoLevel, SpentChanges, Answered
<1>6. Finish(d, outcome)
  BY <1>3 DEF LearnOutcome
<1>7. /\ publication' \in [Clients -> Publication \cup {None}]
      /\ \A e \in Clients : GoesOn(e)
  BY <1>1, <1>2, <1>4, <1>5, <1>6, Finished
<1>8. ServerMoves /\ UNCHANGED <<state_pins, operations>>
  BY <1>1, StillKeepsSpent DEF LearnOutcome, vars
<1>9. PublicationsInv' /\ AcceptedIsSpent'
  BY <1>1, <1>7, <1>8, AnswersStep DEF LearnOutcome
<1>10. StoresInv'
  BY <1>1, <1>8, StoresStay DEF LearnOutcome
<1>11. QED
  BY <1>8, <1>9, <1>10, SendStepKeeps DEF LearnOutcome

LEMMA CancelPublicationKeeps ==
  ASSUME LanesInv, NEW d \in Clients, NEW answered \in BOOLEAN, CancelPublication(d, answered)
  PROVE  LanesInv'
<1>1. StoreInv /\ LevelIsKnown /\ StoresInv /\ PublicationsInv /\ AcceptedIsSpent
  BY DEF LanesInv
<1>2. PICK p : p = publication[d]
  OBVIOUS
<1>3. p # None /\ CancelOperation(d, p.op, p.request)
  BY <1>2 DEF CancelPublication, Open
<1>4. p \in Publication /\ d \in DeviceIds
  BY <1>1, <1>2, <1>3, ClientsAssumption DEF PublicationsInv
<1>5. p.op \in OperationIds /\ p.request \in Request
  BY <1>4 DEF Publication
<1>6. TypeOK'
  BY <1>1, <1>3, <1>4, <1>5, RefusalTypes DEF StoreInv
<1>7. ServerMoves /\ UNCHANGED state_pins
  BY <1>1, <1>3, <1>6, QuietKeepsSpent DEF CancelOperation
<1>8. /\ publication' \in [Clients -> Publication \cup {None}]
      /\ \A e \in Clients : GoesOn(e)
  <2>1. CASE answered
    <3>1. Finish(d, "cancelled")
      BY <2>1 DEF CancelPublication
    <3>2. QED
      BY <1>1, <1>2, <1>3, <3>1, Finished
  <2>2. CASE ~answered
    BY <1>1, <2>2, PublicationsGoOn DEF CancelPublication
  <2>3. QED
    BY <2>1, <2>2
<1>9. PICK receipt : /\ SaveOperation(d, p.op, receipt)
                     /\ receipt.outcome = "cancelled" /\ receipt.digest = p.request
  BY <1>3 DEF CancelOperation
<1>10. ASSUME NEW id \in DOMAIN operations',
              ~(id \in DOMAIN operations /\ operations'[id] = operations[id])
       PROVE  NewAnswer(id)
  <2>1. id = <<d, p.op>> /\ operations'[id] = receipt
    BY <1>9, <1>10, SavedAnswer
  <2>2. QED
    BY <1>2, <1>9, <2>1 DEF NewAnswer
<1>11. in_flight' \subseteq in_flight
  BY DEF CancelPublication
<1>12. PublicationsInv' /\ AcceptedIsSpent'
  BY <1>1, <1>7, <1>8, <1>10, <1>11, AnswersStep
<1>13. StoresInv'
  BY <1>1, <1>7, StoresStay DEF CancelPublication
<1>14. QED
  BY <1>7, <1>12, <1>13, SendStepKeeps DEF CancelPublication

(* The changes of a request are finitely many, and so are their stamps.    *)
LEMMA RequestIsFinite ==
  ASSUME NEW request \in Request
  PROVE  ChangesOf(request) \in SUBSET Change /\ IsFiniteSet(ChangesOf(request))
<1>1. PICK f : f = request.changes
  OBVIOUS
<1>2. f \in Seq(Change)
  BY <1>1 DEF Request
<1>3. PICK n \in Nat : DOMAIN f = 1 .. n
  BY <1>2
<1>4. IsFiniteSet(DOMAIN f)
  BY <1>3, FS_Interval
<1>5. ChangesOf(request) = {f[i] : i \in DOMAIN f}
  BY <1>1 DEF ChangesOf
<1>6. IsFiniteSet(ChangesOf(request))
  BY <1>4, <1>5, FiniteImage
<1>7. QED
  BY <1>6, RequestStamps

LEMMA StampsOf ==
  ASSUME NEW changes \in SUBSET Change, IsFiniteSet(changes)
  PROVE  {c.stamp : c \in changes} \in SUBSET Stamp /\ IsFiniteSet({c.stamp : c \in changes})
<1> DEFINE f == [c \in changes |-> c.stamp]
<1>1. DOMAIN f = changes /\ {c.stamp : c \in changes} = {f[c] : c \in changes}
  OBVIOUS
<1> HIDE DEF f
<1>2. IsFiniteSet({c.stamp : c \in changes})
  BY <1>1, FiniteImage
<1>3. QED
  BY <1>2 DEF Change

(* What leaves the outbox with an acknowledgement was accepted.            *)
LEMMA AcknowledgePublicationKeeps ==
  ASSUME LanesInv, NEW d \in Clients, NEW logged \in BOOLEAN, AcknowledgePublication(d, logged)
  PROVE  LanesInv'
<1>1. StoreInv /\ LevelIsKnown /\ StoresInv /\ PublicationsInv /\ AcceptedIsSpent
  BY DEF LanesInv
<1>2. PICK changes : changes = ChangesOf(publication[d].request)
  OBVIOUS
<1>3. publication[d] # None
  BY DEF AcknowledgePublication
<1>4. changes \in SUBSET Change /\ IsFiniteSet(changes)
  BY <1>1, <1>2, <1>3, RequestIsFinite DEF PublicationsInv, Publication
<1>5. ServerMoves /\ UNCHANGED <<state_pins, operations>> /\ UNCHANGED <<units, retired>>
  BY <1>1, StillKeepsSpent DEF AcknowledgePublication, vars, contents
<1>6. StoresInv'
  <2>1. CASE publication[d].receipt = "accepted"
    <3>1. PICK s : s = store[d]
      OBVIOUS
    <3>2. StoreShape(s)
      BY <1>1, <3>1 DEF StoresInv
    <3>3. SpentChanges(changes)
      BY <1>1, <1>2, <1>3, <2>1 DEF PublicationsInv
    <3>4. PICK a : a = AckOutbox(s, changes)
      OBVIOUS
    <3>5. StoreShape(a) /\ Comes(s, a, changes)
      BY <3>2, <3>4, AckOutboxComes
    <3>6. PICK stamps : stamps = {c.stamp : c \in changes}
      OBVIOUS
    <3>7. stamps \in SUBSET Stamp /\ IsFiniteSet(stamps)
      BY <1>4, <3>6, StampsOf
    <3>8. PICK t : t = Observe(a, stamps)
      OBVIOUS
    <3>9. StoreShape(t) /\ Comes(a, t, {})
      BY <3>5, <3>7, <3>8, ObserveComes
    <3>10. Comes(s, t, changes)
      BY <3>5, <3>9 DEF Comes
    <3>11. store' = [store EXCEPT ![d] = t]
      BY <1>2, <2>1, <3>1, <3>4, <3>6, <3>8 DEF AcknowledgePublication
    <3>12. QED
      BY <1>1, <1>5, <3>1, <3>3, <3>9, <3>10, <3>11, StoreStep
  <2>2. CASE publication[d].receipt # "accepted"
    BY <1>1, <1>5, <2>2, StoresStay DEF AcknowledgePublication
  <2>3. QED
    BY <2>1, <2>2
<1>7. /\ publication' \in [Clients -> Publication \cup {None}]
      /\ \A e \in Clients : GoesOn(e)
  <2>1. CASE logged
    <3>1. publication' = [publication EXCEPT ![d] = None]
      BY <2>1 DEF AcknowledgePublication
    <3>2. QED
      BY <1>1, <3>1 DEF PublicationsInv, GoesOn
  <2>2. CASE ~logged
    BY <1>1, <2>2, PublicationsGoOn DEF AcknowledgePublication
  <2>3. QED
    BY <2>1, <2>2
<1>8. PublicationsInv' /\ AcceptedIsSpent'
  BY <1>1, <1>5, <1>7, AnswersStep DEF AcknowledgePublication
<1>9. QED
  BY <1>5, <1>6, <1>8, SendStepKeeps DEF AcknowledgePublication

------------------------------------------------------------------------------
(* The receive lane.                                                       *)

(* A step that leaves what is published alone.                             *)
LEMMA ReceiveStepKeeps ==
  ASSUME LanesInv, ServerMoves, UNCHANGED <<operations, publication, in_flight>>,
         StoresInv', CursorsInv', PagesInv', PinsInv'
  PROVE  LanesInv'
<1>1. PublicationsInv' /\ AcceptedIsSpent'
  BY AnswersStay DEF LanesInv
<1>2. QED
  BY <1>1 DEF LanesInv, ServerMoves

(* A page is taken from rows whose versions the library knows.             *)
LEMMA ReadPage ==
  ASSUME LanesInv, NEW d \in Clients, NEW keys \in SUBSET Keys, NEW versions,
         \A k \in keys : /\ versions[k].stamp \in Stamp /\ versions[k].value \in Value
                         /\ Spent(k, versions[k]),
         NEW next \in Nat, next <= head.seq, NEW last \in BOOLEAN, NEW after \in Nat,
         StorePage(d, {[key |-> k, stamp |-> versions[k].stamp, value |-> versions[k].value] :
                         k \in keys}, next, last, after),
         UNCHANGED <<vars, store, publication, in_flight, cursor, bootstrap>>
  PROVE  LanesInv'
<1> DEFINE f == [k \in keys |-> [key |-> k, stamp |-> versions[k].stamp, value |-> versions[k].
                                 value]]
           read == {[key |-> k, stamp |-> versions[k].stamp, value |-> versions[k].
                     value] : k \in keys}
<1>1. DOMAIN f = keys /\ read = {f[k] : k \in keys}
  OBVIOUS
<1>2. IsFiniteSet(keys)
  BY KeyOrderAssumption, FS_Subset
<1>3. read \in SUBSET Change /\ SpentChanges(read)
  <2>1. ASSUME NEW k \in keys
        PROVE  f[k] \in Change /\ f[k].key = k /\ Same(versions[k], f[k])
    BY DEF Change, Same
  <2>2. ASSUME NEW k \in keys
        PROVE  Spent(f[k].key, f[k])
    <3>1. Spent(k, versions[k])
      OBVIOUS
    <3> HIDE DEF f
    <3>2. QED
      BY <2>1, <3>1, SameIsSpent
  <2> HIDE DEF f
  <2>3. QED
    BY <1>1, <2>1, <2>2 DEF SpentChanges
<1> HIDE DEF f
<1>4. IsFiniteSet(read)
  BY <1>1, <1>2, FiniteImage
<1> HIDE DEF read
<1>5. PICK p : p = [changes |-> read, cursor |-> next, last |-> last, after |-> after,
                    status |-> "stored"]
  OBVIOUS
<1>6. p \in Page /\ p.changes = read /\ p.cursor = next
  BY <1>3, <1>5 DEF Page
<1>7. page' = [page EXCEPT ![d] = p]
  BY <1>5 DEF StorePage, read
<1>8. ServerMoves /\ UNCHANGED <<state_pins, operations>>
  BY StillKeepsSpent DEF LanesInv, vars
<1>9. PagesInv'
  BY <1>3, <1>4, <1>6, <1>7, <1>8, PageStep DEF LanesInv
<1>10. StoresInv' /\ CursorsInv' /\ PinsInv'
  BY <1>8, StoresStay, CursorsStay, PinsStay DEF LanesInv
<1>11. QED
  BY <1>8, <1>9, <1>10, ReceiveStepKeeps

(* Of rows that are numbered one is not behind any other.                  *)
LEMMA FirstOfSome ==
  ASSUME NEW S, S # {}, NEW f, \A x \in S : f[x] \in Nat
  PROVE  \E x \in S : {y \in S : f[y] < f[x]} = {}
<1> DEFINE ranks == {f[x] : x \in S}
<1>1. ranks \in SUBSET Nat /\ ranks # {}
  OBVIOUS
<1> HIDE DEF ranks
<1>2. PICK n \in ranks : \A m \in ranks : n <= m
  BY <1>1, MinOfNaturals
<1>3. PICK x \in S : f[x] = n
  BY DEF ranks
<1>4. \A y \in S : f[y] \in ranks
  BY DEF ranks
<1>5. {y \in S : f[y] < f[x]} = {}
  <2>1. SUFFICES ASSUME NEW y \in S, f[y] < f[x] PROVE FALSE
    OBVIOUS
  <2>2. f[y] \in Nat /\ f[x] \in Nat /\ f[x] <= f[y]
    BY <1>2, <1>3, <1>4
  <2>3. QED
    BY <2>1, <2>2
<1>6. QED
  BY <1>5, Zenon

(* A page of the journal ends at a row or at the head.                     *)
LEMMA ReadChangesKeeps ==
  ASSUME LanesInv, NEW d \in Clients, ReadChanges(d)
  PROVE  LanesInv'
<1> DEFINE rows == ChangesAfter(cursor[d])
           keys == FirstOf(PageLimit, DOMAIN rows, LAMBDA k : rows[k].seq)
<1>1. /\ StorePage(d, {[key |-> k, stamp |-> rows[k].stamp, value |-> rows[k].value] : k \in keys},
                   NextAfter(rows, keys), FALSE, 0)
      /\ UNCHANGED <<vars, store, publication, in_flight, cursor, bootstrap>>
  BY DEF ReadChanges
<1>2. /\ DOMAIN rows \subseteq DOMAIN journal
      /\ \A k \in DOMAIN rows : rows[k] = journal[k]
  BY DEF ChangesAfter
<1>3. \A k \in DOMAIN journal :
        /\ k \in Keys /\ k \in DOMAIN units
        /\ journal[k].stamp \in Stamp /\ journal[k].value \in Value
        /\ journal[k].seq \in Nat
        /\ units[k] = VersionOf(journal[k])
         /\ journal[k].seq \in head.min_retained_seq + 1 .. head.seq
  BY DEF LanesInv, StoreInv, TypeOK, IsTable, JournalRow, JournalMirrorsLibrary
<1> HIDE DEF rows
<1>4. ASSUME NEW k \in DOMAIN rows
      PROVE  /\ k \in Keys /\ rows[k].stamp \in Stamp /\ rows[k].value \in Value
             /\ rows[k].seq \in Nat /\ rows[k].seq <= head.seq
             /\ Spent(k, rows[k])
  <2>1. /\ k \in DOMAIN journal /\ rows[k] = journal[k]
        /\ Same(units[k], rows[k])
    <3>1. k \in DOMAIN journal /\ rows[k] = journal[k]
      BY <1>2, <1>4
    <3>2. units[k] = VersionOf(journal[k])
      BY <1>3, <3>1
    <3>3. QED
      BY <3>1, <3>2 DEF VersionOf, Same
  <2>2. head.min_retained_seq \in Nat /\ head.seq \in Nat
    BY DEF LanesInv, StoreInv, TypeOK
  <2>3. rows[k].seq \in Nat /\ rows[k].seq <= head.seq
    BY <1>3, <2>1, <2>2
  <2>4. Spent(k, rows[k])
    BY <1>3, <2>1, StoredIsSpent DEF LanesInv
  <2>5. QED
    BY <1>3, <2>1, <2>3, <2>4
<1>5. keys \subseteq DOMAIN rows /\ (DOMAIN rows # {} => keys # {})
  <2> DEFINE seqs == [k \in DOMAIN rows |-> rows[k].seq]
  <2>1. \A x \in DOMAIN rows : seqs[x] \in Nat
    BY <1>4
  <2>2. keys = {x \in DOMAIN rows : Cardinality({y \in DOMAIN rows : rows[y].seq < rows[x].seq})
                                      < PageLimit}
    BY DEF FirstOf
  <2>3. \A x \in DOMAIN rows : {y \in DOMAIN rows : rows[y].seq < rows[x].seq}
                                 = {y \in DOMAIN rows : seqs[y] < seqs[x]}
    OBVIOUS
  <2> HIDE DEF seqs, keys
  <2>4. DOMAIN rows # {} =>
          \E x \in DOMAIN rows : Cardinality({y \in DOMAIN rows : seqs[y] < seqs[x]}) < PageLimit
    <3>1. PICK S : S = DOMAIN rows
      OBVIOUS
    <3>2. PICK f : f = seqs
      OBVIOUS
    <3>3. ASSUME S # {}
          PROVE  \E x \in S : Cardinality({y \in S : f[y] < f[x]}) < PageLimit
      <4>1. \A x \in S : f[x] \in Nat
        BY <2>1, <3>1, <3>2
      <4>2. PICK x \in S : {y \in S : f[y] < f[x]} = {}
        BY <3>3, <4>1, FirstOfSome
      <4>3. QED
        BY <4>2, FS_EmptySet, ClientBounds
    <3>4. QED
      BY <3>1, <3>2, <3>3
  <2>5. QED
    BY <2>2, <2>3, <2>4
<1> HIDE DEF keys
<1>6. PICK next : next = NextAfter(rows, keys)
  OBVIOUS
<1>7. next \in Nat /\ next <= head.seq
  <2>1. CASE keys = DOMAIN rows
    BY <1>6, <2>1 DEF NextAfter, LanesInv, StoreInv, TypeOK
  <2>2. CASE keys # DOMAIN rows
    <3> DEFINE seqs == {rows[k].seq : k \in keys}
    <3>1. next = Max(seqs)
      BY <1>6, <2>2 DEF NextAfter
    <3>2. seqs \in SUBSET Nat /\ seqs # {}
      BY <1>4, <1>5, <2>2
    <3>3. IsFiniteSet(seqs)
      <4> DEFINE f == [k \in keys |-> rows[k].seq]
      <4>1. DOMAIN f = keys /\ seqs = {f[k] : k \in keys}
        OBVIOUS
      <4>2. IsFiniteSet(keys)
        <5>1. keys \in SUBSET Keys
          BY <1>4, <1>5
        <5>2. QED
          BY <5>1, KeyOrderAssumption, FS_Subset
      <4> HIDE DEF f, seqs
      <4>3. QED
        BY <4>1, <4>2, FiniteImage
    <3>4. \A n \in seqs : n <= head.seq
      BY <1>4, <1>5
    <3> HIDE DEF seqs
    <3>5. Max(seqs) \in seqs
      BY <3>2, <3>3, MaxOfNaturals
    <3>6. QED
      BY <3>1, <3>2, <3>4, <3>5
  <2>3. QED
    BY <2>1, <2>2
<1>8. /\ keys \in SUBSET Keys
      /\ \A k \in keys : /\ rows[k].stamp \in Stamp /\ rows[k].value \in Value
                         /\ Spent(k, rows[k])
  BY <1>4, <1>5
<1>9. PICK versions : versions = rows
  OBVIOUS
<1>10. PICK read : read = keys
  OBVIOUS
<1>11. QED
  <2>1. PICK last \in BOOLEAN : last = FALSE
    OBVIOUS
  <2>2. PICK after \in Nat : after = 0
    OBVIOUS
  <2>3. StorePage(d, {[key |-> k, stamp |-> versions[k].stamp, value |-> versions[k].value] :
                        k \in read}, next, last, after)
    BY <1>1, <1>6, <1>9, <1>10, <2>1, <2>2
  <2>4. /\ read \in SUBSET Keys
        /\ \A k \in read : /\ versions[k].stamp \in Stamp /\ versions[k].value \in Value
                           /\ Spent(k, versions[k])
    BY <1>8, <1>9, <1>10
  <2>5. UNCHANGED <<vars, store, publication, in_flight, cursor, bootstrap>>
    BY <1>1
  <2>6. QED
    BY <1>7, <2>3, <2>4, <2>5, ReadPage

(* A page of a pin ends where the pin starts or where the device is.       *)
LEMMA ReadStatePageKeeps ==
  ASSUME LanesInv, NEW d \in Clients, ReadStatePage(d)
  PROVE  LanesInv'
<1>1. PICK pin \in Pinned(d) :
        LET left == {k \in DOMAIN pin.units : Rank(k) > bootstrap[d].after}
            keys == FirstOf(PageLimit, left, Rank)
        IN StorePage(d, {[key |-> k, stamp |-> pin.units[k].stamp, value |-> pin.units[k].
                          value] : k \in keys},
                     IF keys = left THEN pin.start_seq ELSE cursor[d], keys = left,
                     Max({Rank(k) : k \in keys} \cup {0}))
  BY DEF ReadStatePage
<1>2. PICK left : left = {k \in DOMAIN pin.units : Rank(k) > bootstrap[d].after}
  OBVIOUS
<1>3. PICK keys : keys = FirstOf(PageLimit, left, Rank)
  OBVIOUS
<1>4. PICK next : next = IF keys = left THEN pin.start_seq ELSE cursor[d]
  OBVIOUS
<1>5. PICK last : last = (keys = left)
  OBVIOUS
<1>6. PICK after : after = Max({Rank(k) : k \in keys} \cup {0})
  OBVIOUS
<1>7. PICK versions : versions = pin.units
  OBVIOUS
<1>8. StorePage(d, {[key |-> k, stamp |-> versions[k].stamp, value |-> versions[k].
                     value] : k \in keys},
                next, last, after)
  BY <1>1, <1>2, <1>3, <1>4, <1>5, <1>6, <1>7
<1>9. /\ pin \in state_pins /\ pin.start_seq \in Nat /\ pin.start_seq <= head.seq
      /\ cursor[d] \in Nat /\ cursor[d] <= head.seq
  BY DEF Pinned, LanesInv, StoreInv, TypeOK, PinsInv, CursorsInv
<1>10. \A k \in DOMAIN versions : /\ k \in Keys /\ versions[k].stamp \in Stamp
                                  /\ versions[k].value \in Value /\ Spent(k, versions[k])
  BY <1>7, <1>9 DEF LanesInv, StoreInv, TypeOK, IsTable, Version, PinsInv
<1>11. keys \subseteq DOMAIN versions
  BY <1>2, <1>3, <1>7 DEF FirstOf
<1>12. keys \in SUBSET Keys
  BY <1>10, <1>11
<1>13. after \in Nat
  <2> DEFINE f == [k \in keys |-> Rank(k)]
             ranks == {Rank(k) : k \in keys} \cup {0}
  <2>1. \A k \in Keys : Rank(k) \in Nat
    <3>1. SUFFICES ASSUME NEW k \in Keys PROVE Rank(k) \in Nat
      OBVIOUS
    <3>2. \E i \in DOMAIN KeyOrder : KeyOrder[i] = k
      BY KeyOrderAssumption
    <3>3. Rank(k) \in DOMAIN KeyOrder
      BY <3>2 DEF Rank
    <3>4. QED
      BY <3>3, KeyOrderAssumption
  <2>2. ranks \in SUBSET Nat /\ ranks # {}
    BY <1>12, <2>1
  <2>3. IsFiniteSet(keys)
    BY <1>12, KeyOrderAssumption, FS_Subset
  <2>4. DOMAIN f = keys /\ {Rank(k) : k \in keys} = {f[k] : k \in keys}
    OBVIOUS
  <2> HIDE DEF f
  <2>5. IsFiniteSet({Rank(k) : k \in keys})
    BY <2>3, <2>4, FiniteImage
  <2>6. IsFiniteSet(ranks)
    BY <2>5, FS_Singleton, FS_Union
  <2> HIDE DEF ranks
  <2>7. Max(ranks) \in Nat
    BY <2>2, <2>6, MaxOfNaturals
  <2>8. QED
    BY <1>6, <2>7 DEF ranks
<1>14. next \in Nat /\ next <= head.seq /\ last \in BOOLEAN
  BY <1>4, <1>5, <1>9
<1>15. \A k \in keys : /\ versions[k].stamp \in Stamp /\ versions[k].value \in Value
                       /\ Spent(k, versions[k])
  BY <1>10, <1>11
<1>16. UNCHANGED <<vars, store, publication, in_flight, cursor, bootstrap>>
  BY DEF ReadStatePage
<1>17. QED
  BY <1>8, <1>12, <1>13, <1>14, <1>15, <1>16, ReadPage

(* A read of the library begins with a copy of it.                         *)
LEMMA BeginStateReadKeeps ==
  ASSUME LanesInv, NEW d \in Clients, NEW answered \in BOOLEAN, BeginStateRead(d, answered)
  PROVE  LanesInv'
<1>1. d \in DeviceIds /\ CreateStatePin(d)
  BY ClientsAssumption DEF BeginStateRead
<1>2. StoreInv /\ LevelIsKnown /\ PinsInv /\ TypeOK
  BY DEF LanesInv, StoreInv
<1>3. TypeOK'
  BY <1>1, <1>2, PinTypes
<1>4. ServerMoves
  BY <1>1, <1>2, <1>3, QuietKeepsSpent DEF CreateStatePin
<1>5. next_pin \in Nat /\ head.seq \in Nat /\ head' = head /\ units' = units
  BY <1>1, <1>2 DEF TypeOK, CreateStatePin, contents
<1>6. bootstrap' \in [Clients -> StateRead \cup {None}]
  <2>1. [pin |-> next_pin, start_seq |-> head.seq, after |-> 0] \in StateRead
    BY <1>5 DEF StateRead
  <2>2. CASE answered
    BY <1>2, <2>1, <2>2 DEF BeginStateRead, PinsInv
  <2>3. CASE ~answered
    BY <1>2, <2>3 DEF BeginStateRead, PinsInv
  <2>4. QED
    BY <2>2, <2>3
<1>7. ASSUME NEW p \in state_pins' \ state_pins
      PROVE  /\ p.start_seq <= head'.seq
             /\ \A k \in DOMAIN p.units : Spent(k, p.units[k])'
  <2>1. p.start_seq = head.seq /\ p.units = units
    BY <1>1, <1>7 DEF CreateStatePin
  <2>2. \A k \in DOMAIN units : units[k].stamp \in Stamp /\ Spent(k, units[k])
    <3>1. \A k \in DOMAIN units : Same(units[k], units[k])
      BY DEF Same
    <3>2. QED
      BY <1>2, <3>1, StoredIsSpent DEF LanesInv, TypeOK, IsTable, Version
  <2>3. PICK stored : stored = units
    OBVIOUS
  <2>4. \A k \in DOMAIN stored : Spent(k, stored[k])'
    BY <1>4, <2>2, <2>3 DEF ServerMoves, StaysSpent
  <2>5. QED
    BY <1>5, <2>1, <2>3, <2>4
<1>8. PinsInv'
  BY <1>2, <1>4, <1>6, <1>7, PinsStep
<1>9. StoresInv' /\ CursorsInv' /\ PagesInv'
  BY <1>4, StoresStay, CursorsStay, PagesStay DEF LanesInv, BeginStateRead
<1>10. UNCHANGED operations
  BY <1>1 DEF CreateStatePin
<1>11. QED
  BY <1>4, <1>8, <1>9, <1>10, ReceiveStepKeeps DEF BeginStateRead

LEMMA ForgetExpiredPinKeeps ==
  ASSUME LanesInv, NEW d \in Clients, ForgetExpiredPin(d)
  PROVE  LanesInv'
<1>1. ServerMoves /\ UNCHANGED <<state_pins, operations>>
  BY StillKeepsSpent DEF LanesInv, ForgetExpiredPin, vars
<1>2. bootstrap' \in [Clients -> StateRead \cup {None}]
  BY DEF LanesInv, PinsInv, ForgetExpiredPin
<1>3. StoresInv' /\ CursorsInv' /\ PagesInv'
  BY <1>1, StoresStay, CursorsStay, PagesStay DEF LanesInv, ForgetExpiredPin
<1>4. PinsInv'
  BY <1>1, <1>2, PinsStep DEF LanesInv
<1>5. QED
  BY <1>1, <1>3, <1>4, ReceiveStepKeeps DEF ForgetExpiredPin

(* The rows a page is applied with came from the library.                  *)
LEMMA AppliedRows ==
  ASSUME LanesInv, NEW d \in Clients, page[d] # None, NEW rows,
         rows = Arrived(d) \cup Held(store[d])
  PROVE  rows \in SUBSET ReceivedRow /\ IsFiniteSet(rows) /\ SpentChanges(rows)
<1>1. PICK p : p = page[d]
  OBVIOUS
<1>2. PICK s : s = store[d]
  OBVIOUS
<1>3. p \in Page /\ IsFiniteSet(p.changes) /\ SpentChanges(p.changes)
  BY <1>1 DEF LanesInv, PagesInv
<1>4. StoreShape(s) /\ SpentChanges(s.rows)
  BY <1>2 DEF LanesInv, StoresInv, StoreIsSpent
<1>5. /\ Held(s) \in SUBSET s.rows /\ Held(s) \in SUBSET ReceivedRow
      /\ IsFiniteSet(Held(s)) /\ SpentChanges(Held(s))
  <2>1. Held(s) \in SUBSET s.rows
    BY DEF Held
  <2>2. s.rows \subseteq ReceivedRow /\ IsFiniteSet(s.rows)
    BY <1>4, RowsAreReceived DEF StoreShape
  <2>3. QED
    BY <1>4, <2>1, <2>2, FS_Subset DEF SpentChanges
<1>6. PICK staged : staged = Staged(p.changes)
  OBVIOUS
<1>7. /\ staged \in SUBSET ReceivedRow
      /\ IsFiniteSet(staged) /\ SpentChanges(staged)
  <2> DEFINE f == [c \in p.changes |-> [key |-> c.key, stamp |-> c.stamp, value |-> c.value,
                                        status |-> "staged"]]
  <2>1. DOMAIN f = p.changes /\ staged = {f[c] : c \in p.changes}
    BY <1>6 DEF Staged
  <2>2. \A c \in p.changes : f[c] \in ReceivedRow /\ f[c].key = c.key /\ Same(c, f[c])
    BY <1>3 DEF Page, Change, ReceivedRow, Same
  <2> HIDE DEF f
  <2>3. IsFiniteSet(staged)
    BY <1>3, <2>1, FiniteImage
  <2>4. staged \in SUBSET ReceivedRow /\ SpentChanges(staged)
    BY <1>3, <2>1, <2>2, SameIsSpent DEF SpentChanges
  <2>5. QED
    BY <2>3, <2>4
<1>8. PICK arrived : arrived = Arrived(d)
  OBVIOUS
<1>9. arrived \in SUBSET ReceivedRow /\ IsFiniteSet(arrived) /\ SpentChanges(arrived)
  <2>1. arrived = staged \/ arrived = {}
    BY <1>1, <1>6, <1>8 DEF Arrived
  <2>2. IsFiniteSet({}) /\ SpentChanges({})
    BY FS_EmptySet DEF SpentChanges
  <2>3. QED
    BY <1>7, <2>1, <2>2
<1>10. PICK held : held = Held(s)
  OBVIOUS
<1>11. rows = arrived \cup held
  BY <1>2, <1>8, <1>10
<1>12. IsFiniteSet(rows)
  BY <1>5, <1>9, <1>10, <1>11, FS_Union
<1>13. QED
  BY <1>5, <1>9, <1>10, <1>11, <1>12 DEF SpentChanges

(* A page moves on.                                                        *)
LEMMA PageMoves ==
  ASSUME PagesInv, ServerMoves, NEW d \in Clients, page[d] # None,
         NEW status \in {"stored", "interrupted", "applied", "finished", "acknowledged"},
         page' = [page EXCEPT ![d].status = status]
  PROVE  PagesInv'
<1>1. PICK p : p = page[d]
  OBVIOUS
<1>2. /\ p \in Page /\ IsFiniteSet(p.changes) /\ p.cursor <= head.seq
      /\ SpentChanges(p.changes)
  BY <1>1 DEF PagesInv
<1>3. PICK q : q = [p EXCEPT !.status = status]
  OBVIOUS
<1>4. q \in Page /\ q.changes = p.changes /\ q.cursor = p.cursor
  BY <1>2, <1>3 DEF Page
<1>5. page' = [page EXCEPT ![d] = q]
  BY <1>1, <1>3
<1>6. QED
  BY <1>2, <1>4, <1>5, PageStep

LEMMA ApplyPageKeeps ==
  ASSUME LanesInv, NEW d \in Clients, NEW generating \in SUBSET Generated,
         ApplyPage(d, generating)
  PROVE  LanesInv'
<1>1. ServerMoves /\ UNCHANGED <<state_pins, operations>> /\ UNCHANGED <<units, retired>>
  BY StillKeepsSpent DEF LanesInv, ApplyPage, vars, contents
<1>2. PICK s : s = store[d]
  OBVIOUS
<1>3. PICK rows : rows = Arrived(d) \cup Held(s)
  OBVIOUS
<1>4. page[d] # None /\ page[d] \in Page /\ IsFiniteSet(page[d].changes)
  BY DEF ApplyPage, LanesInv, PagesInv
<1>5. StoreShape(s) /\ rows \in SUBSET ReceivedRow /\ IsFiniteSet(rows) /\ SpentChanges(rows)
  BY <1>2, <1>3, <1>4, AppliedRows DEF LanesInv, StoresInv
<1>6. PICK applied : applied = ApplyRows(s, rows, generating)
  OBVIOUS
<1>7. StoreShape(applied) /\ Comes(s, applied, rows)
  BY <1>5, <1>6, ApplyRowsComes
<1>8. PICK changes : changes = page[d].changes
  OBVIOUS
<1>9. PICK stamps : stamps = {c.stamp : c \in changes}
  OBVIOUS
<1>10. stamps \in SUBSET Stamp /\ IsFiniteSet(stamps)
  <2>1. changes \in SUBSET Change /\ IsFiniteSet(changes)
    BY <1>4, <1>8 DEF Page
  <2>2. QED
    BY <1>9, <2>1, StampsOf
<1>11. PICK t : t = Observe(applied, stamps)
  OBVIOUS
<1>12. StoreShape(t) /\ Comes(applied, t, {})
  BY <1>7, <1>10, <1>11, ObserveComes
<1>13. Comes(s, t, rows)
  BY <1>7, <1>12 DEF Comes
<1>14. store' = [store EXCEPT ![d] = t]
  BY <1>2, <1>3, <1>6, <1>8, <1>9, <1>11 DEF ApplyPage
<1>15. StoresInv'
  BY <1>1, <1>2, <1>5, <1>12, <1>13, <1>14, StoreStep DEF LanesInv
<1>16. PagesInv'
  BY <1>1, <1>4, PageMoves DEF LanesInv, ApplyPage
<1>17. CursorsInv' /\ PinsInv'
  BY <1>1, CursorsStay, PinsStay DEF LanesInv, ApplyPage
<1>18. QED
  BY <1>1, <1>15, <1>16, <1>17, ReceiveStepKeeps DEF ApplyPage

LEMMA InterruptApplyKeeps ==
  ASSUME LanesInv, NEW d \in Clients, NEW generating \in SUBSET Generated,
         InterruptApply(d, generating)
  PROVE  LanesInv'
<1>1. ServerMoves /\ UNCHANGED <<state_pins, operations>> /\ UNCHANGED <<units, retired>>
  BY StillKeepsSpent DEF LanesInv, InterruptApply, vars, contents
<1>2. PICK s : s = store[d]
  OBVIOUS
<1>3. PICK rows : rows = Arrived(d) \cup Held(s)
  OBVIOUS
<1>4. page[d] # None
  BY DEF InterruptApply
<1>5. StoreShape(s) /\ rows \in SUBSET ReceivedRow /\ IsFiniteSet(rows) /\ SpentChanges(rows)
  BY <1>2, <1>3, <1>4, AppliedRows DEF LanesInv, StoresInv
<1>6. PICK t : t = ApplyRows(s, rows, generating)
  OBVIOUS
<1>7. StoreShape(t) /\ Comes(s, t, rows)
  BY <1>5, <1>6, ApplyRowsComes
<1>8. store' = [store EXCEPT ![d] = t]
  BY <1>2, <1>3, <1>6 DEF InterruptApply
<1>9. StoresInv'
  BY <1>1, <1>2, <1>5, <1>7, <1>8, StoreStep DEF LanesInv
<1>10. PagesInv'
  BY <1>1, <1>4, PageMoves DEF LanesInv, InterruptApply
<1>11. CursorsInv' /\ PinsInv'
  BY <1>1, CursorsStay, PinsStay DEF LanesInv, InterruptApply
<1>12. QED
  BY <1>1, <1>9, <1>10, <1>11, ReceiveStepKeeps DEF InterruptApply

LEMMA FinishPageKeeps ==
  ASSUME LanesInv, NEW d \in Clients, FinishPage(d)
  PROVE  LanesInv'
<1>1. ServerMoves /\ UNCHANGED <<state_pins, operations>> /\ UNCHANGED head
  BY StillKeepsSpent DEF LanesInv, FinishPage, vars
<1>2. page[d] # None /\ page[d] \in Page
  BY DEF FinishPage, LanesInv, PagesInv
<1>3. PICK at : at = cursor[d]
  OBVIOUS
<1>4. PICK next : next = page[d].cursor
  OBVIOUS
<1>5. at \in Nat /\ at <= head.seq /\ next \in Nat /\ next <= head.seq
  BY <1>2, <1>3, <1>4 DEF LanesInv, CursorsInv, PagesInv, Page
<1>6. Max({at, next}) \in {at, next}
  <2>1. {at, next} = {at} \cup {next} /\ IsFiniteSet({at}) /\ IsFiniteSet({next})
    BY FS_Singleton
  <2>2. IsFiniteSet({at, next})
    BY <2>1, FS_Union
  <2>3. {at, next} \in SUBSET Nat /\ {at, next} # {}
    BY <1>5
  <2>4. QED
    BY <2>2, <2>3, MaxOfNaturals
<1>7. cursor' = [cursor EXCEPT ![d] = Max({at, next})]
  BY <1>3, <1>4 DEF FinishPage
<1>8. CursorsInv'
  <2>1. PICK n : n = Max({at, next})
    OBVIOUS
  <2>2. n \in Nat /\ n <= head.seq
    BY <1>5, <1>6, <2>1
  <2>3. cursor' = [cursor EXCEPT ![d] = n]
    BY <1>7, <2>1
  <2>4. QED
    BY <1>1, <2>2, <2>3 DEF LanesInv, CursorsInv
<1>9. PagesInv'
  BY <1>1, <1>2, PageMoves DEF LanesInv, FinishPage
<1>10. StoresInv' /\ PinsInv'
  BY <1>1, StoresStay, PinsStay DEF LanesInv, FinishPage
<1>11. QED
  BY <1>1, <1>8, <1>9, <1>10, ReceiveStepKeeps DEF FinishPage

LEMMA AcknowledgePageKeeps ==
  ASSUME LanesInv, NEW d \in Clients, AcknowledgePage(d)
  PROVE  LanesInv'
<1>1. PICK p : p = page[d]
  OBVIOUS
<1>2. /\ p # None /\ p \in Page /\ IsFiniteSet(p.changes) /\ p.cursor <= head.seq
      /\ SpentChanges(p.changes)
  BY <1>1 DEF AcknowledgePage, LanesInv, PagesInv
<1>3. PICK seq : seq = p.cursor
  OBVIOUS
<1>4. d \in DeviceIds /\ Acknowledge(d, seq)
  BY <1>1, <1>3, ClientsAssumption DEF AcknowledgePage
<1>5. StoreInv /\ LevelIsKnown /\ TypeOK /\ head.seq \in Nat
  BY DEF LanesInv, StoreInv, TypeOK
<1>6. seq \in 0 .. head.seq
  BY <1>2, <1>3, <1>5 DEF Page
<1>7. TypeOK'
  BY <1>4, <1>5, <1>6, AcknowledgeTypes
<1>8. ServerMoves /\ UNCHANGED <<state_pins, operations>>
  BY <1>4, <1>5, <1>7, QuietKeepsSpent DEF Acknowledge
<1>9. PagesInv'
  <2>1. CASE p.last
    <3>1. PICK q : q = [p EXCEPT !.status = "acknowledged"]
      OBVIOUS
    <3>2. q \in Page /\ q.changes = p.changes /\ q.cursor = p.cursor
      BY <1>2, <3>1 DEF Page
    <3>3. page' = [page EXCEPT ![d] = q]
      BY <1>1, <2>1, <3>1 DEF AcknowledgePage
    <3>4. QED
      BY <1>2, <1>8, <3>2, <3>3, PageStep DEF LanesInv
  <2>2. CASE ~p.last
    <3>1. page' = [page EXCEPT ![d] = None]
      BY <1>1, <2>2 DEF AcknowledgePage
    <3>2. QED
      BY <1>8, <3>1, PageStep DEF LanesInv
  <2>3. QED
    BY <2>1, <2>2
<1>10. bootstrap' \in [Clients -> StateRead \cup {None}]
  <2>1. CASE bootstrap[d] = None
    BY <2>1 DEF AcknowledgePage, LanesInv, PinsInv
  <2>2. CASE bootstrap[d] # None
    <3>1. PICK b : b = bootstrap[d]
      OBVIOUS
    <3>2. PICK c : c = [b EXCEPT !.after = p.after]
      OBVIOUS
    <3>3. b \in StateRead
      BY <2>2, <3>1 DEF LanesInv, PinsInv
    <3>4. c \in StateRead
      BY <1>2, <3>2, <3>3 DEF StateRead, Page
    <3>5. bootstrap' = [bootstrap EXCEPT ![d] = c]
      BY <1>1, <2>2, <3>1, <3>2 DEF AcknowledgePage
    <3>6. QED
      BY <3>4, <3>5 DEF LanesInv, PinsInv
  <2>3. QED
    BY <2>1, <2>2
<1>11. PinsInv'
  BY <1>5, <1>8, <1>10, PinsStep DEF LanesInv
<1>12. StoresInv' /\ CursorsInv'
  BY <1>8, StoresStay, CursorsStay DEF LanesInv, AcknowledgePage
<1>13. QED
  BY <1>8, <1>9, <1>11, <1>12, ReceiveStepKeeps DEF AcknowledgePage

LEMMA CloseStateReadKeeps ==
  ASSUME LanesInv, NEW d \in Clients, CloseStateRead(d)
  PROVE  LanesInv'
<1>1. StoreInv /\ LevelIsKnown /\ TypeOK /\ d \in DeviceIds
  BY ClientsAssumption DEF LanesInv, StoreInv
<1>2. ServerMoves /\ UNCHANGED operations /\ state_pins' \subseteq state_pins
  <2>1. CASE \E pin \in state_pins : ReleaseStatePin(d, pin)
    <3>1. TypeOK'
      BY <1>1, <2>1, PinTypes
    <3>2. /\ UNCHANGED <<head, contents, journal>> /\ UNCHANGED operations
          /\ state_pins' \subseteq state_pins
      BY <2>1 DEF ReleaseStatePin
    <3>3. QED
      BY <1>1, <3>1, <3>2, QuietKeepsSpent
  <2>2. CASE UNCHANGED vars
    BY <1>1, <2>2, StillKeepsSpent DEF vars
  <2>3. QED
    BY <2>1, <2>2 DEF CloseStateRead
<1>3. bootstrap' \in [Clients -> StateRead \cup {None}]
  BY DEF LanesInv, PinsInv, CloseStateRead
<1>4. state_pins' \ state_pins = {}
  BY <1>2
<1>5. PinsInv'
  BY <1>1, <1>2, <1>3, <1>4, PinsStep DEF LanesInv
<1>6. PagesInv'
  BY <1>2, PageStep DEF LanesInv, CloseStateRead
<1>7. StoresInv' /\ CursorsInv'
  BY <1>2, StoresStay, CursorsStay DEF LanesInv, CloseStateRead
<1>8. QED
  BY <1>2, <1>5, <1>6, <1>7, ReceiveStepKeeps DEF CloseStateRead

------------------------------------------------------------------------------
(* What others do.                                                         *)

LEMMA LanesAreLeftAlone ==
  ASSUME LanesInv, ServerMoves, UNCHANGED lanes, state_pins' \subseteq state_pins,
         PublicationsInv', AcceptedIsSpent'
  PROVE  LanesInv'
<1>1. StoresInv' /\ CursorsInv' /\ PagesInv'
  BY StoresStay, CursorsStay, PagesStay DEF LanesInv, lanes
<1>2. PinsInv'
  BY PinsStay DEF LanesInv, lanes
<1>3. QED
  BY <1>1, <1>2 DEF LanesInv, ServerMoves

LEMMA PushElsewhereKeeps ==
  ASSUME LanesInv, NEW d \in DeviceIds \ Clients, NEW op \in OperationIds, NEW r \in Requests,
         PushElsewhere(d, op, r)
  PROVE  LanesInv'
<1>1. SentFor(d, op, r) /\ r \in Request /\ d \in DeviceIds /\ FALSE \in BOOLEAN
  BY RequestsAssumption DEF SentFor
<1>2. AcceptPush(d, op, r, FALSE) /\ UNCHANGED lanes
  BY DEF PushElsewhere
<1>3. UNCHANGED publication /\ in_flight' \subseteq in_flight
  BY <1>2 DEF lanes
<1>4. ServerMoves /\ PublicationsInv' /\ AcceptedIsSpent'
  BY <1>1, <1>2, <1>3, TakenPush
<1>5. state_pins' \subseteq state_pins
  BY <1>2 DEF AcceptPush
<1>6. QED
  BY <1>2, <1>4, <1>5, LanesAreLeftAlone

LEMMA ServerStepKeeps ==
  ASSUME LanesInv, ServerStep
  PROVE  LanesInv'
<1>1. StoreInv /\ LevelIsKnown /\ TypeOK /\ PublicationsInv /\ AcceptedIsSpent
  BY DEF LanesInv, StoreInv
<1>2. UNCHANGED lanes /\ UNCHANGED publication /\ in_flight' \subseteq in_flight
  BY DEF ServerStep, lanes
<1>3. CASE Tick \/ \E d \in DeviceIds : AddDevice(d)
  <2>1. TypeOK'
    BY <1>1, <1>3, NextTypes DEF Next
  <2>2. UNCHANGED <<head, contents, journal>> /\ UNCHANGED <<operations, state_pins>>
    BY <1>3 DEF Tick, AddDevice
  <2>3. ServerMoves
    BY <1>1, <2>1, <2>2, QuietKeepsSpent
  <2>4. PublicationsInv' /\ AcceptedIsSpent'
    BY <1>1, <1>2, <2>2, <2>3, PublicationsGoOn, AnswersStep
  <2>5. QED
    BY <1>2, <2>2, <2>3, <2>4, LanesAreLeftAlone
<1>4. ASSUME NEW holding, Maintain(holding)
      PROVE  LanesInv'
  <2>1. ServerMoves
    BY <1>1, <1>4, MaintainKeepsSpent
  <2>2. /\ \A id \in DOMAIN operations' :
             id \in DOMAIN operations /\ operations'[id] = operations[id]
        /\ state_pins' \subseteq state_pins
    BY <1>4 DEF Maintain, RemainingPins
  <2>3. PublicationsInv' /\ AcceptedIsSpent'
    BY <1>1, <1>2, <2>1, <2>2, PublicationsGoOn, AnswersStep
  <2>4. QED
    BY <1>2, <2>1, <2>2, <2>3, LanesAreLeftAlone
<1>5. QED
  BY <1>3, <1>4 DEF ServerStep

------------------------------------------------------------------------------
(* The theorems.                                                           *)

LEMMA InitLanes == SystemInit => LanesInv
<1> SUFFICES ASSUME SystemInit PROVE LanesInv
  OBVIOUS
<1>1. StoreInv
  BY InitStoreInv DEF SystemInit
<1>2. LevelIsKnown /\ AcceptedIsSpent
  BY DEF SystemInit, Init, LevelIsKnown, AcceptedIsSpent
<1>3. StoreShape(EmptyStore) /\ StoreIsSpent(EmptyStore)
  <2>1. /\ EmptyStore.units = << >> /\ DOMAIN EmptyStore.units = {}
        /\ EmptyStore.retired = {} /\ EmptyStore.outbox = {}
        /\ EmptyStore.rows = {} /\ EmptyStore.intents = {}
        /\ EmptyStore.issued = NoStamp /\ EmptyStore.accepted = NoStamp
        /\ DOMAIN EmptyStore = StoreFields
    BY DEF EmptyStore, StoreFields
  <2>2. IsTable(EmptyStore.units, Keys, Version)
    BY <2>1 DEF IsTable
  <2>3. QED
    BY <2>1, <2>2, FS_EmptySet DEF StoreShape, StoreIsSpent, SpentChanges
<1>4. StoresInv
  BY <1>3 DEF SystemInit, LanesInit, StoresInv
<1>5. CursorsInv /\ PagesInv /\ PinsInv /\ PublicationsInv
  BY DEF SystemInit, LanesInit, Init, CursorsInv, PagesInv, PinsInv, PublicationsInv
<1>6. QED
  BY <1>1, <1>2, <1>4, <1>5 DEF LanesInv

LEMMA NextLanes == LanesInv /\ [InterruptedNext]_systemVars => LanesInv'
<1> SUFFICES ASSUME LanesInv, [InterruptedNext]_systemVars PROVE LanesInv'
  OBVIOUS
<1>1. ASSUME NEW d \in Clients, SendStep(d)
      PROVE  LanesInv'
  BY <1>1, PublishKeeps, LearnOutcomeKeeps, CancelPublicationKeeps, AcknowledgePublicationKeeps
     DEF SendStep
<1>2. ASSUME NEW d \in Clients, ReceiveStep(d)
      PROVE  LanesInv'
  BY <1>2, ReadChangesKeeps, BeginStateReadKeeps, ReadStatePageKeeps, ForgetExpiredPinKeeps,
     ApplyPageKeeps, DrainKeeps, FinishPageKeeps, AcknowledgePageKeeps, CloseStateReadKeeps
     DEF ReceiveStep
<1>3. CASE SystemNext
  BY <1>1, <1>2, <1>3, EditKeeps, RetryUnpublishedKeeps, DeliverPushKeeps, LosePushKeeps,
     PushElsewhereKeeps, ServerStepKeeps DEF SystemNext
<1>4. CASE UNCHANGED systemVars
  <2>1. UNCHANGED <<vars, publication, in_flight, cursor, bootstrap, page>> /\ UNCHANGED store
    BY <1>4 DEF systemVars, lanes
  <2>2. StoresInv'
    BY <2>1, StillKeepsSpent, StoresStay DEF LanesInv
  <2>3. QED
    BY <2>1, <2>2, OwnStep
<1>5. QED
  BY <1>3, <1>4, InterruptEditKeeps, RecoverIntentsKeeps, InterruptApplyKeeps DEF InterruptedNext

(* The lanes of every device agree with the server's store, whatever is     *)
(* edited, lost, sent late, cancelled, expired or interrupted between two   *)
(* transactions of push_through, receive_page and lww_apply_receive.        *)
THEOREM LanesInvariance == InterruptedSpec => []LanesInv
BY InitLanes, NextLanes, PTL DEF InterruptedSpec

(* A system whose processes never stop half way is one of them.            *)
LEMMA SystemIsInterrupted == SystemSpec => InterruptedSpec
<1>1. [SystemNext]_systemVars => [InterruptedNext]_systemVars
  BY DEF InterruptedNext
<1>2. QED
  BY <1>1, PTL DEF SystemSpec, InterruptedSpec

(* put_unit, lww_apply_receive, lww_ack_outbox and the clock of stamp.rs    *)
(* leave every device a store of units, an outbox of units it holds and a   *)
(* cursor the server's head has reached.                                   *)
THEOREM SystemTypeCorrect == InterruptedSpec \/ SystemSpec => []SystemTypeOK
<1>1. LanesInv => SystemTypeOK
  <2>1. SUFFICES ASSUME LanesInv PROVE SystemTypeOK
    OBVIOUS
  <2>2. TypeOK /\ head.seq \in Nat
    BY <2>1 DEF LanesInv, StoreInv, TypeOK
  <2>3. \A d \in Clients : cursor[d] \in 0 .. head.seq
    BY <2>1, <2>2 DEF LanesInv, CursorsInv
  <2>4. \A d \in Clients : StoreShape(store[d])
    BY <2>1 DEF LanesInv, StoresInv
  <2>5. QED
    BY <2>2, <2>3, <2>4 DEF SystemTypeOK, StoreShape
<1>2. QED
  BY <1>1, LanesInvariance, SystemIsInterrupted, PTL

(* A change leaves a device's outbox only when lww_ack_outbox or            *)
(* witness_received has seen the library accept it, or when it is below a   *)
(* retirement the library has: none is dropped by a lost answer, a          *)
(* cancelled push, a later edit or a process that stopped.                  *)
THEOREM NoChangeForgotten == InterruptedSpec \/ SystemSpec => []NoChangeIsForgotten
<1>1. LanesInv => NoChangeIsForgotten
  <2>1. SUFFICES ASSUME LanesInv, NEW d \in Clients,
                        NEW k \in DOMAIN store[d].units \ store[d].outbox,
                        k \notin retired, Parents(k) \cap retired = {}
                 PROVE  k \in DOMAIN units /\ ~StampLess(units[k].stamp, store[d].units[k].stamp)
    BY DEF NoChangeIsForgotten
  <2>2. PICK v : v = store[d].units[k]
    OBVIOUS
  <2>3. Spent(k, v) /\ v.stamp \in Stamp
    BY <2>1, <2>2 DEF LanesInv, StoresInv, StoreIsSpent, StoreShape, IsTable, Version
  <2>4. k \in DOMAIN units /\ (StampLess(v.stamp, units[k].stamp) \/ v.stamp = units[k].stamp)
    BY <2>1, <2>3 DEF Spent, Same
  <2>5. units[k].stamp \in Stamp
    BY <2>1, <2>4 DEF LanesInv, StoreInv, TypeOK, IsTable, Version
  <2>6. QED
    BY <2>2, <2>3, <2>4, <2>5, StampOrder
<1>2. QED
  BY <1>1, LanesInvariance, SystemIsInterrupted, PTL

------------------------------------------------------------------------------
(* What was given up.                                                      *)

(* A push that is under way is not outlived by its operation's receipt,     *)
(* which the server keeps for its retention.                               *)
ReceiptsOutliveTheirPushes ==
  \A id \in DOMAIN operations \ DOMAIN operations' : \A m \in in_flight : <<m.device, m.op>> # id
PushesArriveInTime == [][ReceiptsOutliveTheirPushes]_systemVars

(* The answers that are new, the pushes that are new, and the publications  *)
(* that are given up.                                                      *)
AnsweredOnArrival ==
  /\ \A id \in DOMAIN operations \cap DOMAIN operations' : operations'[id] = operations[id]
  /\ \A id \in DOMAIN operations' \ DOMAIN operations :
       operations'[id].outcome = "accepted" /\ id[1] \in Clients =>
         \E m \in in_flight : m.device = id[1] /\ m.op = id[2]
SentOpen ==
  \A m \in in_flight' \ in_flight : publication'[m.device].receipt = "none"
GivenUpWhenAnswered ==
  \A d \in Clients :
      publication'[d] # None /\ publication'[d].receipt \in {"rejected", "cancelled"} =>
    /\ publication[d] # None /\ publication'[d].op = publication[d].op
    /\ \/ publication[d].receipt = publication'[d].receipt
       \/ /\ <<d, publication[d].op>> \in DOMAIN operations'
          /\ operations'[<<d, publication[d].op>>].outcome # "accepted"

LEMMA GivenUpStep ==
  ASSUME LanesInv, GivenUpIsAnswered, ReceiptsOutliveTheirPushes,
         AnsweredOnArrival, SentOpen, GivenUpWhenAnswered
  PROVE  GivenUpIsAnswered'
<1>1. SUFFICES ASSUME NEW d \in Clients, publication'[d] # None,
                      publication'[d].receipt \in {"rejected", "cancelled"}
               PROVE  IF <<d, publication'[d].op>> \in DOMAIN operations'
                      THEN operations'[<<d, publication'[d].op>>].outcome # "accepted"
                      ELSE \A m \in in_flight' : m.device = d => m.op # publication'[d].op
  BY DEF GivenUpIsAnswered, Answered
<1>2. PICK op : op = publication[d].op
  OBVIOUS
<1>3. /\ publication[d] # None /\ publication'[d].op = op
      /\ \/ publication[d].receipt \in {"rejected", "cancelled"}
         \/ <<d, op>> \in DOMAIN operations' /\ operations'[<<d, op>>].outcome # "accepted"
  BY <1>1, <1>2 DEF GivenUpWhenAnswered
<1>4. \A m \in in_flight' : m.device = d => m \in in_flight
  BY <1>1 DEF SentOpen
<1>5. CASE publication[d].receipt \in {"rejected", "cancelled"}
  <2>1. IF <<d, op>> \in DOMAIN operations
        THEN operations[<<d, op>>].outcome # "accepted"
        ELSE \A m \in in_flight : m.device = d => m.op # op
    BY <1>2, <1>3, <1>5 DEF GivenUpIsAnswered, Answered
  <2>2. CASE <<d, op>> \in DOMAIN operations
    <3>1. <<d, op>> \in DOMAIN operations' => operations'[<<d, op>>] = operations[<<d, op>>]
      BY <2>2 DEF AnsweredOnArrival
    <3>2. <<d, op>> \notin DOMAIN operations' => \A m \in in_flight : m.device = d => m.op # op
      BY <2>2 DEF ReceiptsOutliveTheirPushes
    <3>3. QED
      BY <1>3, <1>4, <2>1, <2>2, <3>1, <3>2
  <2>3. CASE <<d, op>> \notin DOMAIN operations
    <3>1. \A m \in in_flight : m.device = d => m.op # op
      BY <2>1, <2>3
    <3>2. <<d, op>> \in DOMAIN operations' => operations'[<<d, op>>].outcome # "accepted"
      <4>1. PICK id : id = <<d, op>>
        OBVIOUS
      <4>2. id \in DOMAIN operations' => operations'[id].outcome # "accepted"
        <5>1. id[1] = d /\ id[2] = op
          BY <4>1
        <5>2. id \notin DOMAIN operations
          BY <2>3, <4>1
        <5>3. QED
          BY <3>1, <5>1, <5>2 DEF AnsweredOnArrival
      <4>3. QED
        BY <4>1, <4>2
    <3>3. QED
      BY <1>3, <1>4, <3>1, <3>2
  <2>4. QED
    BY <2>2, <2>3
<1>6. QED
  BY <1>3, <1>5

(* Steps that change no answer, send nothing and give nothing up.          *)
LEMMA NothingGivenUp ==
  ASSUME UNCHANGED <<operations, publication, in_flight>>
  PROVE  AnsweredOnArrival /\ SentOpen /\ GivenUpWhenAnswered
BY DEF AnsweredOnArrival, SentOpen, GivenUpWhenAnswered

(* The one answer a server's step gives.                                   *)
LEMMA OneAnswer ==
  ASSUME NEW d, NEW op, ~Answered(d, op), NEW receipt, SaveOperation(d, op, receipt),
         receipt.outcome = "accepted" /\ d \in Clients =>
           \E m \in in_flight : m.device = d /\ m.op = op
  PROVE  AnsweredOnArrival
<1>1. ASSUME NEW id \in DOMAIN operations \cap DOMAIN operations'
      PROVE  operations'[id] = operations[id]
  BY SavedAnswer DEF Answered
<1>2. ASSUME NEW id \in DOMAIN operations' \ DOMAIN operations
      PROVE  id = <<d, op>> /\ operations'[id] = receipt
  BY SavedAnswer
<1>3. QED
  BY <1>1, <1>2 DEF AnsweredOnArrival

LEMMA PublishGivesNothingUp ==
  ASSUME LanesInv, NEW d \in Clients, NEW generating \in SUBSET Generated, Publish(d, generating)
  PROVE  AnsweredOnArrival /\ SentOpen /\ GivenUpWhenAnswered
<1>1. PICK op, request :
        /\ Prepare(d, op, request)
        /\ in_flight' = in_flight \cup {[device |-> d, op |-> op, request |-> request]}
  BY DEF Publish
<1>2. UNCHANGED operations
  BY DEF Publish, vars
<1>3. PICK p : p = [op |-> op, request |-> request, receipt |-> "none"]
  OBVIOUS
<1>4. publication' = [publication EXCEPT ![d] = p] /\ p.receipt = "none"
  BY <1>1, <1>3 DEF Prepare
<1>5. /\ publication'[d] = p
      /\ \A e \in Clients : e # d => publication'[e] = publication[e]
  BY <1>4 DEF LanesInv, PublicationsInv
<1>6. \A m \in in_flight' \ in_flight : m.device = d
  BY <1>1
<1>7. QED
  BY <1>2, <1>4, <1>5, <1>6 DEF AnsweredOnArrival, SentOpen, GivenUpWhenAnswered

LEMMA DeliverPushGivesNothingUp ==
  ASSUME LanesInv, NEW m \in in_flight, DeliverPush(m)
  PROVE  AnsweredOnArrival /\ SentOpen /\ GivenUpWhenAnswered
<1>1. SentOpen /\ GivenUpWhenAnswered
  BY DEF DeliverPush, SentOpen, GivenUpWhenAnswered
<1>2. PICK d, op : d = m.device /\ op = m.op
  OBVIOUS
<1>3. \E x \in in_flight : x.device = d /\ x.op = op
  BY <1>2
<1>4. CASE AcceptPush(m.device, m.op, m.request, FALSE) \/
               RefusePush(m.device, m.op, m.request, FALSE, TRUE)
  <2>1. \E receipt : SaveOperation(d, op, receipt)
    BY <1>2, <1>4 DEF AcceptPush, RefusePush
  <2>2. ~Answered(d, op)
    BY <1>2, <1>4 DEF AcceptPush, RefusePush, CanPush
  <2>3. QED
    BY <1>1, <1>3, <2>1, <2>2, OneAnswer
<1>5. CASE UNCHANGED vars
  BY <1>1, <1>5 DEF vars, AnsweredOnArrival
<1>6. QED
  BY <1>4, <1>5 DEF DeliverPush

LEMMA LearnOutcomeGivesUpWhatIsAnswered ==
  ASSUME LanesInv, NEW d \in Clients, LearnOutcome(d)
  PROVE  AnsweredOnArrival /\ SentOpen /\ GivenUpWhenAnswered
<1>1. PICK outcome : outcome = operations[<<d, publication[d].op>>].outcome
  OBVIOUS
<1>2. /\ publication[d] # None /\ <<d, publication[d].op>> \in DOMAIN operations
      /\ publication' = [publication EXCEPT ![d].receipt = outcome]
      /\ UNCHANGED <<operations, in_flight>>
  BY <1>1 DEF LearnOutcome, Open, Answered, Finish, vars
<1>3. publication[d] \in Publication
  BY <1>2 DEF LanesInv, PublicationsInv
<1>4. /\ publication'[d].receipt = outcome /\ publication'[d].op = publication[d].op
      /\ \A e \in Clients : e # d => publication'[e] = publication[e]
  BY <1>2, <1>3 DEF LanesInv, PublicationsInv, Publication
<1>5. outcome \in {"rejected", "cancelled"} =>
                  operations'[<<d, publication[d].op>>].outcome # "accepted"
  BY <1>1, <1>2
<1>6. GivenUpWhenAnswered
  BY <1>2, <1>4, <1>5 DEF GivenUpWhenAnswered
<1>7. QED
  BY <1>2, <1>6 DEF AnsweredOnArrival, SentOpen

LEMMA CancelPublicationGivesUpWhatIsAnswered ==
  ASSUME LanesInv, NEW d \in Clients, NEW answered \in BOOLEAN, CancelPublication(d, answered)
  PROVE  AnsweredOnArrival /\ SentOpen /\ GivenUpWhenAnswered
<1>1. PICK op : op = publication[d].op
  OBVIOUS
<1>2. PICK receipt : SaveOperation(d, op, receipt) /\ receipt.outcome = "cancelled"
  BY <1>1 DEF CancelPublication, CancelOperation
<1>3. ~Answered(d, op) /\ publication[d] # None /\ UNCHANGED in_flight
  BY <1>1 DEF CancelPublication, CancelOperation, Open
<1>4. AnsweredOnArrival
  BY <1>2, <1>3, OneAnswer
<1>5. <<d, op>> \in DOMAIN operations' /\ operations'[<<d, op>>].outcome # "accepted"
  BY <1>2 DEF SaveOperation
<1>6. /\ publication'[d] # None => publication'[d].op = op
      /\ \A e \in Clients : e # d => publication'[e] = publication[e]
  <2>1. CASE answered
    <3>1. publication' = [publication EXCEPT ![d].receipt = "cancelled"]
      BY <2>1 DEF CancelPublication, Finish
    <3>2. publication[d] \in Publication
      BY <1>3 DEF LanesInv, PublicationsInv
    <3>3. QED
      BY <1>1, <3>1, <3>2 DEF LanesInv, PublicationsInv, Publication
  <2>2. CASE ~answered
    BY <1>1, <2>2 DEF CancelPublication
  <2>3. QED
    BY <2>1, <2>2
<1>7. GivenUpWhenAnswered
  BY <1>1, <1>3, <1>5, <1>6 DEF GivenUpWhenAnswered
<1>8. QED
  BY <1>3, <1>4, <1>7 DEF SentOpen

LEMMA NextGivesUpWhatIsAnswered ==
  ASSUME LanesInv, [InterruptedNext]_systemVars
  PROVE  AnsweredOnArrival /\ SentOpen /\ GivenUpWhenAnswered
<1> DEFINE Goal == AnsweredOnArrival /\ SentOpen /\ GivenUpWhenAnswered
<1>1. ASSUME NEW d \in Clients, SendStep(d)
      PROVE  Goal
  <2>1. ASSUME NEW logged \in BOOLEAN, AcknowledgePublication(d, logged)
        PROVE  Goal
    <3>1. \A e \in Clients : publication'[e] # None => publication'[e] = publication[e]
      BY <2>1 DEF AcknowledgePublication, LanesInv, PublicationsInv
    <3>2. UNCHANGED <<operations, in_flight>>
      BY <2>1 DEF AcknowledgePublication, vars
    <3>3. QED
      BY <3>1, <3>2 DEF AnsweredOnArrival, SentOpen, GivenUpWhenAnswered
  <2>2. QED
    BY <1>1, <2>1, PublishGivesNothingUp, LearnOutcomeGivesUpWhatIsAnswered,
       CancelPublicationGivesUpWhatIsAnswered DEF SendStep
<1>2. ASSUME NEW d \in Clients, ReceiveStep(d)
      PROVE  Goal
  <2>1. UNCHANGED <<operations, publication, in_flight>>
    BY <1>2 DEF ReceiveStep, ReadChanges, BeginStateRead, CreateStatePin, ReadStatePage,
       ForgetExpiredPin, ApplyPage, Drain, FinishPage, AcknowledgePage, Acknowledge,
       CloseStateRead, ReleaseStatePin, vars
  <2>2. QED
    BY <2>1, NothingGivenUp
<1>3. ASSUME NEW d \in Clients,
             \/ \E commit \in Commits, wall \in 0 .. MaxWall :
                  Edit(d, commit, wall) \/ InterruptEdit(d, commit, wall)
             \/ \E corrected \in 0 .. MaxWall : RetryUnpublished(d, corrected)
             \/ RecoverIntents(d)
             \/ \E generating \in SUBSET Generated : InterruptApply(d, generating)
      PROVE  Goal
  <2>1. UNCHANGED <<operations, publication, in_flight>>
    BY <1>3 DEF Edit, InterruptEdit, RetryUnpublished, RecoverIntents, InterruptApply, vars
  <2>2. QED
    BY <2>1, NothingGivenUp
<1>4. ASSUME NEW m \in in_flight, LosePush(m)
      PROVE  Goal
  BY <1>4 DEF LosePush, vars, AnsweredOnArrival, SentOpen, GivenUpWhenAnswered
<1>5. ASSUME NEW d \in DeviceIds \ Clients, NEW op \in OperationIds, NEW r \in Requests,
             PushElsewhere(d, op, r)
      PROVE  Goal
  <2>1. UNCHANGED <<publication, in_flight>>
    BY <1>5 DEF PushElsewhere, lanes
  <2>2. (\E receipt : SaveOperation(d, op, receipt)) /\ ~Answered(d, op)
    BY <1>5 DEF PushElsewhere, AcceptPush, CanPush
  <2>3. AnsweredOnArrival
    BY <2>2, OneAnswer
  <2>4. QED
    BY <2>1, <2>3 DEF SentOpen, GivenUpWhenAnswered
<1>6. CASE ServerStep
  <2>1. /\ \A id \in DOMAIN operations' : id \in DOMAIN operations /\ operations'[id] =
              operations[id]
        /\ UNCHANGED <<publication, in_flight>>
    BY <1>6 DEF ServerStep, AddDevice, Maintain, Tick, lanes
  <2>2. QED
    BY <2>1 DEF AnsweredOnArrival, SentOpen, GivenUpWhenAnswered
<1>7. CASE UNCHANGED systemVars
  <2>1. UNCHANGED <<operations, publication, in_flight>>
    BY <1>7 DEF systemVars, vars, lanes
  <2>2. QED
    BY <2>1, NothingGivenUp
<1> HIDE DEF Goal
<1>8. CASE SystemNext
  BY <1>1, <1>2, <1>3, <1>4, <1>5, <1>6, <1>8, DeliverPushGivesNothingUp DEF SystemNext, Goal
<1>9. Goal
  BY <1>3, <1>7, <1>8 DEF InterruptedNext, Goal
<1>10. QED
  BY <1>9 DEF Goal

(* settle gives an operation up only with an answer of the server that it   *)
(* is not accepted, and a push that arrives later finds that answer, as     *)
(* long as the receipt is kept until the push has arrived or is lost.       *)
THEOREM GivenUpStaysUnpublished ==
  (InterruptedSpec \/ SystemSpec) /\ PushesArriveInTime => []GivenUpMeansUnpublished
<1>1. SystemInit => GivenUpIsAnswered
  BY DEF SystemInit, LanesInit, GivenUpIsAnswered
<1>2. /\ LanesInv /\ GivenUpIsAnswered
      /\ [InterruptedNext]_systemVars /\ [ReceiptsOutliveTheirPushes]_systemVars
      => GivenUpIsAnswered'
  <2>1. SUFFICES ASSUME LanesInv, GivenUpIsAnswered, [InterruptedNext]_systemVars,
                        [ReceiptsOutliveTheirPushes]_systemVars
                 PROVE  GivenUpIsAnswered'
    OBVIOUS
  <2>2. ReceiptsOutliveTheirPushes
    BY <2>1 DEF ReceiptsOutliveTheirPushes, systemVars, vars
  <2>3. QED
    BY <2>1, <2>2, NextGivesUpWhatIsAnswered, GivenUpStep
<1>3. GivenUpIsAnswered => GivenUpMeansUnpublished
  BY DEF GivenUpIsAnswered, GivenUpMeansUnpublished
<1>4. QED
  BY <1>1, <1>2, <1>3, LanesInvariance, SystemIsInterrupted, PTL
     DEF InterruptedSpec, PushesArriveInTime

------------------------------------------------------------------------------
(* The clocks of the devices.                                              *)

(* A device has seen a stamp when it has issued or accepted one that is     *)
(* not below it: the next stamp it issues is above.                         *)
SeenBy(s, stamp) == \E seen \in Seen(s) : ~StampLess(seen, stamp)

(* A device has seen whatever its units and its waiting rows bear, and an   *)
(* intent that is fresh is not older than any unit.                         *)
ClockInv(s) ==
  /\ \A k \in DOMAIN s.units : SeenBy(s, s.units[k].stamp)
  /\ \A r \in s.rows : SeenBy(s, r.stamp)
  /\ \A i \in s.intents :
       /\ i.stamp = s.issued
       /\ i.fresh => \A k \in DOMAIN s.units : ~StampLess(i.stamp, s.units[k].stamp)
ClocksInv == \A d \in Clients : ClockInv(store[d])

(* A version is replaced by a later one or by the deletion of its record.  *)
UnitsAdvance(s, t) ==
  \A k \in DOMAIN s.units \cap DOMAIN t.units :
    ~StampLess(t.units[k].stamp, s.units[k].stamp) \/ t.units[k].value = Deleted

LEMMA NotBelow ==
  ASSUME NEW r \in Stamp, NEW s \in Stamp, NEW t \in Stamp,
         ~StampLess(s, r), ~StampLess(t, s)
  PROVE  ~StampLess(t, r)
BY StampsAreTotal, StampOrder

LEMMA StampsOfStore ==
  ASSUME NEW s, StoreShape(s)
  PROVE  /\ \A k \in DOMAIN s.units : s.units[k].stamp \in Stamp
         /\ \A r \in s.rows : r.stamp \in Stamp
<1>1. \A r \in s.rows : r.stamp \in Stamp
  BY DEF StoreShape, Row
<1>2. IsTable(s.units, Keys, Version)
  BY DEF StoreShape
<1>3. ASSUME NEW k \in DOMAIN s.units
      PROVE  s.units[k].stamp \in Stamp
  <2>1. s.units[k] \in Version
    BY <1>2, TableRow
  <2>2. QED
    BY <2>1 DEF Version
<1>4. QED
  BY <1>1, <1>3

(* What was seen stays seen when the device's stamps do not go back.       *)
LEMMA SeenStays ==
  ASSUME NEW s, StoreShape(s), NEW t, StoreShape(t),
         \A old \in Seen(s) : SeenBy(t, old),
         NEW stamp \in Stamp, SeenBy(s, stamp)
  PROVE  SeenBy(t, stamp)
<1>1. Seen(s) \subseteq Stamp /\ Seen(t) \subseteq Stamp
  BY DEF Seen, StoreShape
<1>2. PICK old \in Seen(s) : ~StampLess(old, stamp)
  BY DEF SeenBy
<1>3. PICK seen \in Seen(t) : ~StampLess(seen, old)
  BY DEF SeenBy
<1>4. QED
  BY <1>1, <1>2, <1>3, NotBelow DEF SeenBy

(* Nothing but the stamps seen changes.                                    *)
LEMMA ClockStays ==
  ASSUME NEW s, StoreShape(s), ClockInv(s), NEW t, StoreShape(t),
         t.units = s.units, t.rows = s.rows, t.intents = s.intents, t.issued = s.issued,
         \A old \in Seen(s) : SeenBy(t, old)
  PROVE  ClockInv(t) /\ UnitsAdvance(s, t)
<1>1. /\ \A k \in DOMAIN s.units : s.units[k].stamp \in Stamp
      /\ \A r \in s.rows : r.stamp \in Stamp
  BY StampsOfStore
<1>2. ClockInv(t)
  BY <1>1, SeenStays DEF ClockInv
<1>3. UnitsAdvance(s, t)
  BY <1>1, StampOrder DEF UnitsAdvance
<1>4. QED
  BY <1>2, <1>3

(* Observing does not take back what was accepted, and sees what it         *)
(* observes.                                                               *)
LEMMA ObserveSees ==
  ASSUME NEW s, StoreShape(s), NEW stamps \in SUBSET Stamp, IsFiniteSet(stamps),
         NEW t, t = Observe(s, stamps)
  PROVE  /\ t.units = s.units /\ t.retired = s.retired /\ t.outbox = s.outbox
         /\ t.rows = s.rows /\ t.intents = s.intents /\ t.issued = s.issued
         /\ \A old \in Seen(s) \cup stamps : SeenBy(t, old)
<1> DEFINE known == stamps \cup ({s.accepted} \ {NoStamp})
<1>1. \/ known = {} /\ t = s
      \/ known # {} /\ t = [s EXCEPT !.accepted = Greatest(known)]
  BY DEF Observe
<1>2. known \in SUBSET Stamp /\ Seen(s) \subseteq Stamp
  BY DEF StoreShape, Seen
<1>3. IsFiniteSet(known)
  <2>1. IsFiniteSet({s.accepted}) /\ {s.accepted} \ {NoStamp} \in SUBSET {s.accepted}
    BY FS_Singleton
  <2>2. IsFiniteSet({s.accepted} \ {NoStamp})
    BY <2>1, FS_Subset
  <2>3. QED
    BY <2>2, FS_Union
<1>4. stamps \subseteq known /\ Seen(s) \subseteq known \cup ({s.issued} \ {NoStamp})
  BY DEF Seen
<1> HIDE DEF known
<1>5. CASE known = {} /\ t = s
  <2>1. stamps = {}
    BY <1>4, <1>5
  <2>2. QED
    BY <1>2, <1>5, <2>1, StampOrder DEF SeenBy
<1>6. CASE known # {} /\ t = [s EXCEPT !.accepted = Greatest(known)]
  <2> DEFINE g == Greatest(known)
  <2>1. g \in Stamp /\ \A x \in known : g = x \/ StampLess(x, g)
    BY <1>2, <1>3, <1>6, GreatestIsAbove
  <2>2. /\ t.units = s.units /\ t.retired = s.retired /\ t.outbox = s.outbox
        /\ t.rows = s.rows /\ t.intents = s.intents /\ t.issued = s.issued
        /\ t.accepted = g
    BY <1>6 DEF StoreShape, StoreFields
  <2> HIDE DEF g
  <2>3. g \in Seen(t) /\ {s.issued} \ {NoStamp} \subseteq Seen(t)
    BY <2>1, <2>2, NoStampAssumption DEF Seen
  <2>4. ASSUME NEW old \in known
        PROVE  SeenBy(t, old)
    BY <1>2, <2>1, <2>3, StampOrder DEF SeenBy
  <2>5. ASSUME NEW old \in Seen(s) \ known
        PROVE  SeenBy(t, old)
    <3>1. old \in Seen(t) /\ old \in Stamp
      BY <1>2, <1>4, <2>3
    <3>2. QED
      BY <3>1, StampOrder DEF SeenBy
  <2>6. QED
    BY <1>4, <2>2, <2>4, <2>5
<1>7. QED
  BY <1>1, <1>5, <1>6

LEMMA PutUnitsVersions ==
  ASSUME NEW s, StoreShape(s), NEW versions, NEW to_publish, NEW t,
         t = PutUnits(s, versions, to_publish)
  PROVE  /\ t.rows \subseteq s.rows
         /\ t.intents = s.intents /\ t.issued = s.issued
         /\ \A k \in DOMAIN t.units :
              \/ k \in DOMAIN s.units /\ t.units[k] = s.units[k]
              \/ k \in DOMAIN versions /\ t.units[k] = versions[k]
<1>1. /\ DOMAIN t = StoreFields
      /\ t.units = [k \in DOMAIN t.units |-> t.units[k]]
      /\ DOMAIN t.units = (DOMAIN s.units \ Swept(versions)) \cup PutsOf(versions)
      /\ \A k \in PutsOf(versions) : t.units[k] = versions[k]
      /\ \A k \in DOMAIN t.units \ PutsOf(versions) : t.units[k] = s.units[k]
      /\ t.rows \subseteq s.rows
      /\ t.intents = s.intents /\ t.issued = s.issued
  BY PutUnitsFields
<1>2. PutsOf(versions) \subseteq DOMAIN versions
  BY DEF PutsOf
<1>3. QED
  BY <1>1, <1>2

(* The store before its units are put: with the stamp written down.         *)
IsStamped(s, issued, stamp) ==
  /\ StoreShape(issued) /\ issued.issued = stamp
  /\ issued.units = s.units /\ issued.rows = s.rows
  /\ issued.intents = s.intents /\ issued.accepted = s.accepted

LEMMA StampWritten ==
  ASSUME NEW s, StoreShape(s), NEW stamp \in Stamp,
         NEW issued, issued = [s EXCEPT !.issued = stamp]
  PROVE  IsStamped(s, issued, stamp)
<1>1. DOMAIN s = StoreFields
  BY DEF StoreShape
<1>2. StoreShape(issued)
  BY StoreExcept
<1>3. QED
  BY <1>1, <1>2 DEF StoreFields, IsStamped

(* What is put is under the stamp that is issued, above all that was seen.  *)
LEMMA PutStamped ==
  ASSUME NEW s, StoreShape(s), NEW stamp \in Stamp, NEW versions, NEW to_publish,
         \A k \in DOMAIN versions : versions[k].stamp = stamp,
         NEW issued, IsStamped(s, issued, stamp),
         NEW t, t = PutUnits(issued, versions, to_publish), StoreShape(t),
         \A k \in DOMAIN s.units : ~StampLess(stamp, s.units[k].stamp),
         \A old \in Seen(s) : SeenBy(t, old), ClockInv(s), s.intents = {}
  PROVE  ClockInv(t) /\ UnitsAdvance(s, t)
<1>1. /\ StoreShape(issued)
      /\ issued.units = s.units /\ issued.rows = s.rows
      /\ issued.intents = s.intents /\ issued.issued = stamp
  BY DEF IsStamped
<1>2. /\ t.rows \subseteq issued.rows
      /\ t.intents = issued.intents /\ t.issued = issued.issued
      /\ \A k \in DOMAIN t.units :
           \/ k \in DOMAIN issued.units /\ t.units[k] = issued.units[k]
           \/ k \in DOMAIN versions /\ t.units[k] = versions[k]
  BY <1>1, PutUnitsVersions
<1>3. /\ t.rows \subseteq s.rows /\ t.intents = {} /\ t.issued = stamp
      /\ \A k \in DOMAIN t.units :
           \/ k \in DOMAIN s.units /\ t.units[k] = s.units[k]
           \/ t.units[k].stamp = stamp
  BY <1>1, <1>2
<1>4. /\ \A k \in DOMAIN s.units : s.units[k].stamp \in Stamp
      /\ \A r \in s.rows : r.stamp \in Stamp
  BY StampsOfStore
<1>5. SeenBy(t, stamp)
  BY <1>3, StampOrder, NoStampAssumption DEF SeenBy, Seen
<1>6. ClockInv(t)
  <2>1. ASSUME NEW k \in DOMAIN t.units
        PROVE  SeenBy(t, t.units[k].stamp)
    BY <1>3, <1>4, <1>5, SeenStays DEF ClockInv
  <2>2. ASSUME NEW r \in t.rows
        PROVE  SeenBy(t, r.stamp)
    BY <1>3, <1>4, SeenStays DEF ClockInv
  <2>3. QED
    BY <1>3, <2>1, <2>2 DEF ClockInv
<1>7. UnitsAdvance(s, t)
  BY <1>3, <1>4, StampOrder DEF UnitsAdvance
<1>8. QED
  BY <1>6, <1>7

(* What rows may do to the units of a device: those of the given keys are   *)
(* replaced by later versions or deleted, or appear where no parent is      *)
(* retired; what leaves lies below a retired parent.                        *)
Overtakes(s, t, keys) ==
  /\ s.retired \subseteq t.retired
  /\ \A k \in DOMAIN s.units \ DOMAIN t.units : Parents(k) \cap t.retired # {}
  /\ \A k \in DOMAIN t.units :
       \/ k \in DOMAIN s.units /\ t.units[k] = s.units[k]
       \/ k \in keys /\ t.units[k].value = Deleted
       \/ k \in keys /\ k \in DOMAIN s.units /\ ~StampLess(t.units[k].stamp, s.units[k].stamp)
       \/ k \in keys /\ k \notin DOMAIN s.units /\ Parents(k) \cap s.retired = {}

(* And what they may do to its clock: the versions are those of the rows,   *)
(* and an intent stays fresh only where no unit has changed.               *)
Receives(s, t, rows) ==
  /\ t.issued = s.issued /\ t.accepted = s.accepted
  /\ \A k \in DOMAIN t.units :
       \/ k \in DOMAIN s.units /\ t.units[k] = s.units[k]
       \/ \E r \in rows : r.stamp = t.units[k].stamp
  /\ \A w \in t.rows : w \in s.rows \/ \E r \in rows : r.stamp = w.stamp
  /\ \A i \in t.intents : i.stamp \in {j.stamp : j \in s.intents} /\ (i.fresh =>
       i \in s.intents /\ \A k \in DOMAIN t.units :
                            k \in DOMAIN s.units /\ t.units[k] = s.units[k])

LEMMA OvertakesMore ==
  ASSUME NEW s, NEW t, NEW u, NEW a, NEW b, a \cap b = {},
         Overtakes(s, t, a), Overtakes(t, u, b)
  PROVE  Overtakes(s, u, a \cup b)
<1>1. s.retired \subseteq u.retired
  BY DEF Overtakes
<1>2. ASSUME NEW k \in DOMAIN s.units \ DOMAIN u.units
      PROVE  Parents(k) \cap u.retired # {}
  BY DEF Overtakes
<1>3. ASSUME NEW k \in DOMAIN u.units, k \in b, ~(k \in DOMAIN t.units /\ u.units[k] = t.units[k])
      PROVE  \/ u.units[k].value = Deleted
             \/ k \in DOMAIN s.units /\ ~StampLess(u.units[k].stamp, s.units[k].stamp)
             \/ k \notin DOMAIN s.units /\ Parents(k) \cap s.retired = {}
  <2>1. k \notin a
    BY <1>3
  <2>2. CASE k \in DOMAIN t.units
    <3>1. k \in DOMAIN s.units /\ t.units[k] = s.units[k]
      BY <2>1, <2>2 DEF Overtakes
    <3>2. QED
      BY <1>3, <2>2, <3>1 DEF Overtakes
  <2>3. CASE k \notin DOMAIN t.units
    <3>1. u.units[k].value = Deleted \/ Parents(k) \cap t.retired = {}
      BY <1>3, <2>3 DEF Overtakes
    <3>2. Parents(k) \cap t.retired = {} => Parents(k) \cap s.retired = {}
      BY DEF Overtakes
    <3>3. Parents(k) \cap t.retired = {} => k \notin DOMAIN s.units
      BY <2>3 DEF Overtakes
    <3>4. QED
      BY <3>1, <3>2, <3>3
  <2>4. QED
    BY <2>2, <2>3
<1>4. ASSUME NEW k \in DOMAIN u.units
      PROVE  \/ k \in DOMAIN s.units /\ u.units[k] = s.units[k]
             \/ k \in a \cup b /\ u.units[k].value = Deleted
             \/ /\ k \in a \cup b /\ k \in DOMAIN s.units
                /\ ~StampLess(u.units[k].stamp, s.units[k].stamp)
             \/ k \in a \cup b /\ k \notin DOMAIN s.units /\ Parents(k) \cap s.retired = {}
  <2>1. CASE k \in DOMAIN t.units /\ u.units[k] = t.units[k]
    BY <2>1 DEF Overtakes
  <2>2. CASE ~(k \in DOMAIN t.units /\ u.units[k] = t.units[k])
    <3>1. k \in b
      BY <2>2 DEF Overtakes
    <3>2. QED
      BY <1>3, <2>2, <3>1
  <2>3. QED
    BY <2>1, <2>2
<1>5. QED
  BY <1>1, <1>2, <1>4 DEF Overtakes

LEMMA ReceivesMore ==
  ASSUME NEW s, NEW t, NEW u, NEW rows, Receives(s, t, rows), Receives(t, u, rows)
  PROVE  Receives(s, u, rows)
<1>1. u.issued = s.issued /\ u.accepted = s.accepted
  BY DEF Receives
<1>2. ASSUME NEW k \in DOMAIN u.units
      PROVE  \/ k \in DOMAIN s.units /\ u.units[k] = s.units[k]
             \/ \E r \in rows : r.stamp = u.units[k].stamp
  BY DEF Receives
<1>3. ASSUME NEW w \in u.rows
      PROVE  w \in s.rows \/ \E r \in rows : r.stamp = w.stamp
  BY DEF Receives
<1>4. ASSUME NEW i \in u.intents
      PROVE  /\ i.stamp \in {j.stamp : j \in s.intents}
             /\ i.fresh => i \in s.intents /\ \A k \in DOMAIN u.units :
                             k \in DOMAIN s.units /\ u.units[k] = s.units[k]
  <2>1. PICK j \in t.intents : i.stamp = j.stamp
    BY DEF Receives
  <2>2. i.stamp \in {x.stamp : x \in s.intents}
    BY <2>1 DEF Receives
  <2>3. ASSUME i.fresh
        PROVE  i \in s.intents /\ \A k \in DOMAIN u.units :
                 k \in DOMAIN s.units /\ u.units[k] = s.units[k]
    <3>1. i \in t.intents /\ \A k \in DOMAIN u.units :
            k \in DOMAIN t.units /\ u.units[k] = t.units[k]
      BY <2>3 DEF Receives
    <3>2. i \in s.intents /\ \A k \in DOMAIN t.units :
            k \in DOMAIN s.units /\ t.units[k] = s.units[k]
      BY <2>3, <3>1 DEF Receives
    <3>3. QED
      BY <3>1, <3>2
  <2>4. QED
    BY <2>2, <2>3
<1>5. QED
  BY <1>1, <1>2, <1>3, <1>4 DEF Receives

(* A parent lies in an earlier layer.                                      *)
LEMMA ParentsComeFirst ==
  ASSUME NEW k, NEW p \in Parents(k)
  PROVE  Layer(p) < Layer(k) /\ Layer(p) # Layer(k)
<1>1. p[1] = "exists"
  BY DEF Parents
<1>2. CASE k[1] # "exists"
  BY <1>1, <1>2 DEF Layer
<1>3. CASE k[1] = "exists"
  <2>1. p = <<"exists", "character", k[3]>>
    BY <1>3 DEF Parents
  <2>2. Parents(p) = {}
    BY <2>1 DEF Parents
  <2>3. QED
    BY <1>1, <1>3, <2>2 DEF Layer
<1>4. QED
  BY <1>2, <1>3

(* A layer, with what wins in it.                                          *)
LEMMA LayerOvertakes ==
  ASSUME NEW s, StoreShape(s), NEW rows \in SUBSET ReceivedRow, IsFiniteSet(rows), NEW generating,
         NEW layer, \A r \in rows : Layer(r.key) = layer,
         NEW t, t = ApplyLayer(s, rows, generating)
  PROVE  Overtakes(s, t, {r.key : r \in rows}) /\ Receives(s, t, rows)
<1>1. CASE rows = {}
  <2>1. t = s
    BY <1>1, Zenon DEF ApplyLayer
  <2>2. QED
    BY <2>1 DEF Overtakes, Receives
<1>2. CASE rows # {}
  <2> DEFINE settled == SettledOf(s, rows, generating)
             winners == WinnersOf(s, rows, generating)
             versions == VersionsWon(winners)
             nothing == {}
             put == PutUnits(s, versions, nothing)
             waiting == WaitingOf(s, rows, generating)
             mid == [put EXCEPT !.rows = (@ \ rows) \cup waiting,
                                !.intents = IntentsAfter(s, rows, generating)]
  <2>1. t = WitnessReceived(mid, settled)
    BY <1>2, LayerParts
  <2>2. winners \in SUBSET rows /\ winners \in SUBSET ReceivedRow /\ winners \subseteq settled
    BY DEF WinnersOf, SettledOf
  <2>3. IsFiniteSet(winners)
    BY <2>2, FS_Subset
  <2>4. /\ IsTable(versions, Keys, Version) /\ DOMAIN versions = {r.key : r \in winners}
        /\ \A k \in DOMAIN versions :
             \E r \in winners : r.key = k /\ versions[k] = VersionOf(r)
    <3> HIDE DEF winners
    <3>1. QED
      BY <2>2, <2>3, WonVersions
  <2>5. \A r \in winners : /\ r \in rows /\ Overwrites(s, r)
                           /\ ParentStatus(s, r.key) = "retired" => IsRetirement(r)
    BY DEF WinnersOf, SettledOf
  <2>6. /\ winners # {} => Affects(s, settled)
        /\ IntentsAfter(s, rows, generating) =
             IF Affects(s, settled) THEN Stale(s.intents) ELSE s.intents
    BY DEF WinnersOf, Affects, IntentsAfter
  <2> HIDE DEF versions, winners, settled
  <2>7. ASSUME NEW k \in DOMAIN versions
        PROVE  \E r \in rows :
                 /\ r.key = k /\ versions[k].stamp = r.stamp /\ versions[k].value = r.value
                 /\ Overwrites(s, r)
                 /\ ParentStatus(s, k) = "retired" => IsRetirement(r)
    <3>1. PICK r \in winners : r.key = k /\ versions[k] = VersionOf(r)
      BY <2>4
    <3>2. versions[k].stamp = r.stamp /\ versions[k].value = r.value
      BY <3>1 DEF VersionOf
    <3>3. QED
      BY <2>5, <3>1, <3>2
  <2>8. /\ DOMAIN put = StoreFields
        /\ put.units = [k \in DOMAIN put.units |-> put.units[k]]
        /\ DOMAIN put.units = (DOMAIN s.units \ Swept(versions)) \cup PutsOf(versions)
        /\ \A k \in PutsOf(versions) : put.units[k] = versions[k]
        /\ \A k \in DOMAIN put.units \ PutsOf(versions) : put.units[k] = s.units[k]
        /\ put.retired = s.retired \cup (RetiringIn(versions) \cap PutsOf(versions))
        /\ put.rows \subseteq s.rows
        /\ put.intents = s.intents /\ put.issued = s.issued /\ put.accepted = s.accepted
    BY PutUnitsFields
  <2>9. PutsOf(versions) = DOMAIN versions \ Swept(versions)
    BY DEF PutsOf
  <2>10. RetiringIn(versions) \subseteq PutsOf(versions)
    <3>1. ASSUME NEW k \in RetiringIn(versions), k \in Swept(versions)
          PROVE  FALSE
      <4>1. PICK p \in Parents(k) : p \in RetiringIn(versions)
        BY <3>1 DEF Swept, Below
      <4>2. k \in DOMAIN versions /\ p \in DOMAIN versions
        BY <4>1 DEF RetiringIn
      <4>3. Layer(k) = layer /\ Layer(p) = layer
        BY <2>7, <4>2
      <4>4. QED
        BY <4>1, <4>3, ParentsComeFirst
    <3>2. QED
      BY <2>9, <3>1 DEF RetiringIn
  <2>11. \A w \in waiting : \E r \in rows : r.stamp = w.stamp
    BY WaitingRows
  <2> HIDE DEF put
  <2>12. /\ DOMAIN mid = StoreFields /\ mid.units = put.units /\ mid.retired = put.retired
         /\ mid.issued = put.issued /\ mid.accepted = put.accepted
         /\ mid.rows = (put.rows \ rows) \cup waiting
         /\ mid.intents = IntentsAfter(s, rows, generating)
    BY <2>8 DEF StoreFields
  <2> HIDE DEF mid, waiting
  <2>13. /\ t.units = put.units /\ t.retired = put.retired
         /\ t.issued = s.issued /\ t.accepted = s.accepted
         /\ t.rows = (put.rows \ rows) \cup waiting
         /\ t.intents = IntentsAfter(s, rows, generating)
    BY <2>1, <2>8, <2>12 DEF WitnessReceived, StoreFields
  <2>14. ASSUME NEW k \in DOMAIN s.units \ DOMAIN t.units
         PROVE  Parents(k) \cap t.retired # {}
    <3>1. k \in Swept(versions)
      BY <2>8, <2>13, <2>14
    <3>2. Parents(k) \cap RetiringIn(versions) # {}
      BY <3>1 DEF Swept, Below
    <3>3. QED
      BY <2>8, <2>10, <2>13, <3>2
  <2>15. ASSUME NEW k \in DOMAIN versions, k \in PutsOf(versions)
         PROVE  /\ k \in {r.key : r \in rows}
                /\ \E r \in rows : r.stamp = versions[k].stamp
                /\ \/ versions[k].value = Deleted
                   \/ k \in DOMAIN s.units /\ ~StampLess(versions[k].stamp, s.units[k].stamp)
                   \/ k \notin DOMAIN s.units /\ Parents(k) \cap s.retired = {}
    <3>1. PICK r \in rows : /\ r.key = k /\ versions[k].stamp = r.stamp
                            /\ versions[k].value = r.value /\ Overwrites(s, r)
                            /\ ParentStatus(s, k) = "retired" => IsRetirement(r)
      BY <2>7
    <3>2. CASE IsRetirement(r)
      BY <3>1, <3>2 DEF IsRetirement
    <3>3. CASE ~IsRetirement(r) /\ k \in DOMAIN s.units
      <4>1. StampLess(s.units[k].stamp, r.stamp)
        BY <3>1, <3>3 DEF Overwrites, ApplyRemote
      <4>2. r.stamp \in Stamp /\ s.units[k].stamp \in Stamp
        BY <3>3, StampsOfStore DEF ReceivedRow
      <4>3. QED
        BY <3>1, <3>3, <4>1, <4>2, StampOrder
    <3>4. CASE ~IsRetirement(r) /\ k \notin DOMAIN s.units
      <4>1. ParentStatus(s, k) # "retired"
        BY <3>1, <3>4
      <4>2. Parents(k) \cap s.retired = {}
        BY <4>1 DEF ParentStatus
      <4>3. QED
        BY <3>1, <3>4, <4>2
    <3>5. QED
      BY <3>2, <3>3, <3>4
  <2>16. ASSUME NEW k \in DOMAIN t.units
         PROVE  \/ k \in DOMAIN s.units /\ t.units[k] = s.units[k]
                \/ k \in DOMAIN versions /\ k \in PutsOf(versions) /\ t.units[k] = versions[k]
    BY <2>8, <2>9, <2>13
  <2>17. Overtakes(s, t, {r.key : r \in rows})
    BY <2>8, <2>13, <2>14, <2>15, <2>16 DEF Overtakes
  <2>18. ASSUME NEW i \in t.intents
         PROVE  /\ i.stamp \in {j.stamp : j \in s.intents}
                /\ i.fresh => i \in s.intents /\ \A k \in DOMAIN t.units :
                     k \in DOMAIN s.units /\ t.units[k] = s.units[k]
    <3>1. CASE Affects(s, settled)
      <4>1. PICK j \in s.intents : i = [j EXCEPT !.fresh = FALSE]
        BY <2>6, <2>13, <2>18, <3>1 DEF Stale
      <4>2. IntentShape(j)
        BY DEF StoreShape
      <4>3. i.stamp = j.stamp /\ i.fresh = FALSE
        BY <4>1, <4>2 DEF IntentShape
      <4>4. QED
        BY <4>3
    <3>2. CASE ~Affects(s, settled)
      <4>1. DOMAIN versions = {}
        BY <2>4, <2>6, <3>2
      <4>2. \A k \in DOMAIN t.units : k \in DOMAIN s.units /\ t.units[k] = s.units[k]
        BY <2>16, <4>1
      <4>3. i \in s.intents
        BY <2>6, <2>13, <2>18, <3>2
      <4>4. QED
        BY <4>2, <4>3
    <3>3. QED
      BY <3>1, <3>2
  <2>19. Receives(s, t, rows)
    BY <2>8, <2>11, <2>13, <2>15, <2>16, <2>18 DEF Receives
  <2>20. QED
    BY <2>17, <2>19
<1>3. QED
  BY <1>1, <1>2

(* A page, layer by layer.                                                 *)
LEMMA RowsOvertake ==
  ASSUME NEW s, StoreShape(s), NEW rows \in SUBSET ReceivedRow, IsFiniteSet(rows), NEW generating,
         NEW t, t = ApplyRows(s, rows, generating)
  PROVE  StoreShape(t) /\ UnitsAdvance(s, t) /\ Receives(s, t, rows)
<1> DEFINE one == ApplyLayer(s, LayerOf(rows, 1), generating)
           two == ApplyLayer(one, LayerOf(rows, 2), generating)
           KeysOf(i) == {r.key : r \in LayerOf(rows, i)}
<1>1. ASSUME NEW i \in {1, 2, 3}
      PROVE  /\ LayerOf(rows, i) \in SUBSET rows /\ LayerOf(rows, i) \in SUBSET ReceivedRow
             /\ IsFiniteSet(LayerOf(rows, i)) /\ \A r \in LayerOf(rows, i) : Layer(r.key) = i
  <2>1. LayerOf(rows, i) \in SUBSET rows /\ \A r \in LayerOf(rows, i) : Layer(r.key) = i
    BY DEF LayerOf
  <2>2. QED
    BY <2>1, FS_Subset
<1>2. t = ApplyLayer(two, LayerOf(rows, 3), generating)
  BY DEF ApplyRows, LayerOf
<1>3. /\ KeysOf(1) \cap KeysOf(2) = {}
      /\ (KeysOf(1) \cup KeysOf(2)) \cap KeysOf(3) = {}
  BY <1>1
<1>4. /\ StoreShape(one) /\ Overtakes(s, one, KeysOf(1))
      /\ Receives(s, one, rows)
  <2>1. /\ StoreShape(one) /\ Overtakes(s, one, KeysOf(1))
        /\ Receives(s, one, LayerOf(rows, 1))
    BY <1>1, ApplyLayerComes, LayerOvertakes
  <2>2. QED
    BY <1>1, <2>1 DEF Receives
<1> HIDE DEF one
<1>5. /\ StoreShape(two) /\ Overtakes(one, two, KeysOf(2))
      /\ Receives(one, two, rows)
  <2>1. /\ StoreShape(two) /\ Overtakes(one, two, KeysOf(2))
        /\ Receives(one, two, LayerOf(rows, 2))
    BY <1>1, <1>4, ApplyLayerComes, LayerOvertakes
  <2>2. QED
    BY <1>1, <2>1 DEF Receives
<1> HIDE DEF two
<1>6. /\ StoreShape(t) /\ Overtakes(two, t, KeysOf(3))
      /\ Receives(two, t, rows)
  <2>1. /\ StoreShape(t) /\ Overtakes(two, t, KeysOf(3))
        /\ Receives(two, t, LayerOf(rows, 3))
    BY <1>1, <1>2, <1>5, ApplyLayerComes, LayerOvertakes
  <2>2. QED
    BY <1>1, <2>1 DEF Receives
<1>7. Receives(s, t, rows)
  BY <1>4, <1>5, <1>6, ReceivesMore
<1> HIDE DEF KeysOf
<1>8. Overtakes(s, two, KeysOf(1) \cup KeysOf(2))
  BY <1>3, <1>4, <1>5, OvertakesMore
<1>9. Overtakes(s, t, (KeysOf(1) \cup KeysOf(2)) \cup KeysOf(3))
  BY <1>3, <1>6, <1>8, OvertakesMore
<1>10. UnitsAdvance(s, t)
  <2>1. \A k \in DOMAIN s.units : s.units[k].stamp \in Stamp
    BY StampsOfStore
  <2>2. QED
    BY <1>9, <2>1, StampOrder DEF Overtakes, UnitsAdvance
<1>11. QED
  BY <1>6, <1>7, <1>10

(* What is received is seen once the page's stamps are observed.           *)
LEMMA ClockReceives ==
  ASSUME NEW s, StoreShape(s), ClockInv(s), NEW rows, NEW t, StoreShape(t), Receives(s, t, rows),
         NEW u, StoreShape(u), u.units = t.units, u.rows = t.rows, u.intents = t.intents,
         u.issued = t.issued,
         \A old \in Seen(s) : SeenBy(u, old),
         \A r \in rows : SeenBy(u, r.stamp)
  PROVE  ClockInv(u)
<1>1. /\ \A k \in DOMAIN s.units : s.units[k].stamp \in Stamp
      /\ \A r \in s.rows : r.stamp \in Stamp
  BY StampsOfStore
<1>2. ASSUME NEW k \in DOMAIN u.units
      PROVE  SeenBy(u, u.units[k].stamp)
  <2>1. CASE k \in DOMAIN s.units /\ t.units[k] = s.units[k]
    BY <1>1, <2>1, SeenStays DEF ClockInv
  <2>2. CASE \E r \in rows : r.stamp = t.units[k].stamp
    BY <2>2
  <2>3. QED
    BY <2>1, <2>2 DEF Receives
<1>3. ASSUME NEW w \in u.rows
      PROVE  SeenBy(u, w.stamp)
  <2>1. CASE w \in s.rows
    BY <1>1, <2>1, SeenStays DEF ClockInv
  <2>2. CASE \E r \in rows : r.stamp = w.stamp
    BY <2>2
  <2>3. QED
    BY <2>1, <2>2 DEF Receives
<1>4. ASSUME NEW i \in u.intents
      PROVE  /\ i.stamp = u.issued
             /\ i.fresh => \A k \in DOMAIN u.units : ~StampLess(i.stamp, u.units[k].stamp)
  <2>1. i.stamp \in {j.stamp : j \in s.intents} /\ u.issued = s.issued
    BY DEF Receives
  <2>2. i.stamp = u.issued
    BY <2>1 DEF ClockInv
  <2>3. i.fresh => i \in s.intents /\ \A k \in DOMAIN u.units :
                     k \in DOMAIN s.units /\ u.units[k] = s.units[k]
    BY DEF Receives
  <2>4. QED
    BY <2>2, <2>3 DEF ClockInv
<1>5. QED
  BY <1>2, <1>3, <1>4 DEF ClockInv

(* An operation on one store that keeps its clock and advances its units.  *)
AllAdvance == \A d \in Clients : UnitsAdvance(store[d], store'[d])

LEMMA ClockStep ==
  ASSUME LanesInv, ClocksInv, NEW d \in Clients, NEW t, store' = [store EXCEPT ![d] = t],
         ClockInv(t), UnitsAdvance(store[d], t)
  PROVE  ClocksInv' /\ AllAdvance
<1>1. \A e \in Clients : store'[e] = IF e = d THEN t ELSE store[e]
  BY DEF LanesInv, StoresInv
<1>2. ASSUME NEW e \in Clients, e # d
      PROVE  UnitsAdvance(store[e], store'[e])
  <2>1. PICK s : s = store[e]
    OBVIOUS
  <2>2. StoreShape(s)
    BY <2>1 DEF LanesInv, StoresInv
  <2>3. UnitsAdvance(s, s)
    BY <2>2, StampsOfStore, StampOrder DEF UnitsAdvance
  <2>4. QED
    BY <1>1, <1>2, <2>1, <2>3
<1>3. ASSUME NEW e \in Clients
      PROVE  ClockInv(store'[e])
  BY <1>1 DEF ClocksInv
<1>4. AllAdvance
  BY <1>1, <1>2 DEF AllAdvance
<1>5. ClocksInv'
  BY <1>3 DEF ClocksInv, ClockInv, SeenBy, Seen
<1>6. QED
  BY <1>4, <1>5

LEMMA ClocksStay ==
  ASSUME LanesInv, ClocksInv, UNCHANGED store
  PROVE  ClocksInv' /\ AllAdvance
<1>1. ASSUME NEW e \in Clients
      PROVE  UnitsAdvance(store[e], store'[e])
  <2>1. PICK s : s = store[e]
    OBVIOUS
  <2>2. StoreShape(s)
    BY <2>1 DEF LanesInv, StoresInv
  <2>3. UnitsAdvance(s, s)
    BY <2>2, StampsOfStore, StampOrder DEF UnitsAdvance
  <2>4. QED
    BY <2>1, <2>3
<1>2. ClocksInv'
  BY DEF ClocksInv, ClockInv, SeenBy, Seen
<1>3. QED
  BY <1>1, <1>2 DEF AllAdvance

LEMMA DrainAdvances ==
  ASSUME LanesInv, ClocksInv, NEW d \in Clients, NEW generating \in SUBSET Generated,
         Drain(d, generating)
  PROVE  ClocksInv' /\ AllAdvance
<1>1. PICK s : s = store[d]
  OBVIOUS
<1>2. StoreShape(s) /\ ClockInv(s)
  BY <1>1 DEF LanesInv, StoresInv, ClocksInv
<1>3. PICK rows : rows = s.rows
  OBVIOUS
<1>4. rows \in SUBSET ReceivedRow /\ IsFiniteSet(rows)
  BY <1>2, <1>3, RowsAreReceived DEF StoreShape
<1>5. PICK t : t = ApplyRows(s, rows, generating)
  OBVIOUS
<1>6. StoreShape(t) /\ UnitsAdvance(s, t) /\ Receives(s, t, rows)
  BY <1>2, <1>4, <1>5, RowsOvertake
<1>7. Seen(t) = Seen(s)
  BY <1>6 DEF Receives, Seen
<1>8. Seen(s) \subseteq Stamp
  BY <1>2 DEF Seen, StoreShape
<1>9. \A old \in Seen(s) : SeenBy(t, old)
  BY <1>7, <1>8, StampOrder DEF SeenBy
<1>10. \A r \in rows : SeenBy(t, r.stamp)
  BY <1>2, <1>3, <1>7 DEF ClockInv, SeenBy
<1>11. ClockInv(t)
  BY <1>2, <1>6, <1>9, <1>10, ClockReceives
<1>12. store' = [store EXCEPT ![d] = t]
  BY <1>1, <1>3, <1>5 DEF Drain
<1>13. QED
  BY <1>1, <1>6, <1>11, <1>12, ClockStep

LEMMA ApplyPageAdvances ==
  ASSUME LanesInv, ClocksInv, NEW d \in Clients, NEW generating \in SUBSET Generated,
         ApplyPage(d, generating), page[d].status # "interrupted"
  PROVE  ClocksInv' /\ AllAdvance
<1>1. PICK s : s = store[d]
  OBVIOUS
<1>2. PICK rows : rows = Arrived(d) \cup Held(s)
  OBVIOUS
<1>3. PICK changes : changes = page[d].changes
  OBVIOUS
<1>4. page[d] # None /\ changes \in SUBSET Change /\ IsFiniteSet(changes)
  BY <1>3 DEF ApplyPage, LanesInv, PagesInv, Page
<1>5. /\ StoreShape(s) /\ ClockInv(s)
      /\ rows \in SUBSET ReceivedRow /\ IsFiniteSet(rows)
  BY <1>1, <1>2, <1>4, AppliedRows DEF LanesInv, StoresInv, ClocksInv
<1>6. PICK stamps : stamps = {c.stamp : c \in changes}
  OBVIOUS
<1>7. stamps \in SUBSET Stamp /\ IsFiniteSet(stamps)
  BY <1>4, <1>6, StampsOf
<1>8. \A r \in rows : r.stamp \in stamps \/ r \in s.rows
  <2>1. Arrived(d) = Staged(changes)
    BY <1>3 DEF ApplyPage, Arrived
  <2>2. \A r \in Staged(changes) : r.stamp \in stamps
    BY <1>6 DEF Staged
  <2>3. QED
    BY <1>2, <2>1, <2>2 DEF Held
<1>9. PICK applied : applied = ApplyRows(s, rows, generating)
  OBVIOUS
<1>10. /\ StoreShape(applied) /\ UnitsAdvance(s, applied)
       /\ Receives(s, applied, rows)
  BY <1>5, <1>9, RowsOvertake
<1>11. PICK t : t = Observe(applied, stamps)
  OBVIOUS
<1>12. /\ StoreShape(t) /\ t.units = applied.units
       /\ t.rows = applied.rows /\ t.intents = applied.intents
       /\ t.issued = applied.issued
       /\ \A old \in Seen(applied) \cup stamps : SeenBy(t, old)
  BY <1>7, <1>10, <1>11, ObserveComes, ObserveSees
<1>13. \A old \in Seen(s) : SeenBy(t, old)
  <2>1. Seen(applied) = Seen(s)
    BY <1>10 DEF Receives, Seen
  <2>2. QED
    BY <1>12, <2>1
<1>14. \A r \in rows : SeenBy(t, r.stamp)
  <2>1. \A r \in s.rows : SeenBy(t, r.stamp)
    BY <1>5, <1>12, <1>13, SeenStays, StampsOfStore DEF ClockInv
  <2>2. QED
    BY <1>8, <1>12, <2>1
<1>15. ClockInv(t)
  BY <1>5, <1>10, <1>12, <1>13, <1>14, ClockReceives
<1>16. UnitsAdvance(s, t)
  BY <1>10, <1>12 DEF UnitsAdvance
<1>17. store' = [store EXCEPT ![d] = t]
  BY <1>1, <1>2, <1>3, <1>6, <1>9, <1>11 DEF ApplyPage
<1>18. QED
  BY <1>1, <1>15, <1>16, <1>17, ClockStep

(* issue_stamp comes above all that was seen, that of a retry above all     *)
(* that was accepted.                                                      *)
LEMMA IssuedOverSeen ==
  ASSUME NEW s, StoreShape(s), NEW d \in Clients, NEW wall \in 0 .. MaxWall,
         NEW stamp, stamp = IssueStamp(wall, WriterOf[d], Seen(s))
  PROVE  stamp \in Stamp /\ \A old \in Seen(s) : ~StampLess(stamp, old)
<1>1. wall \in Nat /\ WriterOf[d] \in Writers
  BY ClientBounds, ClientsAssumption
<1>2. Seen(s) \in SUBSET Stamp /\ IsFiniteSet(Seen(s))
  BY <1>1, SeenStamps
<1>3. stamp \in Stamp /\ \A old \in Seen(s) : StampLess(old, stamp)
  BY <1>1, <1>2, IssuedIsAbove
<1>4. QED
  BY <1>2, <1>3, StampOrder

LEMMA IssuedOverAccepted ==
  ASSUME NEW s, StoreShape(s), NEW d \in Clients, NEW wall \in 0 .. MaxWall,
         NEW stamp, stamp = NewStamp(s, wall, WriterOf[d])
  PROVE  stamp \in Stamp /\ (s.accepted # NoStamp => ~StampLess(stamp, s.accepted))
<1>1. wall \in Nat /\ WriterOf[d] \in Writers
  BY ClientBounds, ClientsAssumption
<1>2. PICK seen : seen = {s.accepted} \ {NoStamp}
  OBVIOUS
<1>3. seen \in SUBSET Stamp /\ IsFiniteSet(seen)
  <2>1. seen \in SUBSET {s.accepted} /\ IsFiniteSet({s.accepted})
    BY <1>2, FS_Singleton
  <2>2. QED
    BY <1>2, <2>1, FS_Subset DEF StoreShape
<1>4. stamp = IssueStamp(wall, WriterOf[d], seen)
  BY <1>2 DEF NewStamp
<1>5. stamp \in Stamp /\ \A old \in seen : StampLess(old, stamp)
  BY <1>1, <1>3, <1>4, IssuedIsAbove
<1>6. QED
  BY <1>2, <1>3, <1>5, StampOrder

(* What is issued above all that was seen is above every unit and row.     *)
LEMMA StampedAbove ==
  ASSUME NEW s, StoreShape(s), ClockInv(s), NEW stamp \in Stamp,
         \A old \in Seen(s) : ~StampLess(stamp, old)
  PROVE  \A k \in DOMAIN s.units : ~StampLess(stamp, s.units[k].stamp)
<1>1. Seen(s) \subseteq Stamp
  BY DEF Seen, StoreShape
<1>2. ASSUME NEW k \in DOMAIN s.units
      PROVE  ~StampLess(stamp, s.units[k].stamp)
  <2>1. PICK old \in Seen(s) : ~StampLess(old, s.units[k].stamp)
    BY DEF ClockInv, SeenBy
  <2>2. s.units[k].stamp \in Stamp
    BY StampsOfStore
  <2>3. QED
    BY <1>1, <2>1, <2>2, NotBelow
<1>3. QED
  BY <1>2

(* A device whose issued stamp does not go back has seen what it had seen.  *)
LEMMA IssuedSees ==
  ASSUME NEW s, StoreShape(s), NEW stamp \in Stamp,
         s.issued # NoStamp => ~StampLess(stamp, s.issued),
         NEW t, t.issued = stamp, t.accepted = s.accepted
  PROVE  \A old \in Seen(s) : SeenBy(t, old)
<1>1. Seen(s) \subseteq Stamp
  BY DEF Seen, StoreShape
<1>2. ASSUME NEW old \in Seen(s)
      PROVE  SeenBy(t, old)
  <2>1. CASE old = s.issued
    BY <1>2, <2>1, NoStampAssumption DEF Seen, SeenBy
  <2>2. CASE old = s.accepted
    <3>1. old \in Seen(t)
      BY <1>2, <2>2 DEF Seen
    <3>2. QED
      BY <1>1, <3>1, StampOrder DEF SeenBy
  <2>3. QED
    BY <2>1, <2>2 DEF Seen
<1>3. QED
  BY <1>2

(* Units put under one stamp, not below any unit nor the stamp issued last. *)
LEMMA PutAdvances ==
  ASSUME NEW s, StoreShape(s), ClockInv(s), s.intents = {}, NEW stamp \in Stamp,
         s.issued # NoStamp => ~StampLess(stamp, s.issued),
         \A k \in DOMAIN s.units : ~StampLess(stamp, s.units[k].stamp),
         NEW issued, IsStamped(s, issued, stamp),
         NEW versions, NEW to_publish, \A k \in DOMAIN versions : versions[k].stamp = stamp,
         NEW t, t = PutUnits(issued, versions, to_publish), StoreShape(t)
  PROVE  ClockInv(t) /\ UnitsAdvance(s, t)
<1>1. StoreShape(issued) /\ issued.issued = stamp /\ issued.accepted = s.accepted
  BY DEF IsStamped
<1>2. /\ t.units = [k \in DOMAIN t.units |-> t.units[k]]
      /\ t.issued = issued.issued /\ t.accepted = issued.accepted
  BY <1>1, PutUnitsFields
<1>3. \A old \in Seen(s) : SeenBy(t, old)
  BY <1>1, <1>2, IssuedSees
<1>4. QED
  BY <1>3, PutStamped

LEMMA RecordAdvances ==
  ASSUME NEW s, StoreShape(s), ClockInv(s), s.intents = {}, NEW stamp \in Stamp,
         s.issued # NoStamp => ~StampLess(stamp, s.issued),
         \A k \in DOMAIN s.units : ~StampLess(stamp, s.units[k].stamp),
         NEW commit, NEW t, t = RecordChanges(s, commit, stamp), StoreShape(t)
  PROVE  ClockInv(t) /\ UnitsAdvance(s, t)
<1> DEFINE changed == Changed(s, commit)
           versions == [k \in changed |-> [stamp |-> stamp, value |-> commit[k]]]
           issued == [s EXCEPT !.issued = stamp]
<1>1. IsStamped(s, issued, stamp)
  BY StampWritten
<1>2. \A k \in DOMAIN versions : versions[k].stamp = stamp
  OBVIOUS
<1>3. t = PutUnits(issued, versions, changed)
  BY DEF RecordChanges
<1> HIDE DEF changed, versions, issued
<1>4. QED
  BY <1>1, <1>2, <1>3, PutAdvances

LEMMA EditAdvances ==
  ASSUME LanesInv, ClocksInv, NEW d \in Clients, NEW commit \in Commits, NEW wall \in 0 .. MaxWall,
         Edit(d, commit, wall)
  PROVE  ClocksInv' /\ AllAdvance
<1>1. PICK s : s = store[d]
  OBVIOUS
<1>2. StoreShape(s) /\ ClockInv(s) /\ s.intents = {}
  BY <1>1 DEF LanesInv, StoresInv, ClocksInv, Edit
<1>3. PICK stamp : stamp = IssueStamp(wall, WriterOf[d], Seen(s))
  OBVIOUS
<1>4. stamp \in Stamp /\ \A old \in Seen(s) : ~StampLess(stamp, old)
  BY <1>2, <1>3, IssuedOverSeen
<1>5. PICK t : t = RecordChanges(s, commit, stamp)
  OBVIOUS
<1>6. StoreShape(t)
  BY <1>2, <1>4, <1>5, RecordChangesComes, CommitsAssumption
<1>7. s.issued # NoStamp => ~StampLess(stamp, s.issued)
  BY <1>4 DEF Seen
<1>8. \A k \in DOMAIN s.units : ~StampLess(stamp, s.units[k].stamp)
  BY <1>2, <1>4, StampedAbove
<1>9. ClockInv(t) /\ UnitsAdvance(s, t)
  BY <1>2, <1>4, <1>5, <1>6, <1>7, <1>8, RecordAdvances
<1>10. store' = [store EXCEPT ![d] = t]
  BY <1>1, <1>3, <1>5 DEF Edit
<1>11. QED
  BY <1>1, <1>9, <1>10, ClockStep

(* The intent that is written down is above every unit.                    *)
LEMMA InterruptEditAdvances ==
  ASSUME LanesInv, ClocksInv, NEW d \in Clients, NEW commit \in Commits, NEW wall \in 0 .. MaxWall,
         InterruptEdit(d, commit, wall)
  PROVE  ClocksInv' /\ AllAdvance
<1>1. PICK s : s = store[d]
  OBVIOUS
<1>2. StoreShape(s) /\ ClockInv(s)
  BY <1>1 DEF LanesInv, StoresInv, ClocksInv
<1>3. PICK stamp : stamp = IssueStamp(wall, WriterOf[d], Seen(s))
  OBVIOUS
<1>4. stamp \in Stamp /\ \A old \in Seen(s) : ~StampLess(stamp, old)
  BY <1>2, <1>3, IssuedOverSeen
<1>5. \A k \in DOMAIN s.units : ~StampLess(stamp, s.units[k].stamp)
  BY <1>2, <1>4, StampedAbove
<1>6. PICK t : t = ReserveIntent(s, commit, stamp)
  OBVIOUS
<1>7. /\ t.units = s.units /\ t.rows = s.rows
      /\ t.issued = stamp /\ t.accepted = s.accepted
      /\ \A i \in t.intents : i.stamp = stamp
  BY <1>2, <1>6 DEF ReserveIntent, StoreShape, StoreFields
<1>8. StoreShape(t)
  BY <1>2, <1>4, <1>6, ReserveIntentComes, CommitsAssumption
<1>9. s.issued # NoStamp => ~StampLess(stamp, s.issued)
  BY <1>4 DEF Seen
<1>10. \A old \in Seen(s) : SeenBy(t, old)
  BY <1>2, <1>4, <1>7, <1>9, IssuedSees
<1>11. /\ \A k \in DOMAIN s.units : s.units[k].stamp \in Stamp
       /\ \A r \in s.rows : r.stamp \in Stamp
  BY <1>2, StampsOfStore
<1>12. /\ \A k \in DOMAIN t.units : SeenBy(t, t.units[k].stamp)
       /\ \A r \in t.rows : SeenBy(t, r.stamp)
  BY <1>2, <1>7, <1>8, <1>10, <1>11, SeenStays DEF ClockInv
<1>13. ClockInv(t)
  BY <1>5, <1>7, <1>12 DEF ClockInv
<1>14. UnitsAdvance(s, t)
  BY <1>7, <1>11, StampOrder DEF UnitsAdvance
<1>15. store' = [store EXCEPT ![d] = t]
  BY <1>1, <1>3, <1>6 DEF InterruptEdit
<1>16. QED
  BY <1>1, <1>13, <1>14, <1>15, ClockStep

(* A fresh intent keeps its stamp: no unit has come that is above.         *)
LEMMA RecoverIntentsAdvances ==
  ASSUME LanesInv, ClocksInv, NEW d \in Clients, RecoverIntents(d)
  PROVE  ClocksInv' /\ AllAdvance
<1>1. PICK s : s = store[d]
  OBVIOUS
<1>2. StoreShape(s) /\ ClockInv(s) /\ s.intents # {}
  BY <1>1 DEF LanesInv, StoresInv, ClocksInv, RecoverIntents
<1>3. PICK t : t = ReplayIntent(s)
  OBVIOUS
<1>4. StoreShape(t)
  BY <1>2, <1>3, ReplayIntentComes
<1> DEFINE intent == CHOOSE i \in s.intents : TRUE
           closed == [s EXCEPT !.intents = {}]
<1>5. intent \in s.intents
  BY <1>2
<1>6. /\ closed.units = s.units /\ closed.rows = s.rows /\ closed.intents = {}
      /\ closed.issued = s.issued /\ closed.accepted = s.accepted
  BY <1>2 DEF StoreShape, StoreFields
<1>7. StoreShape(closed)
  BY <1>2, StoreExcept DEF StoreShape
<1>8. \/ intent.fresh /\ t = RecordChanges(closed, intent.commit, intent.stamp)
      \/ t = closed
  BY <1>3 DEF ReplayIntent
<1> HIDE DEF intent, closed
<1>9. ClockInv(closed)
  <2>1. Seen(closed) = Seen(s)
    BY <1>6 DEF Seen
  <2>2. QED
    BY <1>2, <1>6, <2>1 DEF ClockInv, SeenBy
<1>10. UnitsAdvance(s, closed)
  BY <1>2, <1>6, StampsOfStore, StampOrder DEF UnitsAdvance
<1>11. ASSUME intent.fresh, t = RecordChanges(closed, intent.commit, intent.stamp)
       PROVE  ClockInv(t) /\ UnitsAdvance(s, t)
  <2>1. PICK stamp : stamp = intent.stamp
    OBVIOUS
  <2>2. stamp \in Stamp
    BY <1>2, <1>5, <2>1 DEF StoreShape, IntentShape
  <2>3. /\ stamp = closed.issued
        /\ \A k \in DOMAIN closed.units : ~StampLess(stamp, closed.units[k].stamp)
    BY <1>2, <1>5, <1>6, <1>11, <2>1 DEF ClockInv
  <2>4. closed.issued # NoStamp => ~StampLess(stamp, closed.issued)
    BY <2>2, <2>3, StampOrder
  <2>5. ClockInv(t) /\ UnitsAdvance(closed, t)
    BY <1>4, <1>6, <1>7, <1>9, <1>11, <2>1, <2>2, <2>3, <2>4, RecordAdvances
  <2>6. QED
    BY <1>6, <2>5 DEF UnitsAdvance
<1>12. ClockInv(t) /\ UnitsAdvance(s, t)
  BY <1>8, <1>9, <1>10, <1>11
<1>13. store' = [store EXCEPT ![d] = t]
  BY <1>1, <1>3 DEF RecoverIntents
<1>14. QED
  BY <1>1, <1>12, <1>13, ClockStep

(* The stamps a device has issued are not taken back: what the user has     *)
(* stamped anew, once the clock is right again, comes after them.          *)
StampIsNotTakenBack(d) ==
  store[d].issued # NoStamp => ~StampLess(store'[d].issued, store[d].issued)
StampsAreNotTakenBack == [][\A d \in Clients : StampIsNotTakenBack(d)]_systemVars

LEMMA RetryUnpublishedAdvances ==
  ASSUME LanesInv, ClocksInv, NEW d \in Clients, NEW corrected \in 0 .. MaxWall,
         RetryUnpublished(d, corrected), StampIsNotTakenBack(d)
  PROVE  ClocksInv' /\ AllAdvance
<1>1. PICK s : s = store[d]
  OBVIOUS
<1>2. StoreShape(s) /\ ClockInv(s) /\ s.intents = {}
  BY <1>1 DEF LanesInv, StoresInv, ClocksInv, RetryUnpublished
<1>3. PICK stamp : stamp = NewStamp(s, corrected, WriterOf[d])
  OBVIOUS
<1>4. stamp \in Stamp /\ (s.accepted # NoStamp => ~StampLess(stamp, s.accepted))
  BY <1>2, <1>3, IssuedOverAccepted
<1>5. PICK upper : upper = corrected + MAX_CLOCK_SKEW
  OBVIOUS
<1>6. PICK t : t = StampAnew(s, upper, stamp)
  OBVIOUS
<1>7. StoreShape(t)
  BY <1>2, <1>4, <1>6, StampAnewComes
<1>8. store' = [store EXCEPT ![d] = t]
  BY <1>1, <1>3, <1>5, <1>6 DEF RetryUnpublished
<1> DEFINE ahead == {k \in s.outbox : s.units[k].stamp.physical > upper}
           versions == [k \in ahead |-> [stamp |-> stamp, value |-> s.units[k].value]]
           issued == [s EXCEPT !.issued = stamp]
<1>9. IsStamped(s, issued, stamp)
  BY <1>2, <1>4, StampWritten
<1>10. \A k \in DOMAIN versions : versions[k].stamp = stamp
  OBVIOUS
<1>11. t = PutUnits(issued, versions, ahead)
  BY <1>6 DEF StampAnew
<1> HIDE DEF ahead, versions, issued
<1>12. t.issued = stamp
  <2>1. /\ t.units = [k \in DOMAIN t.units |-> t.units[k]]
        /\ t.issued = issued.issued
    BY <1>9, <1>11, PutUnitsFields DEF IsStamped
  <2>2. QED
    BY <1>9, <2>1 DEF IsStamped
<1>13. s.issued # NoStamp => ~StampLess(stamp, s.issued)
  <2>1. store'[d] = t
    BY <1>8 DEF LanesInv, StoresInv
  <2>2. QED
    BY <1>1, <1>12, <2>1 DEF StampIsNotTakenBack
<1>14. \A old \in Seen(s) : ~StampLess(stamp, old)
  BY <1>4, <1>13 DEF Seen
<1>15. \A k \in DOMAIN s.units : ~StampLess(stamp, s.units[k].stamp)
  BY <1>2, <1>4, <1>14, StampedAbove
<1>16. ClockInv(t) /\ UnitsAdvance(s, t)
  BY <1>2, <1>4, <1>7, <1>9, <1>10, <1>11, <1>13, <1>15, PutAdvances
<1>17. QED
  BY <1>1, <1>8, <1>16, ClockStep

LEMMA AcknowledgePublicationAdvances ==
  ASSUME LanesInv, ClocksInv, NEW d \in Clients, NEW logged \in BOOLEAN,
         AcknowledgePublication(d, logged)
  PROVE  ClocksInv' /\ AllAdvance
<1>1. PICK changes : changes = ChangesOf(publication[d].request)
  OBVIOUS
<1>2. changes \in SUBSET Change /\ IsFiniteSet(changes)
  BY <1>1, RequestIsFinite DEF AcknowledgePublication, LanesInv, PublicationsInv, Publication
<1>3. CASE publication[d].receipt = "accepted"
  <2>1. PICK s : s = store[d]
    OBVIOUS
  <2>2. StoreShape(s) /\ ClockInv(s)
    BY <2>1 DEF LanesInv, StoresInv, ClocksInv
  <2>3. PICK a : a = AckOutbox(s, changes)
    OBVIOUS
  <2>4. StoreShape(a)
    BY <2>2, <2>3, AckOutboxComes
  <2>5. /\ a.units = s.units /\ a.rows = s.rows /\ a.intents = s.intents
        /\ a.issued = s.issued /\ a.accepted = s.accepted
    BY <2>2, <2>3 DEF AckOutbox, StoreShape, StoreFields
  <2>6. PICK stamps : stamps = {c.stamp : c \in changes}
    OBVIOUS
  <2>7. stamps \in SUBSET Stamp /\ IsFiniteSet(stamps)
    BY <1>2, <2>6, StampsOf
  <2>8. PICK t : t = Observe(a, stamps)
    OBVIOUS
  <2>9. /\ StoreShape(t) /\ t.units = a.units
        /\ t.rows = a.rows /\ t.intents = a.intents /\ t.issued = a.issued
        /\ \A old \in Seen(a) \cup stamps : SeenBy(t, old)
    BY <2>4, <2>7, <2>8, ObserveComes, ObserveSees
  <2>10. \A old \in Seen(s) : SeenBy(t, old)
    <3>1. Seen(a) = Seen(s)
      BY <2>5 DEF Seen
    <3>2. QED
      BY <2>9, <3>1
  <2>11. ClockInv(t) /\ UnitsAdvance(s, t)
    BY <2>2, <2>5, <2>9, <2>10, ClockStays
  <2>12. store' = [store EXCEPT ![d] = t]
    BY <1>1, <1>3, <2>1, <2>3, <2>6, <2>8 DEF AcknowledgePublication
  <2>13. QED
    BY <2>1, <2>11, <2>12, ClockStep
<1>4. CASE publication[d].receipt # "accepted"
  BY <1>4, ClocksStay DEF AcknowledgePublication
<1>5. QED
  BY <1>3, <1>4

(* No page was applied without its stamps.                                 *)
PagesApplyWhole == \A d \in Clients : page[d] # None => page[d].status # "interrupted"

(* Every step but the application of half a page keeps the clocks.         *)
LEMMA SystemAdvances ==
  ASSUME LanesInv, ClocksInv, PagesApplyWhole, SystemNext,
         \A d \in Clients : StampIsNotTakenBack(d)
  PROVE  ClocksInv' /\ AllAdvance
<1>1. ASSUME UNCHANGED store
      PROVE  ClocksInv' /\ AllAdvance
  BY <1>1, ClocksStay
<1>2. ASSUME NEW d \in Clients, SendStep(d)
      PROVE  ClocksInv' /\ AllAdvance
  <2>1. CASE \E generating \in SUBSET Generated : Publish(d, generating)
    BY <1>1, <2>1 DEF Publish
  <2>2. CASE LearnOutcome(d)
    BY <1>1, <2>2 DEF LearnOutcome
  <2>3. CASE \E b \in BOOLEAN : CancelPublication(d, b)
    BY <1>1, <2>3 DEF CancelPublication
  <2>4. CASE \E b \in BOOLEAN : AcknowledgePublication(d, b)
    BY <2>4, AcknowledgePublicationAdvances
  <2>5. QED
    BY <1>2, <2>1, <2>2, <2>3, <2>4 DEF SendStep
<1>3. ASSUME NEW d \in Clients, ReceiveStep(d)
      PROVE  ClocksInv' /\ AllAdvance
  <2>1. CASE ReadChanges(d)
    BY <1>1, <2>1 DEF ReadChanges
  <2>2. CASE \E b \in BOOLEAN : BeginStateRead(d, b)
    BY <1>1, <2>2 DEF BeginStateRead
  <2>3. CASE ReadStatePage(d)
    BY <1>1, <2>3 DEF ReadStatePage
  <2>4. CASE ForgetExpiredPin(d)
    BY <1>1, <2>4 DEF ForgetExpiredPin
  <2>5. CASE \E generating \in SUBSET Generated : ApplyPage(d, generating)
    <3>1. page[d].status # "interrupted"
      BY <2>5 DEF ApplyPage, PagesApplyWhole
    <3>2. QED
      BY <2>5, <3>1, ApplyPageAdvances
  <2>6. CASE \E generating \in SUBSET Generated : Drain(d, generating)
    BY <2>6, DrainAdvances
  <2>7. CASE FinishPage(d)
    BY <1>1, <2>7 DEF FinishPage
  <2>8. CASE AcknowledgePage(d)
    BY <1>1, <2>8 DEF AcknowledgePage
  <2>9. CASE CloseStateRead(d)
    BY <1>1, <2>9 DEF CloseStateRead
  <2>10. QED
    BY <1>3, <2>1, <2>2, <2>3, <2>4, <2>5, <2>6, <2>7, <2>8, <2>9 DEF ReceiveStep
<1>4. ASSUME NEW m \in in_flight, DeliverPush(m) \/ LosePush(m)
      PROVE  UNCHANGED store
  BY <1>4 DEF DeliverPush, LosePush
<1>5. ASSUME \/ ServerStep
             \/ \E d \in DeviceIds \ Clients, op \in OperationIds, r \in Requests :
                  PushElsewhere(d, op, r)
      PROVE  UNCHANGED store
  BY <1>5 DEF ServerStep, PushElsewhere, lanes
<1>6. QED
  BY <1>1, <1>2, <1>3, <1>4, <1>5, EditAdvances, RetryUnpublishedAdvances DEF SystemNext

(* Devices whose commits may stop half way, and that apply a page whole.    *)
WholeNext ==
  \/ SystemNext
  \/ \E d \in Clients, commit \in Commits, wall \in 0 .. MaxWall : InterruptEdit(d, commit, wall)
  \/ \E d \in Clients : RecoverIntents(d)
WholeSpec == SystemInit /\ [][WholeNext]_systemVars

LEMMA WholeAdvances ==
  ASSUME LanesInv, ClocksInv, PagesApplyWhole, [WholeNext]_systemVars,
         [\A d \in Clients : StampIsNotTakenBack(d)]_systemVars
  PROVE  ClocksInv' /\ AllAdvance
<1>1. CASE UNCHANGED systemVars
  BY <1>1, ClocksStay DEF systemVars, lanes
<1>2. CASE ~UNCHANGED systemVars
  BY <1>2, SystemAdvances, InterruptEditAdvances, RecoverIntentsAdvances DEF WholeNext
<1>3. QED
  BY <1>1, <1>2

(* A page is stored, moved on or closed: it does not become half of one.    *)
LEMMA WholePage ==
  ASSUME PagesInv, PagesApplyWhole, NEW d \in Clients, NEW p,
         page' = [page EXCEPT ![d] = p], p # None => p.status # "interrupted"
  PROVE  PagesApplyWhole'
<1>1. \A e \in Clients : page'[e] = IF e = d THEN p ELSE page[e]
  BY DEF PagesInv
<1>2. QED
  BY <1>1 DEF PagesApplyWhole

LEMMA PageMovesWhole ==
  ASSUME PagesInv, PagesApplyWhole, NEW d \in Clients, page[d] # None,
         NEW status \in {"applied", "finished", "acknowledged"},
         page' = [page EXCEPT ![d].status = status]
  PROVE  PagesApplyWhole'
<1>1. PICK p \in Page : p = page[d]
  BY DEF PagesInv
<1>2. PICK q : q = [p EXCEPT !.status = status]
  OBVIOUS
<1>3. q.status = status
  BY <1>2 DEF Page
<1>4. page' = [page EXCEPT ![d] = q]
  BY <1>1, <1>2
<1>5. QED
  BY <1>3, <1>4, WholePage

LEMMA PagesStayWhole ==
  ASSUME LanesInv, PagesApplyWhole, [WholeNext]_systemVars
  PROVE  PagesApplyWhole'
<1>1. ASSUME UNCHANGED page
      PROVE  PagesApplyWhole'
  BY <1>1 DEF PagesApplyWhole
<1>2. ASSUME NEW d \in Clients, SendStep(d)
      PROVE  PagesApplyWhole'
  BY <1>1, <1>2 DEF SendStep, Publish, LearnOutcome, CancelPublication, AcknowledgePublication
<1>3. ASSUME NEW d \in Clients, ReceiveStep(d)
      PROVE  PagesApplyWhole'
  <2>1. ASSUME NEW rows, NEW next, NEW last, NEW after, StorePage(d, rows, next, last, after)
        PROVE  PagesApplyWhole'
    BY <2>1, WholePage DEF StorePage, LanesInv
  <2>2. CASE ReadChanges(d)
    BY <2>1, <2>2 DEF ReadChanges
  <2>3. CASE ReadStatePage(d)
    BY <2>1, <2>3 DEF ReadStatePage
  <2>4. CASE \/ \E b \in BOOLEAN : BeginStateRead(d, b)
             \/ ForgetExpiredPin(d)
             \/ \E generating \in SUBSET Generated : Drain(d, generating)
    BY <1>1, <2>4 DEF BeginStateRead, ForgetExpiredPin, Drain
  <2>5. CASE (\E generating \in SUBSET Generated : ApplyPage(d, generating)) \/ FinishPage(d)
    BY <2>5, PageMovesWhole DEF ApplyPage, FinishPage, LanesInv
  <2>6. CASE AcknowledgePage(d)
    <3>1. CASE page[d].last
      <4>1. page' = [page EXCEPT ![d].status = "acknowledged"]
        BY <2>6, <3>1 DEF AcknowledgePage
      <4>2. QED
        BY <2>6, <4>1, PageMovesWhole DEF AcknowledgePage, LanesInv
    <3>2. CASE ~page[d].last
      BY <2>6, <3>2, WholePage DEF AcknowledgePage, LanesInv
    <3>3. QED
      BY <3>1, <3>2
  <2>7. CASE CloseStateRead(d)
    BY <2>7, WholePage DEF CloseStateRead, LanesInv
  <2>8. QED
    BY <1>3, <2>2, <2>3, <2>4, <2>5, <2>6, <2>7 DEF ReceiveStep
<1>4. ASSUME NEW d \in Clients,
             \/ \E commit \in Commits, wall \in 0 .. MaxWall :
                  Edit(d, commit, wall) \/ InterruptEdit(d, commit, wall)
             \/ RecoverIntents(d)
             \/ \E corrected \in 0 .. MaxWall : RetryUnpublished(d, corrected)
      PROVE  UNCHANGED page
  BY <1>4 DEF Edit, InterruptEdit, RecoverIntents, RetryUnpublished
<1>5. ASSUME NEW m \in in_flight, DeliverPush(m) \/ LosePush(m)
      PROVE  UNCHANGED page
  BY <1>5 DEF DeliverPush, LosePush
<1>6. ASSUME \/ ServerStep
             \/ \E d \in DeviceIds \ Clients, op \in OperationIds, r \in Requests :
                  PushElsewhere(d, op, r)
             \/ UNCHANGED systemVars
      PROVE  UNCHANGED page
  BY <1>6 DEF ServerStep, PushElsewhere, systemVars, lanes
<1>7. CASE SystemNext
  BY <1>1, <1>2, <1>3, <1>4, <1>5, <1>6, <1>7 DEF SystemNext
<1>8. QED
  BY <1>1, <1>4, <1>6, <1>7 DEF WholeNext

LEMMA InitClocks == SystemInit => ClocksInv /\ PagesApplyWhole
BY DEF SystemInit, LanesInit, EmptyStore, ClocksInv, ClockInv, PagesApplyWhole

(* A version of a device is replaced by a later one, whatever is edited,    *)
(* left half committed, received, held or published between: issue_stamp    *)
(* comes above all that put_unit and lww_apply_receive left in the store,   *)
(* and recover_intent only repeats a commit no unit has passed.  Two things *)
(* are asked for: that lww_retry_unpublished, after a clock ran ahead, does *)
(* not take stamps back, and that no process stops between the two          *)
(* transactions of lww_apply_receive.                                      *)
THEOREM VersionsAdvance ==
  (WholeSpec \/ SystemSpec) /\ StampsAreNotTakenBack => VersionsOnlyAdvance
<1>1. [SystemNext]_systemVars => [WholeNext]_systemVars
  BY DEF WholeNext
<1>2. [WholeNext]_systemVars => [InterruptedNext]_systemVars
  BY DEF WholeNext, InterruptedNext
<1>3. /\ LanesInv /\ ClocksInv /\ PagesApplyWhole
      /\ [WholeNext]_systemVars /\ [\A d \in Clients : StampIsNotTakenBack(d)]_systemVars
      => ClocksInv' /\ PagesApplyWhole' /\ AllAdvance
  BY WholeAdvances, PagesStayWhole
<1>4. AllAdvance =>
        \A d \in Clients : \A k \in DOMAIN store[d].units \cap DOMAIN store'[d].units :
          \/ ~StampLess(store'[d].units[k].stamp, store[d].units[k].stamp)
          \/ store'[d].units[k].value = Deleted
  BY DEF AllAdvance, UnitsAdvance
<1>5. QED
  BY <1>1, <1>2, <1>3, <1>4, InitLanes, NextLanes, InitClocks, PTL
     DEF WholeSpec, SystemSpec, StampsAreNotTakenBack, VersionsOnlyAdvance

------------------------------------------------------------------------------
(* What a store of a device holds lies below what it holds.                *)

(* What a commit creates lies below units the device stores or units it     *)
(* creates with them, unless these were deleted since.                     *)
CommitRooted(s, commit) ==
  \A k \in DOMAIN commit :
    \/ Parents(k) \cap s.retired # {}
    \/ \A p \in Parents(k) :
         p \in DOMAIN s.units \/ (p \in DOMAIN commit /\ commit[p] # Deleted)

(* Units have their parents; a deleted record is a deletion the store       *)
(* holds, or went with the deletion of its parent; no row below a deleted   *)
(* record waits, and what waits for its parents is never set aside.         *)
Rooted(s) ==
  /\ \A k \in DOMAIN s.units : Parents(k) \subseteq DOMAIN s.units
  /\ \A k \in DOMAIN s.units : IsDeletion(k, s.units[k]) => k \in s.retired
  /\ \A k \in s.retired : /\ k \in DOMAIN s.units => IsDeletion(k, s.units[k])
                          /\ k \in DOMAIN s.units \/ Parents(k) \cap s.retired # {}
  /\ \A r \in s.rows : /\ Parents(r.key) \cap s.retired = {}
                       /\ r.status # "held" => r.key \in Generated
  /\ \A i \in s.intents : CommitRooted(s, i.commit)

(* The parents of a parent are parents, and have none.                     *)
LEMMA NestedParents ==
  ASSUME NEW k \in Keys, NEW p \in Parents(k)
  PROVE  Parents(p) \subseteq Parents(k) /\ \A q \in Parents(p) : Parents(q) = {}
<1>1. \A a, b : /\ <<"exists", a, b>>[1] = "exists" /\ <<"exists", a, b>>[2] = a
                /\ <<"exists", a, b>>[3] = b
  OBVIOUS
<1>2. ASSUME NEW a, NEW b, a # "conversation"
      PROVE  Parents(<<"exists", a, b>>) = {}
  BY <1>2 DEF Parents
<1>3. ASSUME NEW a, NEW b
      PROVE  Parents(<<"exists", "conversation", a, b>>) = {<<"exists", "character", a>>}
  BY DEF Parents
<1>4. CASE k[1] \in {"character", "archive"}
  <2>1. p = <<"exists", "character", k[2]>>
    BY <1>4 DEF Parents
  <2>2. QED
    BY <1>2, <2>1
<1>5. CASE k[1] \in {"preset", "persona"}
  <2>1. p = <<"exists", k[1], k[2]>>
    BY <1>5 DEF Parents
  <2>2. QED
    BY <1>2, <1>5, <2>1
<1>6. CASE k[1] \in {"conversation", "messages"}
  <2>1. Parents(k) = {<<"exists", "character", k[2]>>,
                      <<"exists", "conversation", k[2], k[3]>>}
    BY <1>6 DEF Parents
  <2>2. CASE p = <<"exists", "character", k[2]>>
    BY <1>2, <2>2
  <2>3. CASE p = <<"exists", "conversation", k[2], k[3]>>
    <3>1. Parents(p) = {<<"exists", "character", k[2]>>}
      BY <1>3, <2>3
    <3>2. Parents(<<"exists", "character", k[2]>>) = {}
      BY <1>2
    <3>3. QED
      BY <2>1, <3>1, <3>2
  <2>4. QED
    BY <2>1, <2>2, <2>3
<1>7. CASE k[1] = "exists" /\ k[2] = "conversation"
  <2>1. p = <<"exists", "character", k[3]>>
    BY <1>7 DEF Parents
  <2>2. QED
    BY <1>2, <2>1
<1>8. CASE k[1] = "record" /\ k[2] # "plugins"
  <2>1. p = <<"exists", k[2], k[3]>>
    BY <1>8 DEF Parents
  <2>2. k[2] # "conversation"
    BY <1>8, KeysAssumption
  <2>3. QED
    BY <1>2, <2>1, <2>2
<1>9. CASE k[1] = "order" /\ k[2] = "conversations"
  <2>1. p = <<"exists", "character", k[3]>>
    BY <1>9 DEF Parents
  <2>2. QED
    BY <1>2, <2>1
<1>10. QED
  BY <1>4, <1>5, <1>6, <1>7, <1>8, <1>9 DEF Parents

(* Parents are records, and a record has one parent at most.               *)
LEMMA ParentsAreRecords ==
  ASSUME NEW k \in Keys
  PROVE  /\ \A p \in Parents(k) : p[1] = "exists"
         /\ k[1] = "exists" => \A p, q \in Parents(k) : p = q
BY DEF Parents

(* What goes with a retirement lies below a retired parent, even if its     *)
(* parent goes with another one.                                           *)
LEMMA SweptAreBelowRetired ==
  ASSUME NEW s, StoreShape(s), NEW versions, NEW to_publish, NEW t,
         t = PutUnits(s, versions, to_publish), NEW k \in Keys, k \in Swept(versions)
  PROVE  Parents(k) \cap t.retired # {}
<1>1. /\ t.units = [l \in DOMAIN t.units |-> t.units[l]]
      /\ t.retired = s.retired \cup (RetiringIn(versions) \cap PutsOf(versions))
  BY PutUnitsFields
<1>2. PICK p \in Parents(k) : p \in RetiringIn(versions)
  BY DEF Swept, Below
<1>3. CASE p \in PutsOf(versions)
  BY <1>1, <1>2, <1>3
<1>4. CASE p \notin PutsOf(versions)
  <2>1. p \in Swept(versions)
    BY <1>2, <1>4 DEF PutsOf, RetiringIn
  <2>2. PICK q \in Parents(p) : q \in RetiringIn(versions)
    BY <2>1 DEF Swept, Below
  <2>3. q \in Parents(k) /\ Parents(q) = {}
    BY <2>2, NestedParents
  <2>4. q \in PutsOf(versions)
    BY <2>2, <2>3 DEF PutsOf, Swept, Below, RetiringIn
  <2>5. QED
    BY <1>1, <2>2, <2>3, <2>4
<1>5. QED
  BY <1>3, <1>4

(* What goes with a retirement goes with its parents.                       *)
LEMMA SweptGoTogether ==
  ASSUME NEW versions, NEW k \in Keys, NEW p \in Parents(k), p \in Swept(versions)
  PROVE  k \in Swept(versions)
<1>1. PICK q \in Parents(p) : q \in RetiringIn(versions)
  BY DEF Swept, Below
<1>2. q \in Parents(k)
  BY <1>1, NestedParents
<1>3. QED
  BY <1>1, <1>2 DEF Swept, Below

(* Units that are put below what is there stay below what is there, if     *)
(* what is deleted only gets deleted again.                                *)
LEMMA PutRooted ==
  ASSUME NEW s, StoreShape(s), Rooted(s), NEW versions, DOMAIN versions \subseteq Keys,
         \A k \in DOMAIN versions : Parents(k) \subseteq DOMAIN s.units \cup DOMAIN versions,
         \A k \in DOMAIN versions \cap s.retired : IsDeletion(k, versions[k]),
         NEW to_publish, NEW t, t = PutUnits(s, versions, to_publish)
  PROVE  /\ Rooted(t)
         /\ \A c : DOMAIN c \subseteq Keys /\ CommitRooted(s, c) => CommitRooted(t, c)
<1>1. /\ t.units = [k \in DOMAIN t.units |-> t.units[k]]
      /\ DOMAIN t.units = (DOMAIN s.units \ Swept(versions)) \cup PutsOf(versions)
      /\ \A k \in PutsOf(versions) : t.units[k] = versions[k]
      /\ \A k \in DOMAIN t.units \ PutsOf(versions) : t.units[k] = s.units[k]
      /\ t.retired = s.retired \cup (RetiringIn(versions) \cap PutsOf(versions))
      /\ t.rows \subseteq s.rows /\ \A r \in s.rows : r \in t.rows <=> r.key \notin Swept(versions)
      /\ t.intents = s.intents
  BY PutUnitsFields
<1>2. /\ \A k \in DOMAIN s.units : k \in Keys
      /\ \A k \in s.retired : k \in Keys
      /\ \A r \in s.rows : r.key \in Keys
  BY DEF StoreShape, IsTable, Row
<1>3. PutsOf(versions) = DOMAIN versions \ Swept(versions)
  BY DEF PutsOf
<1>4. ASSUME NEW k \in Keys, k \in Swept(versions)
      PROVE  Parents(k) \cap t.retired # {}
  BY <1>4, SweptAreBelowRetired
<1>5. ASSUME NEW k \in DOMAIN t.units, NEW p \in Parents(k)
      PROVE  p \in DOMAIN t.units
  <2>1. k \in Keys /\ k \notin Swept(versions) /\ k \in DOMAIN s.units \cup DOMAIN versions
    BY <1>1, <1>2, <1>3
  <2>2. p \notin Swept(versions)
    BY <2>1, SweptGoTogether
  <2>3. p \in DOMAIN s.units \cup DOMAIN versions
    BY <2>1 DEF Rooted
  <2>4. QED
    BY <1>1, <1>3, <2>2, <2>3
<1>6. ASSUME NEW k \in DOMAIN t.units, IsDeletion(k, t.units[k])
      PROVE  k \in t.retired
  <2>1. CASE k \in PutsOf(versions)
    BY <1>1, <1>3, <1>6, <2>1 DEF IsDeletion, RetiringIn
  <2>2. CASE k \notin PutsOf(versions)
    BY <1>1, <1>6, <2>2 DEF Rooted
  <2>3. QED
    BY <2>1, <2>2
<1>7. ASSUME NEW k \in t.retired
      PROVE  /\ k \in DOMAIN t.units => IsDeletion(k, t.units[k])
             /\ k \in DOMAIN t.units \/ Parents(k) \cap t.retired # {}
  <2>1. CASE k \in RetiringIn(versions) \cap PutsOf(versions)
    BY <1>1, <2>1 DEF IsDeletion, RetiringIn
  <2>2. CASE k \in s.retired
    <3>1. k \in DOMAIN t.units => IsDeletion(k, t.units[k])
      <4>1. CASE k \in PutsOf(versions)
        BY <1>1, <1>3, <2>2, <4>1
      <4>2. CASE k \notin PutsOf(versions)
        BY <1>1, <2>2, <4>2 DEF Rooted
      <4>3. QED
        BY <4>1, <4>2
    <3>2. k \in DOMAIN t.units \/ Parents(k) \cap t.retired # {}
      <4>1. CASE k \in Swept(versions)
        BY <1>2, <1>4, <2>2, <4>1
      <4>2. CASE k \notin Swept(versions)
        BY <1>1, <2>2, <4>2 DEF Rooted
      <4>3. QED
        BY <4>1, <4>2
    <3>3. QED
      BY <3>1, <3>2
  <2>3. QED
    BY <1>1, <2>1, <2>2
<1>8. ASSUME NEW r \in t.rows
      PROVE  /\ Parents(r.key) \cap t.retired = {}
             /\ r.status # "held" => r.key \in Generated
  <2>1. r \in s.rows /\ r.key \in Keys /\ r.key \notin Swept(versions)
    BY <1>1, <1>2
  <2>2. Parents(r.key) \cap RetiringIn(versions) = {}
    BY <2>1 DEF Swept, Below
  <2>3. QED
    BY <1>1, <2>1, <2>2 DEF Rooted
<1>9. ASSUME NEW c, DOMAIN c \subseteq Keys, CommitRooted(s, c)
      PROVE  CommitRooted(t, c)
  <2>1. ASSUME NEW k \in DOMAIN c, NEW p \in Parents(k), p \in DOMAIN s.units,
               p \notin DOMAIN t.units
        PROVE  Parents(k) \cap t.retired # {}
    <3>1. p \in Keys /\ k \in Keys /\ p \in Swept(versions)
      BY <1>1, <1>2, <1>9, <2>1
    <3>2. Parents(p) \cap t.retired # {} /\ Parents(p) \subseteq Parents(k)
      BY <1>4, <3>1, NestedParents
    <3>3. QED
      BY <3>2
  <2>2. QED
    BY <1>1, <1>9, <2>1 DEF CommitRooted
<1>10. \A i \in t.intents : CommitRooted(t, i.commit)
  <2>1. \A i \in s.intents : DOMAIN i.commit \subseteq Keys /\ CommitRooted(s, i.commit)
    BY DEF Rooted, StoreShape, IntentShape, IsTable
  <2>2. QED
    BY <1>1, <1>9, <2>1
<1>11. QED
  BY <1>5, <1>6, <1>7, <1>8, <1>9, <1>10 DEF Rooted

(* A store that keeps its units is rooted as it was, whatever becomes of    *)
(* its outbox and its clock.                                               *)
LEMMA SameIsRooted ==
  ASSUME NEW s, Rooted(s), NEW t,
         t.units = s.units, t.retired = s.retired, t.rows \subseteq s.rows,
         \A i \in t.intents : CommitRooted(s, i.commit)
  PROVE  Rooted(t)
BY DEF Rooted, CommitRooted

(* What the application may commit lies below what it shows.               *)
LEMMA OfferedIsRooted ==
  ASSUME NEW d, NEW commit, Offered(d, commit)
  PROVE  CommitRooted(store[d], commit)
BY DEF Offered, Alive, CommitRooted

(* A commit that is recorded.                                              *)
LEMMA RecordRooted ==
  ASSUME NEW s, StoreShape(s), Rooted(s), NEW stamp \in Stamp,
         NEW commit, DOMAIN commit \subseteq Keys, CommitRooted(s, commit),
         NEW t, t = RecordChanges(s, commit, stamp)
  PROVE  Rooted(t)
<1> DEFINE changed == Changed(s, commit)
           versions == [k \in changed |-> [stamp |-> stamp, value |-> commit[k]]]
           issued == [s EXCEPT !.issued = stamp]
<1>1. IsStamped(s, issued, stamp)
  BY StampWritten
<1>2. issued.retired = s.retired
  BY DEF StoreShape, StoreFields
<1>3. t = PutUnits(issued, versions, changed)
  BY DEF RecordChanges
<1>4. /\ DOMAIN versions = changed
      /\ \A k \in changed : k \in DOMAIN commit /\ ({k} \cup Parents(k)) \cap s.retired = {}
      /\ \A k \in DOMAIN commit \ DOMAIN s.units :
           ({k} \cup Parents(k)) \cap s.retired = {} /\ commit[k] # Deleted => k \in changed
  BY DEF Changed, ParentStatus
<1> HIDE DEF changed, versions, issued
<1>5. ASSUME NEW k \in changed, NEW p \in Parents(k)
      PROVE  p \in DOMAIN s.units \cup changed
  <2>1. Parents(p) \subseteq Parents(k)
    BY <1>4, NestedParents
  <2>2. p \in DOMAIN s.units \/ (p \in DOMAIN commit /\ commit[p] # Deleted)
    BY <1>4 DEF CommitRooted
  <2>3. QED
    BY <1>4, <2>1, <2>2
<1>6. Rooted(issued)
  BY <1>1, <1>2, SameIsRooted DEF IsStamped, Rooted
<1>7. StoreShape(issued) /\ issued.units = s.units
  BY <1>1 DEF IsStamped
<1>8. DOMAIN versions \cap issued.retired = {}
  BY <1>2, <1>4
<1>9. \A k \in DOMAIN versions : Parents(k) \subseteq DOMAIN issued.units \cup DOMAIN versions
  BY <1>4, <1>5, <1>7
<1>10. DOMAIN versions \subseteq Keys
  BY <1>4
<1>11. QED
  BY <1>3, <1>6, <1>7, <1>8, <1>9, <1>10, PutRooted

(* Entries of the outbox that get a new stamp.                             *)
LEMMA StampAnewRooted ==
  ASSUME NEW s, StoreShape(s), Rooted(s), NEW stamp \in Stamp,
         NEW upper, NEW t, t = StampAnew(s, upper, stamp)
  PROVE  Rooted(t)
<1> DEFINE ahead == {k \in s.outbox : s.units[k].stamp.physical > upper}
           versions == [k \in ahead |-> [stamp |-> stamp, value |-> s.units[k].value]]
           issued == [s EXCEPT !.issued = stamp]
<1>1. IsStamped(s, issued, stamp)
  BY StampWritten
<1>2. issued.retired = s.retired
  BY DEF StoreShape, StoreFields
<1>3. t = PutUnits(issued, versions, ahead)
  BY DEF StampAnew
<1>4. /\ DOMAIN versions \subseteq s.outbox
      /\ \A k \in DOMAIN versions : versions[k].value = s.units[k].value
  OBVIOUS
<1> HIDE DEF ahead, versions, issued
<1>5. DOMAIN versions \subseteq DOMAIN s.units /\ DOMAIN versions \subseteq Keys
  BY <1>4 DEF StoreShape, IsTable
<1>6. Rooted(issued)
  BY <1>1, <1>2, SameIsRooted DEF IsStamped, Rooted
<1>7. StoreShape(issued) /\ issued.units = s.units
  BY <1>1 DEF IsStamped
<1>8. \A k \in DOMAIN versions \cap issued.retired : IsDeletion(k, versions[k])
  BY <1>2, <1>4, <1>5 DEF Rooted, IsDeletion
<1>9. \A k \in DOMAIN versions : Parents(k) \subseteq DOMAIN issued.units \cup DOMAIN versions
  BY <1>5, <1>7 DEF Rooted
<1>10. QED
  BY <1>3, <1>5, <1>6, <1>7, <1>8, <1>9, PutRooted

(* A layer puts the versions of the rows that win and keeps those that     *)
(* wait.                                                                   *)
RowWins(s, r, generating) ==
  /\ Fate(s, r, generating) = "done"
  /\ ParentStatus(s, r.key) = "retired" => IsRetirement(r)
  /\ Overwrites(s, r)

Lays(s, t, rows, generating, versions, put) ==
  /\ \A k \in DOMAIN versions :
       \E r \in rows : /\ r.key = k /\ Same(r, versions[k]) /\ RowWins(s, r, generating)
                       /\ \A o \in rows : o.key = k /\ RowWins(s, o, generating) => ~Prevails(o, r)
  /\ \A r \in rows : RowWins(s, r, generating) => r.key \in DOMAIN versions
  /\ t.units = put.units /\ t.retired = put.retired
  /\ t.rows = (put.rows \ rows) \cup WaitingOf(s, rows, generating)
  /\ t.intents = s.intents \/ t.intents = Stale(s.intents)

LEMMA LayerLays ==
  ASSUME NEW s, StoreShape(s), NEW rows \in SUBSET ReceivedRow, IsFiniteSet(rows), rows # {},
         NEW generating, NEW t, t = ApplyLayer(s, rows, generating)
  PROVE  \E versions, nothing, put : /\ put = PutUnits(s, versions, nothing)
                                     /\ Lays(s, t, rows, generating, versions, put)
<1> DEFINE settled == SettledOf(s, rows, generating)
           winners == WinnersOf(s, rows, generating)
           versions == VersionsWon(winners)
           nothing == {}
           put == PutUnits(s, versions, nothing)
           waiting == WaitingOf(s, rows, generating)
           mid == [put EXCEPT !.rows = (@ \ rows) \cup waiting,
                              !.intents = IntentsAfter(s, rows, generating)]
<1>1. t = WitnessReceived(mid, settled)
  BY LayerParts
<1>2. /\ winners \in SUBSET rows /\ winners \in SUBSET ReceivedRow
      /\ \A r \in rows : r \in winners <=> RowWins(s, r, generating)
  BY DEF WinnersOf, SettledOf, RowWins
<1>3. IsFiniteSet(winners)
  BY <1>2, FS_Subset
<1>4. /\ DOMAIN versions = {r.key : r \in winners}
      /\ \A k \in DOMAIN versions :
           \E r \in winners : /\ r.key = k /\ versions[k] = VersionOf(r)
                              /\ \A o \in winners : o.key = k => ~Prevails(o, r)
  <2> HIDE DEF winners
  <2>1. QED
    BY <1>2, <1>3, WonVersions
<1> HIDE DEF versions, winners, settled
<1>5. DOMAIN put = StoreFields
  <2>1. /\ put.units = [k \in DOMAIN put.units |-> put.units[k]]
        /\ DOMAIN put = StoreFields
    BY PutUnitsFields
  <2>2. QED
    BY <2>1
<1>6. put = PutUnits(s, versions, nothing)
  OBVIOUS
<1>7. /\ DOMAIN mid = StoreFields /\ mid.units = put.units /\ mid.retired = put.retired
      /\ mid.rows = (put.rows \ rows) \cup waiting
      /\ mid.intents = IntentsAfter(s, rows, generating)
  <2> HIDE DEF put
  <2>1. QED
    BY <1>5 DEF StoreFields
<1> HIDE DEF mid, waiting, put
<1>8. /\ t.units = put.units /\ t.retired = put.retired /\ t.rows = (put.rows \ rows) \cup waiting
      /\ t.intents = s.intents \/ t.intents = Stale(s.intents)
  <2>1. /\ t.units = mid.units /\ t.retired = mid.retired /\ t.rows = mid.rows
        /\ t.intents = mid.intents
    BY <1>1, <1>7 DEF WitnessReceived, StoreFields
  <2>2. QED
    BY <1>7, <2>1 DEF IntentsAfter
<1>9. ASSUME NEW k \in DOMAIN versions
      PROVE  \E r \in rows : /\ r.key = k /\ Same(r, versions[k]) /\ RowWins(s, r, generating)
                             /\ \A o \in rows : o.key = k /\ RowWins(s, o, generating) =>
                                  ~Prevails(o, r)
  <2>1. PICK r \in winners : /\ r.key = k /\ versions[k] = VersionOf(r)
                             /\ \A o \in winners : o.key = k => ~Prevails(o, r)
    BY <1>4
  <2>2. Same(r, versions[k])
    BY <2>1 DEF VersionOf, Same
  <2>3. QED
    BY <1>2, <2>1, <2>2
<1>10. Lays(s, t, rows, generating, versions, put)
  BY <1>2, <1>4, <1>8, <1>9 DEF Lays, waiting
<1>11. QED
  BY <1>6, <1>10

(* A layer of received rows leaves the store rooted, brings units of that  *)
(* layer only, and keeps a row for its parents if one of them is missing.   *)
LEMMA LayerRooted ==
  ASSUME NEW s, StoreShape(s), Rooted(s),
         NEW rows \in SUBSET ReceivedRow, IsFiniteSet(rows), NEW i,
         \A r \in rows : Layer(r.key) = i,
         NEW generating \in SUBSET Generated, NEW t, t = ApplyLayer(s, rows, generating)
  PROVE  /\ Rooted(t)
         /\ \A k \in DOMAIN t.units : k \in DOMAIN s.units \/ Layer(k) = i
         /\ \A w \in t.rows : w.status = "held" =>
              \/ w \in s.rows \ rows
              \/ Layer(w.key) = i /\ \E p \in Parents(w.key) : p \notin DOMAIN s.units
<1>1. CASE rows = {}
  <2>1. t = s
    BY <1>1, Zenon DEF ApplyLayer
  <2>2. QED
    BY <1>1, <2>1
<1>2. CASE rows # {}
  <2>1. PICK versions, nothing, put : /\ put = PutUnits(s, versions, nothing)
                                      /\ Lays(s, t, rows, generating, versions, put)
    BY <1>2, LayerLays
  <2>2. \A k \in DOMAIN versions :
          \E r \in rows : /\ r.key = k /\ Same(r, versions[k]) /\ RowWins(s, r, generating)
                          /\ k \in Keys /\ Layer(k) = i
    BY <2>1 DEF Lays, ReceivedRow
  <2>3. ASSUME NEW k \in DOMAIN versions, NEW p \in Parents(k)
        PROVE  p \in DOMAIN s.units
    <3>1. PICK r \in rows : /\ r.key = k /\ Same(r, versions[k]) /\ RowWins(s, r, generating)
                            /\ k \in Keys /\ Layer(k) = i
      BY <2>2
    <3>2. CASE ParentStatus(s, k) = "ready"
      BY <3>2 DEF ParentStatus
    <3>3. CASE ParentStatus(s, k) = "retired"
      <4>1. k[1] = "exists" /\ ({k} \cup Parents(k)) \cap s.retired # {}
        BY <3>1, <3>3 DEF RowWins, IsRetirement, ParentStatus
      <4>2. Parents(p) = {} /\ \A q \in Parents(k) : q = p
        <5>1. \A q \in Parents(k) : q = p
          BY <3>1, <4>1, ParentsAreRecords
        <5>2. Parents(p) \subseteq Parents(k) /\ \A q \in Parents(p) : Parents(q) = {}
          BY <3>1, NestedParents
        <5>3. QED
          BY <5>1, <5>2
      <4>3. CASE p \in s.retired
        BY <4>2, <4>3 DEF Rooted
      <4>4. CASE p \notin s.retired
        <5>1. k \in DOMAIN s.units
          BY <4>1, <4>2, <4>4 DEF Rooted
        <5>2. QED
          BY <5>1 DEF Rooted
      <4>5. QED
        BY <4>3, <4>4
    <3>4. CASE ParentStatus(s, k) = "held"
      BY <3>1, <3>4 DEF RowWins, Fate
    <3>5. QED
      BY <3>2, <3>3, <3>4 DEF ParentStatus
  <2>4. ASSUME NEW k \in DOMAIN versions \cap s.retired
        PROVE  IsDeletion(k, versions[k])
    <3>1. PICK r \in rows : r.key = k /\ Same(r, versions[k]) /\ RowWins(s, r, generating)
      BY <2>2
    <3>2. ParentStatus(s, r.key) = "retired"
      BY <3>1 DEF ParentStatus
    <3>3. QED
      BY <3>1, <3>2 DEF RowWins, IsRetirement, IsDeletion, Same
  <2>5. DOMAIN versions \subseteq Keys
    BY <2>2
  <2>6. \A k \in DOMAIN versions : Parents(k) \subseteq DOMAIN s.units \cup DOMAIN versions
    BY <2>3
  <2>7. /\ Rooted(put)
        /\ \A c : DOMAIN c \subseteq Keys /\ CommitRooted(s, c) => CommitRooted(put, c)
    BY <2>1, <2>4, <2>5, <2>6, PutRooted
  <2>8. /\ put.units = [k \in DOMAIN put.units |-> put.units[k]]
        /\ DOMAIN put.units = (DOMAIN s.units \ Swept(versions)) \cup PutsOf(versions)
        /\ put.retired = s.retired \cup (RetiringIn(versions) \cap PutsOf(versions))
        /\ put.rows \subseteq s.rows
    BY <2>1, PutUnitsFields
  <2>9. PutsOf(versions) \subseteq DOMAIN versions /\ RetiringIn(versions) \subseteq DOMAIN versions
    BY DEF PutsOf, RetiringIn
  <2>10. ASSUME NEW w \in WaitingOf(s, rows, generating)
         PROVE  /\ Parents(w.key) \cap t.retired = {}
                /\ w.status # "held" => w.key \in Generated
                /\ w.status = "held" =>
                     Layer(w.key) = i /\ \E p \in Parents(w.key) : p \notin DOMAIN s.units
    <3>1. PICK r \in rows : w.key = r.key /\ w.status = Fate(s, r, generating)
      BY WaitingRows
    <3>2. w.status # "done"
      BY DEF WaitingOf, ReceivedRow
    <3>3. ParentStatus(s, r.key) # "retired" /\ (w.status # "held" => r.key \in generating)
      BY <3>1, <3>2 DEF Fate
    <3>4. Parents(w.key) \cap s.retired = {}
      BY <3>1, <3>3 DEF ParentStatus
    <3>5. Layer(w.key) = i /\ \A p \in Parents(w.key) : Layer(p) # i
      BY <3>1, ParentsComeFirst
    <3>6. Parents(w.key) \cap DOMAIN versions = {}
      BY <2>2, <3>5
    <3>7. w.status = "held" => \E p \in Parents(w.key) : p \notin DOMAIN s.units
      BY <3>1 DEF Fate, ParentStatus
    <3>8. QED
      BY <2>1, <2>8, <2>9, <3>1, <3>3, <3>4, <3>5, <3>6, <3>7 DEF Lays
  <2>11. t.rows = (put.rows \ rows) \cup WaitingOf(s, rows, generating)
    BY <2>1 DEF Lays
  <2>12. \A j \in t.intents : CommitRooted(t, j.commit)
    <3>1. \A c : CommitRooted(put, c) <=> CommitRooted(t, c)
      BY <2>1 DEF Lays, CommitRooted
    <3>2. ASSUME NEW j \in s.intents
          PROVE  CommitRooted(t, j.commit) /\ CommitRooted(t, [j EXCEPT !.fresh = FALSE].commit)
      <4>1. DOMAIN j.commit \subseteq Keys /\ CommitRooted(s, j.commit)
        BY DEF Rooted, StoreShape, IntentShape, IsTable
      <4>2. CommitRooted(t, j.commit)
        BY <2>7, <3>1, <4>1
      <4>3. [j EXCEPT !.fresh = FALSE].commit = j.commit
        BY DEF StoreShape, IntentShape
      <4>4. QED
        BY <4>2, <4>3
    <3>3. CASE t.intents = s.intents
      BY <3>2, <3>3
    <3>4. CASE t.intents = Stale(s.intents)
      <4>1. ASSUME NEW j \in t.intents PROVE \E l \in s.intents : j = [l EXCEPT !.fresh = FALSE]
        BY <3>4, <4>1, Zenon DEF Stale
      <4>2. QED
        BY <3>2, <4>1
    <3>5. QED
      BY <2>1, <3>3, <3>4 DEF Lays
  <2>13. t.units = put.units /\ t.retired = put.retired
    BY <2>1 DEF Lays
  <2>14. Rooted(t)
    <3>1. \A r \in t.rows : /\ Parents(r.key) \cap t.retired = {}
                            /\ r.status # "held" => r.key \in Generated
      BY <2>7, <2>10, <2>11, <2>13 DEF Rooted
    <3>2. QED
      BY <2>7, <2>12, <2>13, <3>1 DEF Rooted
  <2>15. \A k \in DOMAIN t.units : k \in DOMAIN s.units \/ Layer(k) = i
    BY <2>2, <2>8, <2>9, <2>13
  <2>16. \A w \in t.rows : w.status = "held" =>
           \/ w \in s.rows \ rows
           \/ Layer(w.key) = i /\ \E p \in Parents(w.key) : p \notin DOMAIN s.units
    BY <2>8, <2>10, <2>11
  <2>17. QED
    BY <2>14, <2>15, <2>16
<1>3. QED
  BY <1>1, <1>2

(* And so does a page; if the rows that waited are applied with it, what   *)
(* waits for its parents afterwards lacks one.                             *)
LEMMA RowsRooted ==
  ASSUME NEW s, StoreShape(s), Rooted(s), NEW rows \in SUBSET ReceivedRow, IsFiniteSet(rows),
         Held(s) \subseteq rows,
         NEW generating \in SUBSET Generated, NEW t, t = ApplyRows(s, rows, generating)
  PROVE  /\ Rooted(t)
         /\ \A w \in t.rows : w.status = "held" => \E p \in Parents(w.key) : p \notin DOMAIN t.units
<1> DEFINE one == ApplyLayer(s, LayerOf(rows, 1), generating)
           two == ApplyLayer(one, LayerOf(rows, 2), generating)
<1>1. ASSUME NEW i \in {1, 2, 3}
      PROVE  /\ LayerOf(rows, i) \in SUBSET rows /\ LayerOf(rows, i) \in SUBSET ReceivedRow
             /\ IsFiniteSet(LayerOf(rows, i)) /\ \A r \in LayerOf(rows, i) : Layer(r.key) = i
  <2>1. LayerOf(rows, i) \in SUBSET rows
    BY DEF LayerOf
  <2>2. QED
    BY <2>1, FS_Subset DEF LayerOf
<1>2. t = ApplyLayer(two, LayerOf(rows, 3), generating)
  BY DEF ApplyRows, LayerOf
<1>3. \A r \in rows : \E i \in {1, 2, 3} : r \in LayerOf(rows, i)
  BY DEF LayerOf, Layer
<1>4. /\ StoreShape(one) /\ Rooted(one)
      /\ \A w \in one.rows : w.status = "held" =>
           \/ w \in s.rows \ LayerOf(rows, 1)
           \/ Layer(w.key) = 1 /\ \E p \in Parents(w.key) : p \notin DOMAIN s.units
  BY <1>1, ApplyLayerComes, LayerRooted
<1> HIDE DEF one
<1>5. /\ StoreShape(two) /\ Rooted(two)
      /\ \A k \in DOMAIN two.units : k \in DOMAIN one.units \/ Layer(k) = 2
      /\ \A w \in two.rows : w.status = "held" =>
           \/ w \in one.rows \ LayerOf(rows, 2)
           \/ Layer(w.key) = 2 /\ \E p \in Parents(w.key) : p \notin DOMAIN one.units
  BY <1>1, <1>4, ApplyLayerComes, LayerRooted
<1> HIDE DEF two
<1>6. /\ Rooted(t)
      /\ \A k \in DOMAIN t.units : k \in DOMAIN two.units \/ Layer(k) = 3
      /\ \A w \in t.rows : w.status = "held" =>
           \/ w \in two.rows \ LayerOf(rows, 3)
           \/ Layer(w.key) = 3 /\ \E p \in Parents(w.key) : p \notin DOMAIN two.units
  BY <1>1, <1>2, <1>5, LayerRooted
<1>7. ASSUME NEW w \in t.rows, w.status = "held"
      PROVE  \E p \in Parents(w.key) : p \notin DOMAIN t.units
  <2>1. \A p \in Parents(w.key) : Layer(p) < Layer(w.key)
    BY ParentsComeFirst
  <2>2. \A p : Layer(p) \in {1, 2, 3}
    BY DEF Layer
  <2>3. CASE Layer(w.key) = 3 /\ \E p \in Parents(w.key) : p \notin DOMAIN two.units
    BY <1>6, <2>1, <2>2, <2>3
  <2>4. CASE Layer(w.key) = 2 /\ \E p \in Parents(w.key) : p \notin DOMAIN one.units
    BY <1>5, <1>6, <2>1, <2>2, <2>4
  <2>5. CASE Layer(w.key) = 1 /\ \E p \in Parents(w.key) : p \notin DOMAIN s.units
    BY <2>1, <2>2, <2>5
  <2>6. CASE w \in s.rows /\ \A i \in {1, 2, 3} : w \notin LayerOf(rows, i)
    BY <1>3, <1>7, <2>6 DEF Held
  <2>7. QED
    BY <1>4, <1>5, <1>6, <1>7, <2>3, <2>4, <2>5, <2>6
<1>8. QED
  BY <1>6, <1>7

------------------------------------------------------------------------------
(* The deletions a device knows.                                           *)

(* A record is deleted here, went with its parent, or its deletion waits.   *)
KnowsRetired(s, k) ==
  \/ k \in s.retired \/ Parents(k) \cap s.retired # {}
  \/ \E r \in s.rows : r.key = k /\ IsRetirement(r)

LEMMA PutKnows ==
  ASSUME NEW s, StoreShape(s), NEW versions, NEW to_publish, NEW t,
         t = PutUnits(s, versions, to_publish), NEW k \in Keys, KnowsRetired(s, k)
  PROVE  KnowsRetired(t, k)
<1>1. /\ t.units = [l \in DOMAIN t.units |-> t.units[l]]
      /\ t.retired = s.retired \cup (RetiringIn(versions) \cap PutsOf(versions))
      /\ \A r \in s.rows : r \in t.rows <=> r.key \notin Swept(versions)
  BY PutUnitsFields
<1>2. k \in Swept(versions) => Parents(k) \cap t.retired # {}
  BY SweptAreBelowRetired
<1>3. QED
  BY <1>1, <1>2 DEF KnowsRetired

(* A layer of rows forgets no deletion and takes up those that came.        *)
LEMMA LayerKnows ==
  ASSUME NEW s, StoreShape(s), Rooted(s),
         NEW rows \in SUBSET ReceivedRow, IsFiniteSet(rows), NEW generating,
         NEW t, t = ApplyLayer(s, rows, generating)
  PROVE  /\ \A k \in Keys : KnowsRetired(s, k) => KnowsRetired(t, k)
         /\ \A r \in rows : IsRetirement(r) => KnowsRetired(t, r.key)
<1>1. CASE rows = {}
  <2>1. t = s
    BY <1>1, Zenon DEF ApplyLayer
  <2>2. QED
    BY <1>1, <2>1
<1>2. CASE rows # {}
  <2>1. PICK versions, nothing, put : /\ put = PutUnits(s, versions, nothing)
                                      /\ Lays(s, t, rows, generating, versions, put)
    BY <1>2, LayerLays
  <2>2. /\ put.units = [k \in DOMAIN put.units |-> put.units[k]]
        /\ put.retired = s.retired \cup (RetiringIn(versions) \cap PutsOf(versions))
    BY <2>1, PutUnitsFields
  <2>3. /\ t.retired = put.retired
        /\ t.rows = (put.rows \ rows) \cup WaitingOf(s, rows, generating)
    BY <2>1 DEF Lays
  <2>4. ASSUME NEW r \in rows, IsRetirement(r)
        PROVE  KnowsRetired(t, r.key)
    <3>1. r.key \in Keys
      BY DEF ReceivedRow
    <3>2. CASE Fate(s, r, generating) # "done"
      <4>1. PICK w \in WaitingOf(s, rows, generating) : w.key = r.key /\ w.value = r.value
        BY <3>2, WaitingRows
      <4>2. w \in t.rows /\ IsRetirement(w)
        BY <2>3, <2>4, <4>1 DEF IsRetirement
      <4>3. QED
        BY <4>1, <4>2 DEF KnowsRetired
    <3>3. CASE Fate(s, r, generating) = "done" /\ ~Overwrites(s, r)
      <4>1. r.key \in DOMAIN s.units /\ IsDeletion(r.key, s.units[r.key])
        BY <2>4, <3>3 DEF Overwrites, IsRetirement, IsDeletion
      <4>2. r.key \in s.retired
        BY <4>1 DEF Rooted
      <4>3. QED
        BY <2>2, <2>3, <4>2 DEF KnowsRetired
    <3>4. CASE Fate(s, r, generating) = "done" /\ Overwrites(s, r)
      <4>1. PICK k : k = r.key
        OBVIOUS
      <4>2. k \in DOMAIN versions
        BY <2>1, <2>4, <3>4, <4>1 DEF Lays, RowWins
      <4>3. PICK o \in rows : o.key = k /\ Same(o, versions[k]) /\ ~Prevails(r, o)
        BY <2>1, <2>4, <3>4, <4>1, <4>2 DEF Lays, RowWins
      <4>4. IsRetirement(o)
        BY <2>4, <4>3 DEF Prevails
      <4>5. k \in RetiringIn(versions)
        BY <4>2, <4>3, <4>4 DEF IsRetirement, Same, RetiringIn
      <4>6. CASE k \in Swept(versions)
        BY <2>1, <2>3, <3>1, <4>1, <4>6, SweptAreBelowRetired DEF KnowsRetired
      <4>7. CASE k \notin Swept(versions)
        BY <2>2, <2>3, <4>1, <4>2, <4>5, <4>7 DEF KnowsRetired, PutsOf
      <4>8. QED
        BY <4>6, <4>7
    <3>5. QED
      BY <3>2, <3>3, <3>4
  <2>5. ASSUME NEW k \in Keys, KnowsRetired(s, k)
        PROVE  KnowsRetired(t, k)
    <3>1. KnowsRetired(put, k)
      BY <2>1, <2>5, PutKnows
    <3>2. QED
      BY <2>3, <2>4, <3>1 DEF KnowsRetired
  <2>6. QED
    BY <2>4, <2>5
<1>3. QED
  BY <1>1, <1>2

LEMMA RowsKnow ==
  ASSUME NEW s, StoreShape(s), Rooted(s), NEW rows \in SUBSET ReceivedRow, IsFiniteSet(rows),
         NEW generating \in SUBSET Generated, NEW t, t = ApplyRows(s, rows, generating)
  PROVE  /\ \A k \in Keys : KnowsRetired(s, k) => KnowsRetired(t, k)
         /\ \A r \in rows : IsRetirement(r) => KnowsRetired(t, r.key)
<1> DEFINE one == ApplyLayer(s, LayerOf(rows, 1), generating)
           two == ApplyLayer(one, LayerOf(rows, 2), generating)
<1>1. ASSUME NEW i \in {1, 2, 3}
      PROVE  /\ LayerOf(rows, i) \in SUBSET rows /\ LayerOf(rows, i) \in SUBSET ReceivedRow
             /\ IsFiniteSet(LayerOf(rows, i)) /\ \A r \in LayerOf(rows, i) : Layer(r.key) = i
  <2>1. LayerOf(rows, i) \in SUBSET rows
    BY DEF LayerOf
  <2>2. QED
    BY <2>1, FS_Subset DEF LayerOf
<1>2. t = ApplyLayer(two, LayerOf(rows, 3), generating)
  BY DEF ApplyRows, LayerOf
<1>3. \A r \in rows : r.key \in Keys /\ \E i \in {1, 2, 3} : r \in LayerOf(rows, i)
  BY DEF ReceivedRow, LayerOf, Layer
<1>4. /\ StoreShape(one) /\ Rooted(one)
      /\ \A k \in Keys : KnowsRetired(s, k) => KnowsRetired(one, k)
      /\ \A r \in LayerOf(rows, 1) : IsRetirement(r) => KnowsRetired(one, r.key)
  BY <1>1, ApplyLayerComes, LayerRooted, LayerKnows
<1> HIDE DEF one
<1>5. /\ StoreShape(two) /\ Rooted(two)
      /\ \A k \in Keys : KnowsRetired(one, k) => KnowsRetired(two, k)
      /\ \A r \in LayerOf(rows, 2) : IsRetirement(r) => KnowsRetired(two, r.key)
  BY <1>1, <1>4, ApplyLayerComes, LayerRooted, LayerKnows
<1> HIDE DEF two
<1>6. /\ \A k \in Keys : KnowsRetired(two, k) => KnowsRetired(t, k)
      /\ \A r \in LayerOf(rows, 3) : IsRetirement(r) => KnowsRetired(t, r.key)
  BY <1>1, <1>2, <1>5, LayerKnows
<1>7. QED
  BY <1>3, <1>4, <1>5, <1>6

------------------------------------------------------------------------------
(* What lies before the cursors.                                           *)

(* A device stores a version that is not older, or knows the deletion of    *)
(* what the unit belonged to; or it has such a version waiting in a row.    *)
Stores(s, k, stamp) ==
  \/ k \in s.retired \/ Parents(k) \cap s.retired # {}
  \/ k \in DOMAIN s.units /\ ~StampLess(s.units[k].stamp, stamp)
Has(s, k, stamp) ==
  Stores(s, k, stamp) \/ \E r \in s.rows : r.key = k /\ ~StampLess(r.stamp, stamp)

(* And it has accepted the stamp, so that whatever it issues is above.      *)
Delivered(s, k, stamp) ==
  Has(s, k, stamp) /\ s.accepted # NoStamp /\ ~StampLess(s.accepted, stamp)

(* A version it was given it has, and of a deletion it knows.               *)
Given(s, k, v) == Delivered(s, k, v.stamp) /\ (IsDeletion(k, v) => KnowsRetired(s, k))

(* The units whose versions a reader at a cursor has been shown.            *)
ShownBy(c) == DOMAIN units \ DOMAIN ChangesAfter(c)

(* On the page of a device that is not applied yet.                        *)
OnPage(p, k, v) == p.status = "stored" /\ \E c \in p.changes : c.key = k /\ Same(c, v)

CursorRead(d) ==
  Readable(cursor[d]) => \A k \in ShownBy(cursor[d]) : Given(store[d], k, units[k])

PageRead(d) ==
  page[d] # None /\ Readable(page[d].cursor) =>
    \A k \in ShownBy(page[d].cursor) :
      Given(store[d], k, units[k]) \/ OnPage(page[d], k, units[k])

(* What a device has read of the pin it reads.                             *)
PinRead(d) ==
  bootstrap[d] # None =>
    /\ bootstrap[d].pin < next_pin
    /\ \A p \in state_pins : p.id = bootstrap[d].pin => \A k \in DOMAIN p.units :
         /\ Rank(k) <= bootstrap[d].after => Given(store[d], k, p.units[k])
         /\ page[d] # None /\ Rank(k) <= page[d].after =>
              Given(store[d], k, p.units[k]) \/ OnPage(page[d], k, p.units[k])

(* A device has been shown a unit, and what carried it is applied.          *)
IsApplied(p) == p # None /\ p.status # "stored"
HasRead(d, k) ==
  \/ Readable(cursor[d]) /\ k \in ShownBy(cursor[d])
  \/ IsApplied(page[d]) /\ Readable(page[d].cursor) /\ k \in ShownBy(page[d].cursor)
  \/ /\ bootstrap[d] # None
     /\ \E p \in state_pins :
          /\ p.id = bootstrap[d].pin /\ k \in DOMAIN p.units
          /\ Rank(k) <= bootstrap[d].after \/ (IsApplied(page[d]) /\ Rank(k) <= page[d].after)

(* A row is held for a parent that did not come, or has not come yet: a    *)
(* commit of the device itself may have stored it meanwhile.                *)
Waits(d) ==
  \A r \in store[d].rows : r.status = "held" =>
    \E p \in Parents(r.key) : p \notin DOMAIN store[d].units \/ ~HasRead(d, p)

(* What a pin holds is what a reader of the journal has been shown where    *)
(* the pin starts.                                                         *)
PinsShow ==
  /\ \A p \in state_pins : p.id < next_pin
  /\ \A p, q \in state_pins : p.id = q.id => p = q
  /\ \A p \in state_pins : Readable(p.start_seq) =>
       \A k \in ShownBy(p.start_seq) : k \in DOMAIN p.units /\ p.units[k] = units[k]

AllRooted == \A d \in Clients : Rooted(store[d])
ReadsOn(d) == CursorRead(d) /\ PageRead(d) /\ PinRead(d) /\ Waits(d)
ReadInv == AllRooted /\ PinsShow /\ \A d \in Clients : ReadsOn(d)

(* Units that are put do not replace what is not older, unless they are     *)
(* deletions of records.                                                   *)
LEMMA PutStores ==
  ASSUME NEW s, StoreShape(s), NEW versions, NEW to_publish, NEW t,
         t = PutUnits(s, versions, to_publish), NEW k \in Keys, NEW stamp \in Stamp,
         Stores(s, k, stamp),
         k \in DOMAIN versions /\ k \in DOMAIN s.units =>
           \/ k \in RetiringIn(versions)
           \/ ~StampLess(s.units[k].stamp, stamp) => ~StampLess(versions[k].stamp, stamp)
  PROVE  Stores(t, k, stamp)
<1>1. /\ t.units = [l \in DOMAIN t.units |-> t.units[l]]
      /\ DOMAIN t.units = (DOMAIN s.units \ Swept(versions)) \cup PutsOf(versions)
      /\ \A l \in PutsOf(versions) : t.units[l] = versions[l]
      /\ \A l \in DOMAIN t.units \ PutsOf(versions) : t.units[l] = s.units[l]
      /\ t.retired = s.retired \cup (RetiringIn(versions) \cap PutsOf(versions))
  BY PutUnitsFields
<1>2. CASE k \in s.retired \/ Parents(k) \cap s.retired # {}
  BY <1>1, <1>2 DEF Stores
<1>3. CASE k \in DOMAIN s.units /\ ~StampLess(s.units[k].stamp, stamp)
  <2>1. CASE k \in Swept(versions)
    BY <2>1, SweptAreBelowRetired DEF Stores
  <2>2. CASE k \notin Swept(versions) /\ k \in DOMAIN versions
    <3>1. k \in PutsOf(versions)
      BY <2>2 DEF PutsOf
    <3>2. QED
      BY <1>1, <1>3, <2>2, <3>1 DEF Stores
  <2>3. CASE k \notin Swept(versions) /\ k \notin DOMAIN versions
    <3>1. k \notin PutsOf(versions)
      BY <2>3 DEF PutsOf
    <3>2. QED
      BY <1>1, <1>3, <2>3, <3>1 DEF Stores
  <2>4. QED
    BY <2>1, <2>2, <2>3
<1>4. QED
  BY <1>2, <1>3 DEF Stores

LEMMA PutHas ==
  ASSUME NEW s, StoreShape(s), NEW versions, NEW to_publish, NEW t,
         t = PutUnits(s, versions, to_publish), NEW k \in Keys, NEW stamp \in Stamp,
         Has(s, k, stamp),
         k \in DOMAIN versions /\ k \in DOMAIN s.units =>
           \/ k \in RetiringIn(versions)
           \/ ~StampLess(s.units[k].stamp, stamp) => ~StampLess(versions[k].stamp, stamp)
  PROVE  Has(t, k, stamp)
<1>1. CASE Stores(s, k, stamp)
  BY <1>1, PutStores DEF Has
<1>2. ASSUME NEW r \in s.rows, r.key = k, ~StampLess(r.stamp, stamp)
      PROVE  Has(t, k, stamp)
  <2>1. CASE k \in Swept(versions)
    BY <2>1, SweptAreBelowRetired DEF Has, Stores
  <2>2. CASE k \notin Swept(versions)
    <3>1. /\ t.units = [l \in DOMAIN t.units |-> t.units[l]]
          /\ \A w \in s.rows : w \in t.rows <=> w.key \notin Swept(versions)
      BY PutUnitsFields
    <3>2. QED
      BY <1>2, <2>2, <3>1 DEF Has
  <2>3. QED
    BY <2>1, <2>2
<1>3. QED
  BY <1>1, <1>2 DEF Has

(* What is had is had for every earlier stamp.                             *)
LEMMA HasEarlier ==
  ASSUME NEW s, StoreShape(s), NEW k, NEW old \in Stamp, NEW stamp \in Stamp,
         Has(s, k, stamp), ~StampLess(stamp, old)
  PROVE  Has(s, k, old)
<1>1. /\ \A l \in DOMAIN s.units : s.units[l].stamp \in Stamp
      /\ \A r \in s.rows : r.stamp \in Stamp
  BY StampsOfStore
<1>2. CASE Stores(s, k, stamp)
  BY <1>1, <1>2, NotBelow DEF Stores, Has
<1>3. CASE \E r \in s.rows : r.key = k /\ ~StampLess(r.stamp, stamp)
  BY <1>1, <1>3, NotBelow DEF Has
<1>4. QED
  BY <1>2, <1>3 DEF Has

(* A layer of received rows loses nothing and gives the device every row:   *)
(* it is stored, outweighed by what is stored, or waits.                   *)
LEMMA LayerHas ==
  ASSUME NEW s, StoreShape(s), NEW rows \in SUBSET ReceivedRow, IsFiniteSet(rows), NEW generating,
         NEW t, t = ApplyLayer(s, rows, generating)
  PROVE  /\ \A k \in Keys, stamp \in Stamp : Has(s, k, stamp) => Has(t, k, stamp)
         /\ \A r \in rows : Has(t, r.key, r.stamp)
<1>1. CASE rows = {}
  <2>1. t = s
    BY <1>1, Zenon DEF ApplyLayer
  <2>2. QED
    BY <1>1, <2>1
<1>2. CASE rows # {}
  <2> DEFINE settled == SettledOf(s, rows, generating)
             winners == WinnersOf(s, rows, generating)
             versions == VersionsWon(winners)
             nothing == {}
             put == PutUnits(s, versions, nothing)
             waiting == WaitingOf(s, rows, generating)
             mid == [put EXCEPT !.rows = (@ \ rows) \cup waiting,
                                !.intents = IntentsAfter(s, rows, generating)]
  <2>1. t = WitnessReceived(mid, settled)
    BY <1>2, LayerParts
  <2>2. winners \in SUBSET rows /\ winners \in SUBSET ReceivedRow
    BY DEF WinnersOf, SettledOf
  <2>3. IsFiniteSet(winners)
    BY <2>2, FS_Subset
  <2>4. /\ DOMAIN versions = {r.key : r \in winners}
        /\ \A k \in DOMAIN versions :
             \E r \in winners : /\ r.key = k /\ versions[k] = VersionOf(r)
                                /\ \A o \in winners : o.key = k => ~Prevails(o, r)
    <3> HIDE DEF winners
    <3>1. QED
      BY <2>2, <2>3, WonVersions
  <2>5. \A r \in rows :
          IF r \in winners THEN Overwrites(s, r)
          ELSE \/ Fate(s, r, generating) # "done"
               \/ ~Overwrites(s, r)
               \/ ParentStatus(s, r.key) = "retired"
    BY DEF WinnersOf, SettledOf
  <2>6. \A r \in rows : Fate(s, r, generating) # "done" =>
          \E w \in waiting : w.key = r.key /\ w.stamp = r.stamp
    BY WaitingRows
  <2>7. StoreShape(t)
    BY ApplyLayerComes
  <2> HIDE DEF versions, winners, settled
  <2>8. /\ DOMAIN put = StoreFields
        /\ put.units = [k \in DOMAIN put.units |-> put.units[k]]
        /\ DOMAIN put.units = (DOMAIN s.units \ Swept(versions)) \cup PutsOf(versions)
        /\ \A k \in PutsOf(versions) : put.units[k] = versions[k]
        /\ put.retired = s.retired \cup (RetiringIn(versions) \cap PutsOf(versions))
    BY PutUnitsFields
  <2>9. /\ DOMAIN mid = StoreFields /\ mid.units = put.units /\ mid.retired = put.retired
        /\ mid.rows = (put.rows \ rows) \cup waiting
    <3> HIDE DEF put
    <3>1. QED
      BY <2>8 DEF StoreFields
  <2> HIDE DEF mid, waiting
  <2>10. t.units = put.units /\ t.retired = put.retired /\ t.rows = (put.rows \ rows) \cup waiting
    BY <2>1, <2>9 DEF WitnessReceived, StoreFields
  <2>11. /\ \A k \in DOMAIN s.units : s.units[k].stamp \in Stamp
         /\ \A r \in rows : r.key \in Keys /\ r.stamp \in Stamp
    BY StampsOfStore DEF ReceivedRow
  <2>12. ASSUME NEW k \in DOMAIN versions
         PROVE  \E r \in winners : /\ r \in rows /\ r.key = k /\ versions[k].stamp = r.stamp
                                   /\ versions[k].value = r.value /\ Overwrites(s, r)
                                   /\ \A o \in winners : o.key = k => ~Prevails(o, r)
    <3>1. PICK r \in winners : /\ r.key = k /\ versions[k] = VersionOf(r)
                               /\ \A o \in winners : o.key = k => ~Prevails(o, r)
      BY <2>4
    <3>2. r \in rows /\ Overwrites(s, r)
      BY <2>2, <2>5
    <3>3. versions[k].stamp = r.stamp /\ versions[k].value = r.value
      BY <3>1 DEF VersionOf
    <3>4. QED
      BY <3>1, <3>2, <3>3
  <2>13. ASSUME NEW k \in DOMAIN versions, k \in DOMAIN s.units, NEW stamp \in Stamp
         PROVE  \/ k \in RetiringIn(versions)
                \/ ~StampLess(s.units[k].stamp, stamp) => ~StampLess(versions[k].stamp, stamp)
    <3>1. PICK r \in rows : /\ r.key = k /\ versions[k].stamp = r.stamp
                            /\ versions[k].value = r.value /\ Overwrites(s, r)
      BY <2>12
    <3>2. CASE IsRetirement(r)
      BY <3>1, <3>2 DEF IsRetirement, RetiringIn
    <3>3. CASE ~IsRetirement(r)
      <4>1. StampLess(s.units[k].stamp, r.stamp)
        BY <2>13, <3>1, <3>3 DEF Overwrites, ApplyRemote
      <4>2. QED
        BY <2>11, <2>13, <3>1, <4>1, StampOrder
    <3>4. QED
      BY <3>2, <3>3
  <2>14. ASSUME NEW k \in Keys, NEW stamp \in Stamp, Stores(put, k, stamp)
         PROVE  Has(t, k, stamp)
    BY <2>10, <2>14 DEF Has, Stores
  <2>15. ASSUME NEW k \in Keys, NEW stamp \in Stamp, Stores(s, k, stamp)
         PROVE  Has(t, k, stamp)
    <3>1. Stores(put, k, stamp)
      BY <2>13, <2>15, PutStores
    <3> HIDE DEF put
    <3>2. QED
      BY <2>14, <3>1
  <2>16. ASSUME NEW r \in rows
         PROVE  Has(t, r.key, r.stamp)
    <3>1. PICK k \in Keys : k = r.key
      BY <2>11
    <3>2. PICK stamp \in Stamp : stamp = r.stamp
      BY <2>11
    <3>3. CASE r \in winners
      <4>1. k \in DOMAIN versions
        BY <2>4, <3>1, <3>3
      <4>2. PICK w \in winners : /\ w \in rows /\ w.key = k /\ versions[k].stamp = w.stamp
                                 /\ versions[k].value = w.value
                                 /\ \A o \in winners : o.key = k => ~Prevails(o, w)
        BY <2>12, <4>1
      <4>3. CASE k \in Swept(versions)
        <5>1. Parents(k) \cap put.retired # {}
          BY <4>3, SweptAreBelowRetired
        <5> HIDE DEF put
        <5>2. QED
          BY <2>14, <3>1, <3>2, <5>1 DEF Stores
      <4>4. CASE k \notin Swept(versions)
        <5>1. k \in PutsOf(versions)
          BY <4>1, <4>4 DEF PutsOf
        <5> HIDE DEF put
        <5>2. CASE IsRetirement(w)
          <6>1. k \in RetiringIn(versions)
            BY <4>1, <4>2, <5>2 DEF IsRetirement, RetiringIn
          <6>2. k \in put.retired
            BY <2>8, <5>1, <6>1
          <6>3. QED
            BY <2>14, <3>1, <3>2, <6>2 DEF Stores
        <5>3. CASE ~IsRetirement(w)
          <6>1. ~Prevails(r, w)
            BY <3>1, <3>3, <4>2
          <6>2. ~IsRetirement(r)
            BY <5>3, <6>1 DEF Prevails
          <6>3. IsRetirement(r) = IsRetirement(w)
            BY <5>3, <6>2, Zenon DEF IsRetirement
          <6>4. ~StampLess(w.stamp, r.stamp)
            BY <6>1, <6>3 DEF Prevails
          <6>5. k \in DOMAIN put.units /\ put.units[k].stamp = w.stamp
            BY <2>8, <4>2, <5>1
          <6>6. QED
            BY <2>14, <3>1, <3>2, <6>4, <6>5 DEF Stores
        <5>4. QED
          BY <5>2, <5>3
      <4>5. QED
        BY <4>3, <4>4
    <3>4. CASE Fate(s, r, generating) # "done"
      <4>1. PICK w \in waiting : w.key = r.key /\ w.stamp = r.stamp
        BY <2>6, <3>4
      <4>2. w \in t.rows /\ ~StampLess(w.stamp, r.stamp)
        BY <2>10, <2>11, <4>1, StampOrder
      <4>3. QED
        BY <4>1, <4>2 DEF Has
    <3>5. CASE ~Overwrites(s, r)
      <4>1. k \in DOMAIN s.units /\ ~StampLess(s.units[k].stamp, stamp)
        BY <3>1, <3>2, <3>5 DEF Overwrites, ApplyRemote
      <4>2. QED
        BY <2>15, <3>1, <3>2, <4>1 DEF Stores
    <3>6. CASE ParentStatus(s, r.key) = "retired"
      <4>1. ({k} \cup Parents(k)) \cap s.retired # {}
        BY <3>1, <3>6 DEF ParentStatus
      <4>2. QED
        BY <2>15, <3>1, <3>2, <4>1 DEF Stores
    <3>7. QED
      BY <2>5, <3>3, <3>4, <3>5, <3>6
  <2>17. ASSUME NEW k \in Keys, NEW stamp \in Stamp, Has(s, k, stamp)
         PROVE  Has(t, k, stamp)
    <3>1. Has(put, k, stamp)
      BY <2>13, <2>17, PutHas
    <3> HIDE DEF put
    <3>2. CASE Stores(put, k, stamp)
      BY <2>14, <3>2
    <3>3. ASSUME NEW w \in put.rows, w.key = k, ~StampLess(w.stamp, stamp)
          PROVE  Has(t, k, stamp)
      <4>1. CASE w \in rows
        <5>1. Has(t, k, w.stamp) /\ w.stamp \in Stamp
          BY <2>11, <2>16, <3>3, <4>1
        <5>2. QED
          BY <2>7, <3>3, <5>1, HasEarlier
      <4>2. CASE w \notin rows
        BY <2>10, <3>3, <4>2 DEF Has
      <4>3. QED
        BY <4>1, <4>2
    <3>4. QED
      BY <3>1, <3>2, <3>3 DEF Has
  <2>18. QED
    BY <2>16, <2>17
<1>3. QED
  BY <1>1, <1>2

(* And so does a page.                                                     *)
LEMMA RowsHas ==
  ASSUME NEW s, StoreShape(s), NEW rows \in SUBSET ReceivedRow, IsFiniteSet(rows), NEW generating,
         NEW t, t = ApplyRows(s, rows, generating)
  PROVE  /\ \A k \in Keys, stamp \in Stamp : Has(s, k, stamp) => Has(t, k, stamp)
         /\ \A r \in rows : Has(t, r.key, r.stamp)
<1> DEFINE one == ApplyLayer(s, LayerOf(rows, 1), generating)
           two == ApplyLayer(one, LayerOf(rows, 2), generating)
<1>1. ASSUME NEW i \in {1, 2, 3}
      PROVE  /\ LayerOf(rows, i) \in SUBSET rows /\ LayerOf(rows, i) \in SUBSET ReceivedRow
             /\ IsFiniteSet(LayerOf(rows, i))
  <2>1. LayerOf(rows, i) \in SUBSET rows
    BY DEF LayerOf
  <2>2. QED
    BY <2>1, FS_Subset
<1>2. t = ApplyLayer(two, LayerOf(rows, 3), generating)
  BY DEF ApplyRows, LayerOf
<1>3. \A r \in rows : /\ r.key \in Keys /\ r.stamp \in Stamp
                      /\ \E i \in {1, 2, 3} : r \in LayerOf(rows, i)
  BY DEF ReceivedRow, LayerOf, Layer
<1>4. /\ StoreShape(one)
      /\ \A k \in Keys, stamp \in Stamp : Has(s, k, stamp) => Has(one, k, stamp)
      /\ \A r \in LayerOf(rows, 1) : Has(one, r.key, r.stamp)
  BY <1>1, ApplyLayerComes, LayerHas
<1> HIDE DEF one
<1>5. /\ StoreShape(two)
      /\ \A k \in Keys, stamp \in Stamp : Has(one, k, stamp) => Has(two, k, stamp)
      /\ \A r \in LayerOf(rows, 2) : Has(two, r.key, r.stamp)
  BY <1>1, <1>4, ApplyLayerComes, LayerHas
<1> HIDE DEF two
<1>6. /\ \A k \in Keys, stamp \in Stamp : Has(two, k, stamp) => Has(t, k, stamp)
      /\ \A r \in LayerOf(rows, 3) : Has(t, r.key, r.stamp)
  BY <1>1, <1>2, <1>5, LayerHas
<1>7. QED
  BY <1>3, <1>4, <1>5, <1>6

------------------------------------------------------------------------------
(* What a device was given stays with it, and no row is set back to held    *)
(* with all its parents there.                                             *)
Keeps(s, t) ==
  /\ Rooted(t)
  /\ \A k \in Keys, stamp \in Stamp : Delivered(s, k, stamp) => Delivered(t, k, stamp)
  /\ \A k \in Keys : KnowsRetired(s, k) => KnowsRetired(t, k)
  /\ \A r \in t.rows : r.status = "held" =>
       r \in s.rows \/ \E p \in Parents(r.key) : p \notin DOMAIN t.units

AcceptsMore(s, t) ==
  s.accepted # NoStamp => t.accepted # NoStamp /\ ~StampLess(t.accepted, s.accepted)

LEMMA DeliveredStays ==
  ASSUME NEW s, StoreShape(s), NEW t, StoreShape(t), AcceptsMore(s, t),
         NEW k \in Keys, NEW stamp \in Stamp, Delivered(s, k, stamp), Has(t, k, stamp)
  PROVE  Delivered(t, k, stamp)
<1>1. s.accepted \in Stamp /\ t.accepted \in Stamp
  BY DEF StoreShape, Delivered, AcceptsMore
<1>2. QED
  BY <1>1, NotBelow DEF Delivered, AcceptsMore

LEMMA AcceptedStays ==
  ASSUME NEW s, StoreShape(s), NEW t, t.accepted = s.accepted
  PROVE  AcceptsMore(s, t)
BY StampOrder DEF AcceptsMore, StoreShape

LEMMA SameIsKept ==
  ASSUME NEW s, StoreShape(s), NEW t, StoreShape(t), AcceptsMore(s, t),
         t.units = s.units, t.retired = s.retired, t.rows = s.rows, Rooted(t)
  PROVE  Keeps(s, t)
<1>1. ASSUME NEW k \in Keys, NEW stamp \in Stamp, Delivered(s, k, stamp)
      PROVE  Delivered(t, k, stamp)
  <2>1. Has(t, k, stamp)
    BY <1>1 DEF Delivered, Has, Stores
  <2>2. QED
    BY <1>1, <2>1, DeliveredStays
<1>2. QED
  BY <1>1 DEF Keeps, KnowsRetired

(* What is observed is accepted.                                           *)
LEMMA ObserveAccepts ==
  ASSUME NEW s, StoreShape(s), NEW stamps \in SUBSET Stamp, IsFiniteSet(stamps),
         NEW t, t = Observe(s, stamps)
  PROVE  /\ AcceptsMore(s, t)
         /\ \A old \in stamps : t.accepted # NoStamp /\ ~StampLess(t.accepted, old)
<1> DEFINE known == stamps \cup ({s.accepted} \ {NoStamp})
<1>1. \/ known = {} /\ t = s
      \/ known # {} /\ t = [s EXCEPT !.accepted = Greatest(known)]
  BY DEF Observe
<1>2. known \in SUBSET Stamp
  BY DEF StoreShape
<1>3. IsFiniteSet(known)
  <2>1. IsFiniteSet({s.accepted}) /\ {s.accepted} \ {NoStamp} \in SUBSET {s.accepted}
    BY FS_Singleton
  <2>2. IsFiniteSet({s.accepted} \ {NoStamp})
    BY <2>1, FS_Subset
  <2>3. QED
    BY <2>2, FS_Union
<1>4. stamps \subseteq known /\ {s.accepted} \ {NoStamp} \subseteq known
  OBVIOUS
<1> HIDE DEF known
<1>5. CASE known = {} /\ t = s
  BY <1>4, <1>5 DEF AcceptsMore
<1>6. CASE known # {} /\ t = [s EXCEPT !.accepted = Greatest(known)]
  <2> DEFINE g == Greatest(known)
  <2>1. g \in Stamp /\ \A x \in known : g = x \/ StampLess(x, g)
    BY <1>2, <1>3, <1>6, GreatestIsAbove
  <2>2. t.accepted = g
    BY <1>6 DEF StoreShape, StoreFields
  <2> HIDE DEF g
  <2>3. \A x \in known : t.accepted # NoStamp /\ ~StampLess(t.accepted, x)
    BY <1>2, <2>1, <2>2, StampOrder, NoStampAssumption
  <2>4. QED
    BY <1>4, <2>3 DEF AcceptsMore
<1>7. QED
  BY <1>1, <1>5, <1>6

(* New versions are kept to what was accepted, or to what they replace.     *)
LEMMA StampedKeeps ==
  ASSUME NEW s, StoreShape(s), NEW stamp \in Stamp,
         NEW issued, IsStamped(s, issued, stamp), issued.retired = s.retired,
         \/ s.accepted # NoStamp => ~StampLess(stamp, s.accepted)
         \/ \A k \in DOMAIN s.units : ~StampLess(stamp, s.units[k].stamp),
         NEW versions, \A k \in DOMAIN versions : versions[k].stamp = stamp,
         NEW to_publish, NEW t, t = PutUnits(issued, versions, to_publish), StoreShape(t), Rooted(t)
  PROVE  Keeps(s, t)
<1>1. t.accepted = s.accepted
  <2>1. /\ t.units = [k \in DOMAIN t.units |-> t.units[k]]
        /\ t.accepted = issued.accepted
    BY PutUnitsFields DEF IsStamped
  <2>2. QED
    BY <2>1 DEF IsStamped
<1>2. AcceptsMore(s, t)
  BY <1>1, AcceptedStays
<1>3. ASSUME NEW k \in Keys, NEW old \in Stamp, Delivered(s, k, old)
      PROVE  Delivered(t, k, old)
  <2>1. Has(issued, k, old)
    BY <1>3 DEF Delivered, Has, Stores, IsStamped
  <2>2. s.accepted \in Stamp /\ ~StampLess(s.accepted, old)
    BY <1>3 DEF Delivered, StoreShape
  <2>3. ASSUME k \in DOMAIN versions, k \in DOMAIN issued.units,
               ~StampLess(issued.units[k].stamp, old)
        PROVE  ~StampLess(versions[k].stamp, old)
    <3>1. CASE s.accepted # NoStamp => ~StampLess(stamp, s.accepted)
      BY <1>3, <2>2, <2>3, <3>1, NotBelow, NoStampAssumption DEF Delivered
    <3>2. CASE \A l \in DOMAIN s.units : ~StampLess(stamp, s.units[l].stamp)
      <4>1. k \in DOMAIN s.units /\ issued.units[k] = s.units[k] /\ s.units[k].stamp \in Stamp
        BY <2>3, StampsOfStore DEF IsStamped
      <4>2. QED
        BY <2>3, <3>2, <4>1, NotBelow
    <3>3. QED
      BY <3>1, <3>2
  <2>4. Has(t, k, old)
    BY <2>1, <2>3, PutHas DEF IsStamped
  <2>5. QED
    BY <1>2, <1>3, <2>4, DeliveredStays
<1>4. ASSUME NEW k \in Keys, KnowsRetired(s, k)
      PROVE  KnowsRetired(t, k)
  <2>1. KnowsRetired(issued, k)
    BY <1>4 DEF KnowsRetired, IsStamped
  <2>2. QED
    BY <2>1, PutKnows DEF IsStamped
<1>5. t.rows \subseteq s.rows
  <2>1. /\ t.units = [k \in DOMAIN t.units |-> t.units[k]]
        /\ t.rows \subseteq issued.rows
    BY PutUnitsFields DEF IsStamped
  <2>2. QED
    BY <2>1 DEF IsStamped
<1>6. QED
  BY <1>3, <1>4, <1>5 DEF Keeps

LEMMA RecordKeeps ==
  ASSUME NEW s, StoreShape(s), Rooted(s), NEW stamp \in Stamp,
         \/ s.accepted # NoStamp => ~StampLess(stamp, s.accepted)
         \/ \A k \in DOMAIN s.units : ~StampLess(stamp, s.units[k].stamp),
         NEW commit, DOMAIN commit \subseteq Keys, CommitRooted(s, commit),
         NEW t, t = RecordChanges(s, commit, stamp), StoreShape(t)
  PROVE  Keeps(s, t)
<1> DEFINE changed == Changed(s, commit)
           versions == [k \in changed |-> [stamp |-> stamp, value |-> commit[k]]]
           issued == [s EXCEPT !.issued = stamp]
<1>1. IsStamped(s, issued, stamp)
  BY StampWritten
<1>2. issued.retired = s.retired
  BY DEF StoreShape, StoreFields
<1>3. \A k \in DOMAIN versions : versions[k].stamp = stamp
  OBVIOUS
<1>4. t = PutUnits(issued, versions, changed)
  BY DEF RecordChanges
<1>5. Rooted(t)
  BY RecordRooted
<1> HIDE DEF changed, versions, issued
<1>6. QED
  BY <1>1, <1>2, <1>3, <1>4, <1>5, StampedKeeps

LEMMA StampAnewKeeps ==
  ASSUME NEW s, StoreShape(s), Rooted(s), NEW stamp \in Stamp,
         s.accepted # NoStamp => ~StampLess(stamp, s.accepted),
         NEW upper, NEW t, t = StampAnew(s, upper, stamp), StoreShape(t)
  PROVE  Keeps(s, t)
<1> DEFINE ahead == {k \in s.outbox : s.units[k].stamp.physical > upper}
           versions == [k \in ahead |-> [stamp |-> stamp, value |-> s.units[k].value]]
           issued == [s EXCEPT !.issued = stamp]
<1>1. IsStamped(s, issued, stamp)
  BY StampWritten
<1>2. issued.retired = s.retired
  BY DEF StoreShape, StoreFields
<1>3. \A k \in DOMAIN versions : versions[k].stamp = stamp
  OBVIOUS
<1>4. t = PutUnits(issued, versions, ahead)
  BY DEF StampAnew
<1>5. Rooted(t)
  BY StampAnewRooted
<1> HIDE DEF ahead, versions, issued
<1>6. QED
  BY <1>1, <1>2, <1>3, <1>4, <1>5, StampedKeeps

(* Rows that are applied.                                                  *)
LEMMA RowsKeep ==
  ASSUME NEW s, StoreShape(s), Rooted(s), NEW rows \in SUBSET ReceivedRow, IsFiniteSet(rows),
         Held(s) \subseteq rows,
         NEW generating \in SUBSET Generated, NEW t, t = ApplyRows(s, rows, generating)
  PROVE  StoreShape(t) /\ t.accepted = s.accepted /\ Keeps(s, t)
<1>1. StoreShape(t) /\ t.accepted = s.accepted
  BY RowsOvertake DEF Receives
<1>2. AcceptsMore(s, t)
  BY <1>1, AcceptedStays
<1>3. ASSUME NEW k \in Keys, NEW stamp \in Stamp, Delivered(s, k, stamp)
      PROVE  Delivered(t, k, stamp)
  <2>1. Has(t, k, stamp)
    BY <1>3, RowsHas DEF Delivered
  <2>2. QED
    BY <1>1, <1>2, <1>3, <2>1, DeliveredStays
<1>4. /\ Rooted(t)
      /\ \A r \in t.rows : r.status = "held" => \E p \in Parents(r.key) : p \notin DOMAIN t.units
  BY RowsRooted
<1>5. \A k \in Keys : KnowsRetired(s, k) => KnowsRetired(t, k)
  BY RowsKnow
<1>6. QED
  BY <1>1, <1>3, <1>4, <1>5 DEF Keeps

------------------------------------------------------------------------------
(* Readers and the server.                                                 *)

(* A reader at a cursor has been shown no more than before, unless the      *)
(* cursor is no longer readable; a new pin has a new number.               *)
ReadersMove ==
  /\ \A c \in Nat : c <= head.seq /\ Readable(c)' =>
       /\ Readable(c)
       /\ \A k \in ShownBy(c)' : k \in ShownBy(c) /\ units'[k] = units[k]
  /\ next_pin' \in {next_pin, next_pin + 1}
  /\ \A p \in state_pins' : p \in state_pins \/ p.id = next_pin

LEMMA QuietReaders ==
  ASSUME StoreInv, UNCHANGED <<head, contents, journal, next_pin>>, state_pins' \subseteq state_pins
  PROVE  ReadersMove
<1>1. /\ head' = head /\ units' = units /\ journal' = journal /\ next_pin' = next_pin
      /\ next_pin \in Nat
  BY DEF contents, StoreInv, TypeOK
<1>2. QED
  BY <1>1 DEF ReadersMove, Readable, ShownBy, ChangesAfter

LEMMA PushReaders ==
  ASSUME StoreInv, NEW d \in DeviceIds, NEW op \in OperationIds,
         NEW request \in Request, NEW e \in BOOLEAN, AcceptPush(d, op, request, e)
  PROVE  ReadersMove
<1> DEFINE won == WonKeys(request)
           orphans == Orphans(request)
<1>1. /\ DOMAIN units' = (DOMAIN units \ orphans) \cup won
      /\ \A k \in DOMAIN units' \ won : units'[k] = units[k]
      /\ DOMAIN journal' = (DOMAIN journal \ orphans) \cup won
      /\ \A k \in won : journal'[k].seq = SeqOf(request, k)
      /\ \A k \in DOMAIN journal' \ won : journal'[k] = journal[k]
      /\ head'.min_retained_seq = head.min_retained_seq
      /\ head'.seq = head.seq + Cardinality(Winners(request))
      /\ state_pins' = state_pins /\ next_pin' = next_pin
  BY DEF AcceptPush, ApplyWinners, StoreInv, TypeOK
<1>2. /\ head.seq \in Nat /\ head.min_retained_seq \in Nat /\ next_pin \in Nat
      /\ Cardinality(Winners(request)) \in Nat
      /\ \A k \in DOMAIN journal : journal[k].seq \in Nat
  BY WinnerFacts DEF StoreInv, TypeOK, IsTable, JournalRow
<1>3. \A k \in won :
        SeqOf(request, k) \in head.seq + 1 .. head.seq + Cardinality(Winners(request))
  BY <1>2, SeqFacts
<1> HIDE DEF won, orphans
<1>4. ASSUME NEW c \in Nat, c <= head.seq, Readable(c)'
      PROVE  /\ Readable(c)
             /\ \A k \in ShownBy(c)' : k \in ShownBy(c) /\ units'[k] = units[k]
  <2>1. Readable(c)
    BY <1>1, <1>2, <1>4 DEF Readable
  <2>2. ASSUME NEW k \in ShownBy(c)'
        PROVE  k \in ShownBy(c) /\ units'[k] = units[k]
    <3>1. k \in DOMAIN units' /\ ~(k \in DOMAIN journal' /\ journal'[k].seq > c)
      BY DEF ShownBy, ChangesAfter
    <3>2. k \notin won
      <4>1. SUFFICES ASSUME k \in won PROVE FALSE
        OBVIOUS
      <4>2. k \in DOMAIN journal' /\ journal'[k].seq = SeqOf(request, k)
        BY <1>1, <4>1
      <4>3. SeqOf(request, k) \in head.seq + 1 .. head.seq + Cardinality(Winners(request))
        BY <1>3, <4>1
      <4>4. QED
        BY <1>2, <1>4, <3>1, <4>2, <4>3
    <3>3. k \in DOMAIN units /\ units'[k] = units[k] /\ k \notin orphans
      BY <1>1, <3>1, <3>2
    <3>4. ~(k \in DOMAIN journal /\ journal[k].seq > c)
      BY <1>1, <3>1, <3>2, <3>3
    <3>5. QED
      BY <3>3, <3>4 DEF ShownBy, ChangesAfter
  <2>3. QED
    BY <2>1, <2>2
<1>5. QED
  BY <1>1, <1>2, <1>4 DEF ReadersMove

LEMMA MaintainReaders ==
  ASSUME StoreInv, NEW holding, Maintain(holding)
  PROVE  ReadersMove
<1>1. /\ journal' = [k \in {x \in DOMAIN journal : journal[x].seq > NewFloor} |-> journal[k]]
      /\ units' = units /\ next_pin' = next_pin
      /\ head'.seq = head.seq /\ head'.min_retained_seq = NewFloor
      /\ state_pins' \subseteq state_pins
  BY DEF Maintain, contents, StoreInv, TypeOK, RemainingPins
<1>2. /\ NewFloor \in Nat /\ head.seq \in Nat /\ head.min_retained_seq \in Nat
      /\ NewFloor >= head.min_retained_seq /\ next_pin \in Nat
      /\ \A k \in DOMAIN journal : journal[k].seq \in Nat
  BY FloorFacts DEF StoreInv, TypeOK, IsTable, JournalRow
<1>3. ASSUME NEW c \in Nat, c <= head.seq, Readable(c)'
      PROVE  /\ Readable(c)
             /\ \A k \in ShownBy(c)' : k \in ShownBy(c) /\ units'[k] = units[k]
  <2>1. c >= NewFloor
    BY <1>1, <1>2, <1>3 DEF Readable
  <2>2. Readable(c)
    BY <1>2, <1>3, <2>1 DEF Readable
  <2>3. ASSUME NEW k \in ShownBy(c)'
        PROVE  k \in ShownBy(c)
    <3>1. k \in DOMAIN units /\ ~(k \in DOMAIN journal' /\ journal'[k].seq > c)
      BY <1>1 DEF ShownBy, ChangesAfter
    <3>2. ASSUME k \in DOMAIN journal, journal[k].seq > c
          PROVE  FALSE
      <4>1. journal[k].seq > NewFloor
        BY <1>2, <2>1, <3>2
      <4>2. k \in DOMAIN journal' /\ journal'[k] = journal[k]
        BY <1>1, <3>2, <4>1
      <4>3. QED
        BY <3>1, <3>2, <4>2
    <3>3. QED
      BY <3>1, <3>2 DEF ShownBy, ChangesAfter
  <2>4. QED
    BY <1>1, <2>2, <2>3
<1>4. QED
  BY <1>1, <1>2, <1>3 DEF ReadersMove

LEMMA CreateReaders ==
  ASSUME StoreInv, NEW d, CreateStatePin(d)
  PROVE  ReadersMove
<1>1. /\ head' = head /\ units' = units /\ journal' = journal /\ next_pin' = next_pin + 1
      /\ next_pin \in Nat
  BY DEF CreateStatePin, contents, StoreInv, TypeOK
<1>2. \A p \in state_pins' : p \in state_pins \/ p.id = next_pin
  BY DEF CreateStatePin
<1>3. QED
  BY <1>1, <1>2 DEF ReadersMove, Readable, ShownBy, ChangesAfter

(* What the pins show.                                                     *)
LEMMA PinsShowStays ==
  ASSUME LanesInv, PinsShow, ReadersMove, state_pins' \subseteq state_pins
  PROVE  PinsShow'
<1>1. /\ \A p \in state_pins : p.id \in Nat /\ p.start_seq \in Nat /\ p.start_seq <= head.seq
      /\ next_pin \in Nat
  BY DEF LanesInv, PinsInv, StoreInv, TypeOK
<1>2. ASSUME NEW p \in state_pins'
      PROVE  /\ p.id < next_pin'
             /\ Readable(p.start_seq)' => \A k \in ShownBy(p.start_seq)' :
                  k \in DOMAIN p.units /\ p.units[k] = units'[k]
  <2>1. p \in state_pins /\ p.id < next_pin
    BY DEF PinsShow
  <2>2. PICK c \in Nat : c = p.start_seq
    BY <1>1, <2>1
  <2>3. c <= head.seq
    BY <1>1, <2>1, <2>2
  <2>4. Readable(c)' => \A k \in ShownBy(c)' :
          k \in DOMAIN p.units /\ p.units[k] = units'[k]
    BY <2>1, <2>2, <2>3 DEF ReadersMove, PinsShow
  <2>5. p.id < next_pin'
    BY <1>1, <2>1 DEF ReadersMove
  <2>6. QED
    BY <2>2, <2>4, <2>5
<1>3. \A p, q \in state_pins' : p.id = q.id => p = q
  BY DEF PinsShow
<1>4. QED
  BY <1>2, <1>3 DEF PinsShow

(* A new pin shows what is shown at the head: the library.                 *)
LEMMA CreatedPinShows ==
  ASSUME LanesInv, PinsShow, NEW d, CreateStatePin(d)
  PROVE  PinsShow'
<1>1. /\ head' = head /\ units' = units /\ journal' = journal /\ next_pin' = next_pin + 1
      /\ next_pin \in Nat
      /\ \A p \in state_pins : p.id \in Nat /\ p.id < next_pin
  BY DEF CreateStatePin, contents, LanesInv, StoreInv, TypeOK, PinsShow
<1>2. ASSUME NEW p \in state_pins'
      PROVE  \/ p \in state_pins
             \/ p.id = next_pin /\ p.start_seq = head.seq /\ p.units = units
  BY DEF CreateStatePin
<1>3. \A p, q \in state_pins' : p.id = next_pin /\ q.id = next_pin => p = q
  BY <1>1 DEF CreateStatePin
<1>4. ASSUME NEW p \in state_pins', Readable(p.start_seq)', NEW k \in ShownBy(p.start_seq)'
      PROVE  k \in DOMAIN p.units /\ p.units[k] = units'[k]
  <2>1. Readable(p.start_seq) /\ k \in ShownBy(p.start_seq)
    BY <1>1, <1>4 DEF Readable, ShownBy, ChangesAfter
  <2>2. CASE p \in state_pins
    BY <1>1, <2>1, <2>2 DEF PinsShow
  <2>3. CASE p.units = units
    BY <1>1, <2>1, <2>3 DEF ShownBy
  <2>4. QED
    BY <1>2, <2>2, <2>3
<1>5. \A p \in state_pins' : p.id < next_pin'
  BY <1>1, <1>2
<1>6. \A p, q \in state_pins' : p.id = q.id => p = q
  BY <1>1, <1>2, <1>3 DEF PinsShow
<1>7. QED
  BY <1>4, <1>5, <1>6 DEF PinsShow

LEMMA StoredStamps ==
  ASSUME StoreInv
  PROVE  /\ \A k \in DOMAIN units : k \in Keys /\ units[k].stamp \in Stamp
         /\ \A p \in state_pins : \A k \in DOMAIN p.units : k \in Keys /\ p.units[k].stamp \in Stamp
BY DEF StoreInv, TypeOK, IsTable, Version

(* What a device has read it was given.                                    *)
LEMMA ReadIsGiven ==
  ASSUME NEW d \in Clients, ReadsOn(d), NEW k, HasRead(d, k)
  PROVE  \E v : Given(store[d], k, v)
<1>1. CASE Readable(cursor[d]) /\ k \in ShownBy(cursor[d])
  BY <1>1 DEF ReadsOn, CursorRead
<1>2. CASE IsApplied(page[d]) /\ Readable(page[d].cursor) /\ k \in ShownBy(page[d].cursor)
  BY <1>2 DEF ReadsOn, PageRead, OnPage, IsApplied
<1>3. ASSUME bootstrap[d] # None, NEW p \in state_pins, p.id = bootstrap[d].pin,
             k \in DOMAIN p.units,
             Rank(k) <= bootstrap[d].after \/ (IsApplied(page[d]) /\ Rank(k) <= page[d].after)
      PROVE  Given(store[d], k, p.units[k])
  BY <1>3 DEF ReadsOn, PinRead, OnPage, IsApplied
<1>4. QED
  BY <1>1, <1>2, <1>3 DEF HasRead

(* A row that is held waits for a parent the device has not been shown: a   *)
(* parent that was shown is there, or waits itself.                        *)
LEMMA HeldAreFresh ==
  ASSUME LanesInv, AllRooted, NEW d \in Clients, ReadsOn(d),
         NEW r \in store[d].rows, r.status = "held"
  PROVE  \E p \in Parents(r.key) : ~HasRead(d, p)
<1>1. PICK s : s = store[d]
  OBVIOUS
<1>2. StoreShape(s) /\ Rooted(s) /\ r \in s.rows
  BY <1>1 DEF LanesInv, StoresInv, AllRooted
<1>3. r.key \in Keys /\ Parents(r.key) \cap s.retired = {}
  BY <1>2 DEF StoreShape, Row, Rooted
<1>4. ASSUME NEW p \in Parents(r.key), p \notin DOMAIN s.units, HasRead(d, p)
      PROVE  \E w \in s.rows : w.key = p /\ w.status = "held"
  <2>1. PICK v : Given(s, p, v)
    BY <1>1, <1>4, ReadIsGiven
  <2>2. Parents(p) \subseteq Parents(r.key) /\ p[1] = "exists"
    BY <1>3, NestedParents, ParentsAreRecords
  <2>3. PICK w \in s.rows : w.key = p
    BY <1>3, <1>4, <2>1, <2>2 DEF Given, Delivered, Has, Stores
  <2>4. p \notin Generated
    BY <2>2, GeneratedAssumption
  <2>5. QED
    BY <1>2, <2>3, <2>4 DEF Rooted
<1>5. \A w \in s.rows : w.status = "held" =>
        \E p \in Parents(w.key) : p \notin DOMAIN s.units \/ ~HasRead(d, p)
  BY <1>1 DEF ReadsOn, Waits
<1>6. PICK p \in Parents(r.key) : p \notin DOMAIN s.units \/ ~HasRead(d, p)
  BY <1>2, <1>5
<1>7. SUFFICES ASSUME p \notin DOMAIN s.units, HasRead(d, p)
               PROVE  \E q \in Parents(r.key) : ~HasRead(d, q)
  BY <1>6
<1>8. PICK w \in s.rows : w.key = p /\ w.status = "held"
  BY <1>4, <1>7
<1>9. PICK q \in Parents(p) : q \notin DOMAIN s.units \/ ~HasRead(d, q)
  BY <1>5, <1>8
<1>10. q \in Parents(r.key) /\ Parents(q) = {}
  BY <1>3, NestedParents
<1>11. CASE HasRead(d, q)
  <2>1. PICK x \in s.rows : x.key = q /\ x.status = "held"
    BY <1>4, <1>9, <1>10, <1>11
  <2>2. QED
    BY <1>5, <1>10, <2>1
<1>12. CASE ~HasRead(d, q)
  BY <1>10, <1>12
<1>13. QED
  BY <1>11, <1>12

(* So it goes on waiting while the device is shown nothing more.            *)
LEMMA StillWaits ==
  ASSUME LanesInv, AllRooted, NEW d \in Clients, ReadsOn(d), Keeps(store[d], store'[d]),
         \A k : HasRead(d, k)' => HasRead(d, k)
  PROVE  Waits(d)'
<1>1. ASSUME NEW r \in store'[d].rows, r.status = "held"
      PROVE  \E p \in Parents(r.key) : p \notin DOMAIN store'[d].units \/ ~HasRead(d, p)'
  <2>1. CASE r \in store[d].rows
    <3>1. PICK p \in Parents(r.key) : ~HasRead(d, p)
      BY <1>1, <2>1, HeldAreFresh
    <3>2. QED
      BY <3>1
  <2>2. CASE \E p \in Parents(r.key) : p \notin DOMAIN store'[d].units
    BY <2>2
  <2>3. QED
    BY <1>1, <2>1, <2>2 DEF Keeps
<1>2. QED
  BY <1>1 DEF Waits

(* A device that does nothing with what it reads.                          *)
LEMMA DeviceReadsOn ==
  ASSUME LanesInv, AllRooted, ReadersMove, NEW d \in Clients, ReadsOn(d),
         Keeps(store[d], store'[d])
  PROVE  /\ cursor'[d] = cursor[d] => CursorRead(d)'
         /\ page'[d] = page[d] => PageRead(d)'
         /\ page'[d] = page[d] /\ bootstrap'[d] = bootstrap[d] => PinRead(d)'
         /\ cursor'[d] = cursor[d] /\ page'[d] = page[d] /\ bootstrap'[d] = bootstrap[d] =>
              Waits(d)'
<1>1. /\ \A k \in DOMAIN units : k \in Keys /\ units[k].stamp \in Stamp
      /\ \A p \in state_pins : \A k \in DOMAIN p.units : k \in Keys /\ p.units[k].stamp \in Stamp
  BY StoredStamps DEF LanesInv
<1>2. \A k \in Keys : \A v : v.stamp \in Stamp /\ Given(store[d], k, v) => Given(store'[d], k, v)
  BY DEF Keeps, Given
<1>3. ASSUME NEW c \in Nat, c <= head.seq, Readable(c)', NEW k \in ShownBy(c)'
      PROVE  /\ Readable(c) /\ k \in ShownBy(c) /\ units'[k] = units[k]
             /\ k \in Keys /\ units[k].stamp \in Stamp
  BY <1>1, <1>3 DEF ReadersMove, ShownBy
<1>4. /\ cursor[d] \in Nat /\ cursor[d] <= head.seq
      /\ page[d] # None => page[d].cursor \in Nat /\ page[d].cursor <= head.seq
  BY DEF LanesInv, CursorsInv, PagesInv, Page
<1>5. ASSUME cursor'[d] = cursor[d]
      PROVE  CursorRead(d)'
  <2>1. PICK c \in Nat : c = cursor[d] /\ c <= head.seq
    BY <1>4
  <2>2. ASSUME Readable(c)', NEW k \in ShownBy(c)'
        PROVE  Given(store'[d], k, units'[k])
    <3>1. /\ Readable(c) /\ k \in ShownBy(c) /\ units'[k] = units[k]
          /\ k \in Keys /\ units[k].stamp \in Stamp
      BY <1>3, <2>1, <2>2
    <3>2. Given(store[d], k, units[k])
      BY <2>1, <3>1 DEF ReadsOn, CursorRead
    <3>3. QED
      BY <1>2, <3>1, <3>2
  <2>3. QED
    BY <1>5, <2>1, <2>2 DEF CursorRead
<1>6. ASSUME page'[d] = page[d]
      PROVE  PageRead(d)'
  <2>1. SUFFICES ASSUME page[d] # None, Readable(page[d].cursor)'
                 PROVE  \A k \in ShownBy(page[d].cursor)' :
                          Given(store'[d], k, units'[k]) \/ OnPage(page[d], k, units'[k])
    BY <1>6 DEF PageRead
  <2>2. PICK c \in Nat : c = page[d].cursor /\ c <= head.seq
    BY <1>4, <2>1
  <2>3. ASSUME NEW k \in ShownBy(c)'
        PROVE  Given(store'[d], k, units'[k]) \/ OnPage(page[d], k, units'[k])
    <3>1. /\ Readable(c) /\ k \in ShownBy(c) /\ units'[k] = units[k]
          /\ k \in Keys /\ units[k].stamp \in Stamp
      BY <1>3, <1>6, <2>1, <2>2, <2>3
    <3>2. Given(store[d], k, units[k]) \/ OnPage(page[d], k, units[k])
      BY <2>1, <2>2, <3>1 DEF ReadsOn, PageRead
    <3>3. QED
      BY <1>2, <3>1, <3>2
  <2>4. QED
    BY <1>6, <2>2, <2>3
<1>7. bootstrap[d] # None =>
        bootstrap[d].pin \in Nat /\ next_pin \in Nat /\ bootstrap[d].pin < next_pin
  BY DEF LanesInv, PinsInv, StateRead, StoreInv, TypeOK, ReadsOn, PinRead
<1>8. ASSUME bootstrap[d] # None, NEW p \in state_pins', p.id = bootstrap[d].pin
      PROVE  p \in state_pins
  BY <1>7, <1>8 DEF ReadersMove
<1>9. ASSUME page'[d] = page[d], bootstrap'[d] = bootstrap[d]
      PROVE  PinRead(d)'
  <2>1. SUFFICES ASSUME bootstrap[d] # None PROVE PinRead(d)'
    BY <1>9 DEF PinRead
  <2>2. bootstrap'[d].pin < next_pin'
    BY <1>7, <1>9, <2>1 DEF ReadersMove
  <2>3. ASSUME NEW p \in state_pins', p.id = bootstrap[d].pin, NEW k \in DOMAIN p.units
        PROVE  /\ Rank(k) <= bootstrap[d].after => Given(store'[d], k, p.units[k])
               /\ page[d] # None /\ Rank(k) <= page[d].after =>
                    Given(store'[d], k, p.units[k]) \/ OnPage(page[d], k, p.units[k])
    <3>1. p \in state_pins
      BY <1>8, <2>1, <2>3
    <3>2. k \in Keys /\ p.units[k].stamp \in Stamp
      BY <1>1, <3>1
    <3>3. /\ Rank(k) <= bootstrap[d].after => Given(store[d], k, p.units[k])
          /\ page[d] # None /\ Rank(k) <= page[d].after =>
               Given(store[d], k, p.units[k]) \/ OnPage(page[d], k, p.units[k])
      BY <2>1, <2>3, <3>1 DEF ReadsOn, PinRead
    <3>4. QED
      BY <1>2, <3>2, <3>3
  <2>4. QED
    BY <1>9, <2>2, <2>3 DEF PinRead
<1>10. ASSUME cursor'[d] = cursor[d], page'[d] = page[d], bootstrap'[d] = bootstrap[d]
       PROVE  Waits(d)'
  <2>1. ASSUME NEW k, HasRead(d, k)'
        PROVE  HasRead(d, k)
    <3>5. PICK c \in Nat : c = cursor[d] /\ c <= head.seq
      BY <1>4
    <3>6. PICK g : g = page[d]
      OBVIOUS
    <3>1. CASE Readable(c)' /\ k \in ShownBy(c)'
      BY <1>3, <3>1, <3>5 DEF HasRead
    <3>2. CASE IsApplied(g) /\ Readable(g.cursor)' /\ k \in ShownBy(g.cursor)'
      <4>1. PICK e \in Nat : e = g.cursor /\ e <= head.seq
        BY <1>4, <3>2, <3>6 DEF IsApplied
      <4>2. Readable(e) /\ k \in ShownBy(e)
        BY <1>3, <3>2, <4>1
      <4>3. QED
        BY <3>2, <3>6, <4>1, <4>2 DEF HasRead
    <3>3. CASE /\ bootstrap[d] # None
               /\ \E p \in state_pins' :
                    /\ p.id = bootstrap[d].pin /\ k \in DOMAIN p.units
                    /\ \/ Rank(k) <= bootstrap[d].after
                       \/ IsApplied(page[d]) /\ Rank(k) <= page[d].after
      BY <1>8, <3>3 DEF HasRead
    <3>4. QED
      <4>1. cursor'[d] = c /\ page'[d] = g
        BY <1>10, <3>5, <3>6
      <4>2. QED
        BY <1>10, <2>1, <3>1, <3>2, <3>3, <4>1 DEF HasRead
  <2>2. QED
    BY <2>1, StillWaits
<1>11. QED
  BY <1>5, <1>6, <1>9, <1>10

(* What the devices have been given stays with them.                       *)
AllKeep == \A d \in Clients : Keeps(store[d], store'[d])

LEMMA KeepStay ==
  ASSUME AllRooted, UNCHANGED store
  PROVE  AllKeep
BY DEF AllRooted, AllKeep, Keeps

LEMMA KeepStep ==
  ASSUME LanesInv, AllRooted, NEW d \in Clients, NEW t, store' = [store EXCEPT ![d] = t],
         Keeps(store[d], t)
  PROVE  AllKeep
<1>1. \A e \in Clients : store'[e] = IF e = d THEN t ELSE store[e]
  BY DEF LanesInv, StoresInv
<1>2. ASSUME NEW e \in Clients \ {d}
      PROVE  Keeps(store[e], store[e])
  BY DEF AllRooted, Keeps
<1>3. QED
  BY <1>1, <1>2 DEF AllKeep

(* A step that reads nothing, and one that reads for one device.            *)
LEMMA AllReadOn ==
  ASSUME LanesInv, ReadInv, ReadersMove, AllKeep, PinsShow',
         UNCHANGED <<cursor, page, bootstrap>>
  PROVE  ReadInv'
<1>1. ASSUME NEW d \in Clients
      PROVE  ReadsOn(d)'
  <2>1. CursorRead(d)' /\ PageRead(d)' /\ PinRead(d)' /\ Waits(d)'
    BY DeviceReadsOn DEF ReadInv, AllKeep
  <2>2. QED
    BY <2>1 DEF ReadsOn
<1>2. QED
  BY <1>1 DEF ReadInv, AllRooted, AllKeep, Keeps

LEMMA OthersReadOn ==
  ASSUME LanesInv, ReadInv, ReadersMove, AllKeep, PinsShow', NEW d \in Clients, ReadsOn(d)',
         \A e \in Clients \ {d} : /\ cursor'[e] = cursor[e] /\ page'[e] = page[e]
                                  /\ bootstrap'[e] = bootstrap[e]
  PROVE  ReadInv'
<1>1. ASSUME NEW e \in Clients \ {d}
      PROVE  ReadsOn(e)'
  <2>1. CursorRead(e)' /\ PageRead(e)' /\ PinRead(e)' /\ Waits(e)'
    BY DeviceReadsOn DEF ReadInv, AllKeep
  <2>2. QED
    BY <2>1 DEF ReadsOn
<1>2. QED
  BY <1>1 DEF ReadInv, AllRooted, AllKeep, Keeps

LEMMA StillReaders ==
  ASSUME LanesInv, ReadInv, UNCHANGED vars
  PROVE  ReadersMove /\ PinsShow'
<1>1. /\ UNCHANGED <<head, contents, journal, next_pin>>
      /\ state_pins' \subseteq state_pins
  BY DEF vars
<1>2. ReadersMove
  BY <1>1, QuietReaders DEF LanesInv
<1>3. QED
  BY <1>1, <1>2, PinsShowStays DEF ReadInv

LEMMA OwnReads ==
  ASSUME LanesInv, ReadInv, UNCHANGED vars, AllKeep, UNCHANGED <<cursor, page, bootstrap>>
  PROVE  ReadInv'
BY StillReaders, AllReadOn

(* What a device does to its store.                                        *)
LEMMA EditReads ==
  ASSUME LanesInv, AllRooted, NEW d \in Clients, NEW commit \in Commits, NEW wall \in 0 .. MaxWall,
         Edit(d, commit, wall)
  PROVE  AllKeep
<1>1. PICK s : s = store[d]
  OBVIOUS
<1>2. StoreShape(s) /\ Rooted(s)
  BY <1>1 DEF LanesInv, StoresInv, AllRooted
<1>3. PICK stamp : stamp = IssueStamp(wall, WriterOf[d], Seen(s))
  OBVIOUS
<1>4. stamp \in Stamp /\ \A old \in Seen(s) : ~StampLess(stamp, old)
  BY <1>2, <1>3, IssuedOverSeen
<1>5. PICK t : t = RecordChanges(s, commit, stamp)
  OBVIOUS
<1>6. StoreShape(t)
  BY <1>2, <1>4, <1>5, RecordChangesComes, CommitsAssumption
<1>7. s.accepted # NoStamp => ~StampLess(stamp, s.accepted)
  BY <1>4 DEF Seen
<1>8. Keeps(s, t)
  <2>1. CommitRooted(s, commit)
    BY <1>1, OfferedIsRooted DEF Edit
  <2>2. DOMAIN commit \subseteq Keys
    BY CommitsAssumption DEF IsTable
  <2>3. QED
    BY <1>2, <1>4, <1>5, <1>6, <1>7, <2>1, <2>2, RecordKeeps
<1>9. store' = [store EXCEPT ![d] = t]
  BY <1>1, <1>3, <1>5 DEF Edit
<1>10. QED
  BY <1>1, <1>8, <1>9, KeepStep

LEMMA InterruptEditReads ==
  ASSUME LanesInv, AllRooted, NEW d \in Clients, NEW commit \in Commits, NEW wall \in 0 .. MaxWall,
         InterruptEdit(d, commit, wall)
  PROVE  AllKeep
<1>1. PICK s : s = store[d]
  OBVIOUS
<1>2. StoreShape(s) /\ Rooted(s)
  BY <1>1 DEF LanesInv, StoresInv, AllRooted
<1>3. PICK stamp : stamp = IssueStamp(wall, WriterOf[d], Seen(s))
  OBVIOUS
<1>4. stamp \in Stamp
  BY <1>2, <1>3, IssuedOverSeen
<1>5. PICK t : t = ReserveIntent(s, commit, stamp)
  OBVIOUS
<1>6. /\ t.units = s.units /\ t.rows = s.rows /\ t.retired = s.retired
      /\ t.accepted = s.accepted
  BY <1>2, <1>5 DEF ReserveIntent, StoreShape, StoreFields
<1>7. StoreShape(t)
  BY <1>2, <1>4, <1>5, ReserveIntentComes, CommitsAssumption
<1>8. Keeps(s, t)
  <2>1. CommitRooted(s, commit)
    BY <1>1, OfferedIsRooted DEF InterruptEdit
  <2>2. t.intents = {[commit |-> commit, stamp |-> stamp, fresh |-> TRUE]}
    BY <1>2, <1>5 DEF ReserveIntent, StoreShape, StoreFields
  <2>3. \A i \in t.intents : i.commit = commit
    BY <2>2
  <2>4. Rooted(t)
    BY <1>2, <1>6, <2>1, <2>3, SameIsRooted
  <2>5. QED
    BY <1>2, <1>6, <1>7, <2>4, AcceptedStays, SameIsKept
<1>9. store' = [store EXCEPT ![d] = t]
  BY <1>1, <1>3, <1>5 DEF InterruptEdit
<1>10. QED
  BY <1>1, <1>8, <1>9, KeepStep

(* The stamp of a fresh intent is not below what it replaces.               *)
LEMMA RecoverIntentsReads ==
  ASSUME LanesInv, AllRooted, ClocksInv, NEW d \in Clients, RecoverIntents(d)
  PROVE  AllKeep
<1>1. PICK s : s = store[d]
  OBVIOUS
<1>2. StoreShape(s) /\ Rooted(s) /\ ClockInv(s) /\ s.intents # {}
  BY <1>1 DEF LanesInv, StoresInv, AllRooted, ClocksInv, RecoverIntents
<1>3. PICK t : t = ReplayIntent(s)
  OBVIOUS
<1>4. StoreShape(t)
  BY <1>2, <1>3, ReplayIntentComes
<1> DEFINE intent == CHOOSE i \in s.intents : TRUE
           closed == [s EXCEPT !.intents = {}]
<1>5. intent \in s.intents
  BY <1>2
<1>6. /\ closed.units = s.units /\ closed.rows = s.rows /\ closed.retired = s.retired
      /\ closed.accepted = s.accepted
  BY <1>2 DEF StoreShape, StoreFields
<1>7. StoreShape(closed)
  BY <1>2, StoreExcept DEF StoreShape
<1>8. \/ intent.fresh /\ t = RecordChanges(closed, intent.commit, intent.stamp)
      \/ t = closed
  BY <1>3 DEF ReplayIntent
<1>9. Rooted(closed) /\ CommitRooted(closed, intent.commit) /\ DOMAIN intent.commit \subseteq Keys
  <2>1. closed.intents = {}
    BY <1>2 DEF StoreShape, StoreFields
  <2>2. CommitRooted(s, intent.commit) /\ DOMAIN intent.commit \subseteq Keys
    BY <1>2, <1>5 DEF Rooted, StoreShape, IntentShape, IsTable
  <2> HIDE DEF intent, closed
  <2>3. Rooted(closed)
    BY <1>2, <1>6, <2>1, SameIsRooted
  <2>4. QED
    BY <1>6, <2>2, <2>3 DEF CommitRooted
<1> HIDE DEF intent, closed
<1>10. Keeps(s, closed)
  BY <1>2, <1>6, <1>7, <1>9, AcceptedStays, SameIsKept
<1>11. ASSUME intent.fresh, t = RecordChanges(closed, intent.commit, intent.stamp)
       PROVE  Keeps(s, t)
  <2>1. PICK stamp : stamp = intent.stamp
    OBVIOUS
  <2>2. stamp \in Stamp
    BY <1>2, <1>5, <2>1 DEF StoreShape, IntentShape
  <2>3. \A k \in DOMAIN closed.units : ~StampLess(stamp, closed.units[k].stamp)
    BY <1>2, <1>5, <1>6, <1>11, <2>1 DEF ClockInv
  <2>4. Keeps(closed, t)
    BY <1>4, <1>7, <1>9, <1>11, <2>1, <2>2, <2>3, RecordKeeps
  <2>5. QED
    BY <1>6, <1>10, <2>4 DEF Keeps
<1>12. Keeps(s, t)
  BY <1>8, <1>10, <1>11
<1>13. store' = [store EXCEPT ![d] = t]
  BY <1>1, <1>3 DEF RecoverIntents
<1>14. QED
  BY <1>1, <1>12, <1>13, KeepStep

LEMMA RetryUnpublishedReads ==
  ASSUME LanesInv, AllRooted, NEW d \in Clients, NEW corrected \in 0 .. MaxWall,
         RetryUnpublished(d, corrected)
  PROVE  AllKeep
<1>1. PICK s : s = store[d]
  OBVIOUS
<1>2. StoreShape(s) /\ Rooted(s)
  BY <1>1 DEF LanesInv, StoresInv, AllRooted
<1>3. PICK stamp : stamp = NewStamp(s, corrected, WriterOf[d])
  OBVIOUS
<1>4. stamp \in Stamp /\ (s.accepted # NoStamp => ~StampLess(stamp, s.accepted))
  BY <1>2, <1>3, IssuedOverAccepted
<1>5. PICK upper : upper = corrected + MAX_CLOCK_SKEW
  OBVIOUS
<1>6. PICK t : t = StampAnew(s, upper, stamp)
  OBVIOUS
<1>7. StoreShape(t)
  BY <1>2, <1>4, <1>6, StampAnewComes
<1>8. Keeps(s, t)
  BY <1>2, <1>4, <1>6, <1>7, StampAnewKeeps
<1>9. store' = [store EXCEPT ![d] = t]
  BY <1>1, <1>3, <1>5, <1>6 DEF RetryUnpublished
<1>10. QED
  BY <1>1, <1>8, <1>9, KeepStep

LEMMA AcknowledgePublicationReads ==
  ASSUME LanesInv, AllRooted, NEW d \in Clients, NEW logged \in BOOLEAN,
         AcknowledgePublication(d, logged)
  PROVE  AllKeep
<1>1. PICK changes : changes = ChangesOf(publication[d].request)
  OBVIOUS
<1>2. changes \in SUBSET Change /\ IsFiniteSet(changes)
  BY <1>1, RequestIsFinite DEF AcknowledgePublication, LanesInv, PublicationsInv, Publication
<1>3. CASE publication[d].receipt = "accepted"
  <2>1. PICK s : s = store[d]
    OBVIOUS
  <2>2. StoreShape(s) /\ Rooted(s)
    BY <2>1 DEF LanesInv, StoresInv, AllRooted
  <2>3. PICK a : a = AckOutbox(s, changes)
    OBVIOUS
  <2>4. StoreShape(a)
    BY <2>2, <2>3, AckOutboxComes
  <2>5. /\ a.units = s.units /\ a.rows = s.rows /\ a.retired = s.retired
        /\ a.accepted = s.accepted /\ a.intents = s.intents
    BY <2>2, <2>3 DEF AckOutbox, StoreShape, StoreFields
  <2>6. PICK stamps : stamps = {c.stamp : c \in changes}
    OBVIOUS
  <2>7. stamps \in SUBSET Stamp /\ IsFiniteSet(stamps)
    BY <1>2, <2>6, StampsOf
  <2>8. PICK t : t = Observe(a, stamps)
    OBVIOUS
  <2>9. /\ StoreShape(t) /\ AcceptsMore(a, t)
        /\ t.units = a.units /\ t.rows = a.rows /\ t.retired = a.retired
        /\ t.intents = a.intents
    BY <2>4, <2>7, <2>8, ObserveComes, ObserveSees, ObserveAccepts
  <2>10. Keeps(s, t)
    <3>1. AcceptsMore(s, t)
      BY <2>5, <2>9 DEF AcceptsMore
    <3>2. Rooted(t)
      BY <2>2, <2>5, <2>9, SameIsRooted DEF Rooted
    <3>3. QED
      BY <2>2, <2>5, <2>9, <3>1, <3>2, SameIsKept
  <2>11. store' = [store EXCEPT ![d] = t]
    BY <1>1, <1>3, <2>1, <2>3, <2>6, <2>8 DEF AcknowledgePublication
  <2>12. QED
    BY <2>1, <2>10, <2>11, KeepStep
<1>4. CASE publication[d].receipt # "accepted"
  BY <1>4, KeepStay DEF AcknowledgePublication
<1>5. QED
  BY <1>3, <1>4

LEMMA DrainReads ==
  ASSUME LanesInv, AllRooted, NEW d \in Clients, NEW generating \in SUBSET Generated,
         Drain(d, generating)
  PROVE  AllKeep
<1>1. PICK s : s = store[d]
  OBVIOUS
<1>2. StoreShape(s) /\ Rooted(s)
  BY <1>1 DEF LanesInv, StoresInv, AllRooted
<1>3. PICK rows : rows = s.rows
  OBVIOUS
<1>4. rows \in SUBSET ReceivedRow /\ IsFiniteSet(rows) /\ Held(s) \subseteq rows
  BY <1>2, <1>3, RowsAreReceived DEF StoreShape, Held
<1>5. PICK t : t = ApplyRows(s, rows, generating)
  OBVIOUS
<1>6. Keeps(s, t)
  BY <1>2, <1>4, <1>5, RowsKeep
<1>7. store' = [store EXCEPT ![d] = t]
  BY <1>1, <1>3, <1>5 DEF Drain
<1>8. QED
  BY <1>1, <1>6, <1>7, KeepStep

------------------------------------------------------------------------------
(* What the receive lane reads.                                            *)

(* What comes before one of the first is one of the first.                 *)
FirstBy(n, S, f) == {x \in S : Cardinality({y \in S : f[y] < f[x]}) < n}

LEMMA FirstAreInitial ==
  ASSUME NEW S, IsFiniteSet(S), NEW f, \A x \in S : f[x] \in Nat, NEW n \in Nat,
         NEW m \in FirstBy(n, S, f), NEW k \in S, f[k] <= f[m]
  PROVE  k \in FirstBy(n, S, f)
<1> DEFINE under == {y \in S : f[y] < f[k]}
           upto == {y \in S : f[y] < f[m]}
<1>1. m \in S /\ Cardinality(upto) < n
  BY DEF FirstBy
<1>2. under \in SUBSET upto
  BY <1>1
<1>3. upto \in SUBSET S
  OBVIOUS
<1> HIDE DEF under, upto
<1>4. IsFiniteSet(upto) /\ IsFiniteSet(under)
  BY <1>2, <1>3, FS_Subset
<1>5. Cardinality(under) <= Cardinality(upto)
  BY <1>2, <1>4, FS_Subset
<1>6. Cardinality(under) \in Nat /\ Cardinality(upto) \in Nat
  BY <1>4, FS_CardinalityType
<1>7. Cardinality(under) < n
  BY <1>1, <1>5, <1>6
<1>8. QED
  BY <1>7 DEF under, FirstBy

LEMMA SomeAreFirst ==
  ASSUME NEW S, S # {}, NEW f, \A x \in S : f[x] \in Nat, NEW n \in Nat \ {0}
  PROVE  FirstBy(n, S, f) # {}
<1>1. PICK x \in S : {y \in S : f[y] < f[x]} = {}
  BY FirstOfSome
<1>2. Cardinality({y \in S : f[y] < f[x]}) < n
  BY <1>1, FS_EmptySet
<1>3. QED
  BY <1>2 DEF FirstBy

(* A page that was just stored.                                            *)
LEMMA PageOf ==
  ASSUME NEW keys, NEW versions, NEW next, NEW last, NEW after, NEW p,
         p = [changes |-> {[key |-> k, stamp |-> versions[k].stamp, value |-> versions[k].value] :
                             k \in keys},
              cursor |-> next, last |-> last, after |-> after, status |-> "stored"]
  PROVE  /\ p.cursor = next /\ p.after = after /\ p.status = "stored"
         /\ \A k \in keys : OnPage(p, k, versions[k])
<1>1. PICK changes : changes = {[key |-> k, stamp |-> versions[k].stamp,
                                 value |-> versions[k].value] : k \in keys}
  OBVIOUS
<1>2. p.changes = changes /\ p.cursor = next /\ p.after = after /\ p.status = "stored"
  BY <1>1
<1>3. ASSUME NEW k \in keys
      PROVE  \E c \in changes : c.key = k /\ Same(c, versions[k])
  <2>1. PICK c : c = [key |-> k, stamp |-> versions[k].stamp, value |-> versions[k].value]
    OBVIOUS
  <2>2. c \in changes
    BY <1>1, <2>1
  <2>3. c.key = k /\ Same(c, versions[k])
    BY <2>1 DEF Same
  <2>4. QED
    BY <2>2, <2>3
<1>4. QED
  BY <1>2, <1>3 DEF OnPage

LEMMA RankFacts ==
  ASSUME NEW k \in Keys
  PROVE  Rank(k) \in Nat \ {0}
<1>1. \E i \in DOMAIN KeyOrder : KeyOrder[i] = k
  BY KeyOrderAssumption
<1>2. Rank(k) \in DOMAIN KeyOrder
  BY <1>1 DEF Rank
<1>3. Cardinality(Keys) \in Nat
  BY KeyOrderAssumption, FS_CardinalityType
<1>4. QED
  BY <1>2, <1>3, KeyOrderAssumption

(* A page is as good as what it carries.                                   *)
LEMMA PageIsRead ==
  ASSUME LanesInv, ReadInv, NEW d \in Clients, NEW p, page' = [page EXCEPT ![d] = p],
         p.status = "stored", UNCHANGED <<vars, store, cursor, bootstrap>>,
         Readable(p.cursor) => \A k \in ShownBy(p.cursor) :
           Given(store[d], k, units[k]) \/ OnPage(p, k, units[k]),
         bootstrap[d] # None => \A pin \in state_pins : pin.id = bootstrap[d].pin =>
           \A k \in DOMAIN pin.units : Rank(k) <= p.after =>
             Given(store[d], k, pin.units[k]) \/ OnPage(p, k, pin.units[k])
  PROVE  ReadInv'
<1>1. /\ ReadersMove /\ PinsShow' /\ AllKeep
      /\ units' = units /\ journal' = journal /\ head' = head /\ state_pins' = state_pins
      /\ next_pin' = next_pin /\ cursor' = cursor /\ bootstrap' = bootstrap /\ store' = store
  BY StillReaders, KeepStay DEF ReadInv, vars, contents
<1>2. \A e \in Clients : page'[e] = IF e = d THEN p ELSE page[e]
  BY DEF LanesInv, PagesInv
<1>3. ReadsOn(d) /\ AllRooted
  BY DEF ReadInv
<1>4. CursorRead(d)'
  BY <1>1, <1>3, DeviceReadsOn DEF AllKeep
<1>5. PageRead(d)'
  BY <1>1, <1>2 DEF PageRead, Readable, ShownBy, ChangesAfter
<1>6. PinRead(d)'
  <2>1. PinRead(d)
    BY <1>3 DEF ReadsOn
  <2>2. QED
    BY <1>1, <1>2, <2>1 DEF PinRead
<1>7. Waits(d)'
  <2>1. \A k : HasRead(d, k)' => HasRead(d, k)
    BY <1>1, <1>2 DEF HasRead, IsApplied, Readable, ShownBy, ChangesAfter
  <2>2. QED
    BY <1>1, <1>3, <2>1, StillWaits DEF AllKeep
<1>8. ReadsOn(d)'
  BY <1>4, <1>5, <1>6, <1>7 DEF ReadsOn
<1>9. QED
  BY <1>1, <1>2, <1>8, OthersReadOn

(* Up to where a page of the journal ends it carries all that changed.      *)
LEMMA ReadChangesReads ==
  ASSUME LanesInv, ReadInv, NEW d \in Clients, ReadChanges(d)
  PROVE  ReadInv'
<1> DEFINE rows == ChangesAfter(cursor[d])
           keys == FirstOf(PageLimit, DOMAIN rows, LAMBDA k : rows[k].seq)
<1>1. PICK p : p = [changes |-> {[key |-> k, stamp |-> rows[k].stamp, value |-> rows[k].value] :
                                   k \in keys},
                    cursor |-> NextAfter(rows, keys), last |-> FALSE, after |-> 0,
                    status |-> "stored"]
  OBVIOUS
<1>2. page' = [page EXCEPT ![d] = p]
  BY <1>1 DEF ReadChanges, StorePage
<1>3. UNCHANGED <<vars, store, cursor, bootstrap>> /\ bootstrap[d] = None /\ Readable(cursor[d])
  BY DEF ReadChanges
<1>4. /\ DOMAIN rows = {k \in DOMAIN journal : journal[k].seq > cursor[d]}
      /\ \A k \in DOMAIN rows : rows[k] = journal[k]
  BY DEF ChangesAfter
<1>5. keys = {x \in DOMAIN rows : Cardinality({y \in DOMAIN rows : rows[y].seq < rows[x].seq})
                                    < PageLimit}
  BY DEF FirstOf
<1> HIDE DEF rows, keys
<1>6. \A k \in DOMAIN journal :
        /\ k \in Keys /\ k \in DOMAIN units /\ journal[k].seq \in Nat
        /\ units[k] = VersionOf(journal[k])
  BY DEF LanesInv, StoreInv, TypeOK, IsTable, JournalRow, JournalMirrorsLibrary
<1>7. /\ p.cursor = NextAfter(rows, keys) /\ p.status = "stored"
      /\ \A k \in keys : OnPage(p, k, rows[k])
  BY <1>1, PageOf
<1>8. ASSUME NEW k \in DOMAIN rows, rows[k].seq <= p.cursor
      PROVE  k \in keys
  <2>1. CASE keys = DOMAIN rows
    BY <1>8, <2>1
  <2>2. CASE keys # DOMAIN rows
    <3> DEFINE seqs == {rows[x].seq : x \in keys}
               f == [x \in DOMAIN rows |-> rows[x].seq]
    <3>1. p.cursor = Max(seqs)
      BY <1>7, <2>2 DEF NextAfter
    <3>2. \A x \in DOMAIN rows : x \in Keys /\ rows[x].seq \in Nat /\ f[x] = rows[x].seq
      BY <1>4, <1>6
    <3>3. keys \subseteq DOMAIN rows
      BY <1>5
    <3>4. IsFiniteSet(DOMAIN rows) /\ IsFiniteSet(keys)
      BY <3>2, <3>3, KeyOrderAssumption, FS_Subset
    <3>5. PICK S : S = DOMAIN rows
      OBVIOUS
    <3>6. /\ keys = FirstBy(PageLimit, S, f) /\ keys # {}
          /\ IsFiniteSet(S) /\ \A x \in S : f[x] \in Nat
      <4>1. keys = FirstBy(PageLimit, S, f)
        BY <1>5, <3>5 DEF FirstBy
      <4>2. \A x \in S : f[x] \in Nat
        BY <3>2, <3>5
      <4> HIDE DEF f
      <4>3. keys # {}
        BY <1>8, <3>5, <4>1, <4>2, SomeAreFirst, ClientBounds
      <4>4. QED
        BY <3>4, <3>5, <4>1, <4>2, <4>3
    <3>7. seqs \in SUBSET Nat /\ seqs # {}
      BY <3>2, <3>3, <3>6
    <3>8. IsFiniteSet(seqs)
      <4>1. PICK g : g = [x \in keys |-> rows[x].seq]
        OBVIOUS
      <4>2. DOMAIN g = keys /\ seqs = {g[x] : x \in keys}
        BY <4>1
      <4> HIDE DEF seqs
      <4>3. QED
        BY <3>4, <4>2, FiniteImage
    <3>9. Max(seqs) \in seqs
      <4> HIDE DEF seqs
      <4>1. QED
        BY <3>7, <3>8, MaxOfNaturals
    <3>10. PICK m \in keys : rows[m].seq = p.cursor
      BY <3>1, <3>9
    <3>11. f[k] <= f[m]
      BY <1>8, <3>2, <3>3, <3>10
    <3> HIDE DEF f
    <3>12. QED
      BY <1>8, <3>5, <3>6, <3>11, FirstAreInitial, ClientBounds
  <2>3. QED
    BY <2>1, <2>2
<1>9. ASSUME Readable(p.cursor), NEW k \in ShownBy(p.cursor)
      PROVE  Given(store[d], k, units[k]) \/ OnPage(p, k, units[k])
  <2>1. k \in DOMAIN units /\ ~(k \in DOMAIN journal /\ journal[k].seq > p.cursor)
    BY <1>9 DEF ShownBy, ChangesAfter
  <2>2. CASE k \in DOMAIN rows
    <3>1. k \in DOMAIN journal /\ rows[k] = journal[k]
      BY <1>4, <2>2
    <3>2. journal[k].seq \in Nat /\ p.cursor \in Int
      BY <1>6, <1>9, <3>1 DEF Readable, LanesInv, StoreInv, TypeOK
    <3>3. k \in keys
      BY <1>8, <2>1, <2>2, <3>1, <3>2
    <3>4. units[k] = VersionOf(journal[k])
      BY <1>6, <3>1
    <3>5. units[k].stamp = rows[k].stamp /\ units[k].value = rows[k].value
      BY <3>1, <3>4 DEF VersionOf
    <3>6. OnPage(p, k, rows[k])
      BY <1>7, <3>3
    <3>7. QED
      BY <3>5, <3>6 DEF OnPage, Same
  <2>3. CASE k \notin DOMAIN rows
    <3>1. k \in ShownBy(cursor[d])
      BY <2>1, <2>3 DEF ShownBy, rows
    <3>2. QED
      BY <1>3, <3>1 DEF ReadInv, ReadsOn, CursorRead
  <2>4. QED
    BY <2>2, <2>3
<1>10. QED
  BY <1>2, <1>3, <1>7, <1>9, PageIsRead

(* A page of a pin carries what follows on what was read, and the last one  *)
(* all that is left.                                                       *)
LEMMA ReadStatePageReads ==
  ASSUME LanesInv, ReadInv, NEW d \in Clients, ReadStatePage(d)
  PROVE  ReadInv'
<1>1. PICK pin \in Pinned(d) :
        LET left == {k \in DOMAIN pin.units : Rank(k) > bootstrap[d].after}
            keys == FirstOf(PageLimit, left, Rank)
        IN StorePage(d, {[key |-> k, stamp |-> pin.units[k].stamp, value |-> pin.units[k].value] :
                           k \in keys},
                     IF keys = left THEN pin.start_seq ELSE cursor[d], keys = left,
                     Max({Rank(k) : k \in keys} \cup {0}))
  BY DEF ReadStatePage
<1>2. PICK left : left = {k \in DOMAIN pin.units : Rank(k) > bootstrap[d].after}
  OBVIOUS
<1>3. PICK keys : keys = FirstOf(PageLimit, left, Rank)
  OBVIOUS
<1>4. PICK ranks : ranks = {Rank(k) : k \in keys} \cup {0}
  OBVIOUS
<1>21. PICK versions, next, after, last :
         /\ last = (keys = left)
         /\ versions = pin.units /\ after = Max(ranks)
         /\ next = IF keys = left THEN pin.start_seq ELSE cursor[d]
  OBVIOUS
<1>5. PICK p : p = [changes |-> {[key |-> k, stamp |-> versions[k].stamp,
                                  value |-> versions[k].value] : k \in keys},
                    cursor |-> next, last |-> last, after |-> after,
                    status |-> "stored"]
  OBVIOUS
<1>6. page' = [page EXCEPT ![d] = p]
  BY <1>1, <1>2, <1>3, <1>4, <1>5, <1>21 DEF StorePage
<1>7. /\ p.cursor = IF keys = left THEN pin.start_seq ELSE cursor[d]
      /\ p.after = Max(ranks) /\ p.status = "stored"
      /\ \A k \in keys : OnPage(p, k, pin.units[k])
  <2>1. /\ p.cursor = next /\ p.after = after /\ p.status = "stored"
        /\ \A k \in keys : OnPage(p, k, versions[k])
    BY <1>5, PageOf
  <2>2. QED
    BY <1>21, <2>1
<1>8. UNCHANGED <<vars, store, cursor, bootstrap>> /\ bootstrap[d] # None
  BY DEF ReadStatePage
<1>9. /\ pin \in state_pins /\ pin.id = bootstrap[d].pin
      /\ \A q \in state_pins : q.id = bootstrap[d].pin => q = pin
  BY DEF Pinned, ReadInv, PinsShow
<1>10. \A k \in DOMAIN pin.units : k \in Keys /\ Rank(k) \in Nat \ {0}
  BY <1>9, StoredStamps, RankFacts DEF LanesInv
<1>11. bootstrap[d].after \in Nat
  BY <1>8 DEF LanesInv, PinsInv, StateRead
<1>12. \A k \in DOMAIN pin.units :
         Rank(k) <= bootstrap[d].after => Given(store[d], k, pin.units[k])
  BY <1>8, <1>9 DEF ReadInv, ReadsOn, PinRead
<1>13. keys = {x \in left : Cardinality({y \in left : Rank(y) < Rank(x)}) < PageLimit}
  BY <1>3 DEF FirstOf
<1>14. ASSUME NEW k \in DOMAIN pin.units
       PROVE  /\ k \in keys => OnPage(p, k, pin.units[k])
              /\ k \notin left => Given(store[d], k, pin.units[k])
  BY <1>2, <1>7, <1>10, <1>11, <1>12
<1>15. ASSUME NEW k \in left, Rank(k) <= p.after
       PROVE  k \in keys
  <2>1. PICK f : f = [x \in left |-> Rank(x)]
    OBVIOUS
  <2>2. left \in SUBSET Keys /\ keys \subseteq left
    BY <1>2, <1>10, <1>13
  <2>3. IsFiniteSet(left) /\ IsFiniteSet(keys)
    BY <2>2, KeyOrderAssumption, FS_Subset
  <2>4. \A x \in left : f[x] = Rank(x) /\ Rank(x) \in Nat \ {0}
    BY <1>2, <1>10, <2>1
  <2>5. keys = FirstBy(PageLimit, left, f)
    BY <1>13, <2>1 DEF FirstBy
  <2>6. IsFiniteSet(ranks)
    <3>1. PICK g : g = [x \in keys |-> Rank(x)]
      OBVIOUS
    <3>2. DOMAIN g = keys /\ {Rank(x) : x \in keys} = {g[x] : x \in keys}
      BY <3>1
    <3>3. IsFiniteSet({Rank(x) : x \in keys})
      BY <2>3, <3>2, FiniteImage
    <3>4. QED
      BY <1>4, <3>3, FS_Singleton, FS_Union
  <2>7. ranks \in SUBSET Nat /\ ranks # {}
    BY <1>4, <2>2, <2>4
  <2>8. p.after \in ranks
    BY <1>7, <2>6, <2>7, MaxOfNaturals
  <2>9. PICK m \in keys : Rank(m) = p.after
    BY <1>4, <1>15, <2>4, <2>8
  <2>10. f[k] <= f[m]
    BY <1>15, <2>2, <2>4, <2>9
  <2>11. QED
    BY <2>3, <2>4, <2>5, <2>10, FirstAreInitial, ClientBounds
<1>16. ASSUME Readable(p.cursor), NEW k \in ShownBy(p.cursor)
       PROVE  Given(store[d], k, units[k]) \/ OnPage(p, k, units[k])
  <2>1. CASE keys = left
    <3>1. p.cursor = pin.start_seq
      BY <1>7, <2>1
    <3>2. k \in DOMAIN pin.units /\ pin.units[k] = units[k]
      BY <1>9, <1>16, <3>1 DEF ReadInv, PinsShow
    <3>3. QED
      BY <1>14, <2>1, <3>2
  <2>2. CASE keys # left
    BY <1>7, <1>16, <2>2 DEF ReadInv, ReadsOn, CursorRead
  <2>3. QED
    BY <2>1, <2>2
<1>17. ASSUME NEW q \in state_pins, q.id = bootstrap[d].pin, NEW k \in DOMAIN q.units,
              Rank(k) <= p.after
       PROVE  Given(store[d], k, q.units[k]) \/ OnPage(p, k, q.units[k])
  <2>1. q = pin
    BY <1>9, <1>17
  <2>2. QED
    BY <1>14, <1>15, <1>17, <2>1
<1>18. QED
  BY <1>6, <1>7, <1>8, <1>16, <1>17, PageIsRead

(* A page that was applied has been given to the device.                   *)
LEMMA DonePage ==
  ASSUME NEW d \in Clients, ReadsOn(d), page[d] # None, page[d].status # "stored"
  PROVE  /\ Readable(page[d].cursor) => \A k \in ShownBy(page[d].cursor) :
              Given(store[d], k, units[k])
         /\ bootstrap[d] # None => \A p \in state_pins : p.id = bootstrap[d].pin =>
              \A k \in DOMAIN p.units :
                Rank(k) <= page[d].after => Given(store[d], k, p.units[k])
BY DEF ReadsOn, PageRead, PinRead, OnPage

(* Of a new pin nothing has been read.                                     *)
LEMMA BeginStateReadReads ==
  ASSUME LanesInv, ReadInv, NEW d \in Clients, NEW answered \in BOOLEAN,
         BeginStateRead(d, answered)
  PROVE  ReadInv'
<1>1. /\ CreateStatePin(d) /\ UNCHANGED <<store, cursor, page>> /\ page[d] = None
      /\ ReadsOn(d) /\ AllRooted
  BY DEF BeginStateRead, Idle, ReadInv
<1>2. ReadersMove /\ PinsShow' /\ AllKeep
  BY <1>1, CreateReaders, CreatedPinShows, KeepStay DEF LanesInv, ReadInv
<1>3. CASE ~answered
  BY <1>1, <1>2, <1>3, AllReadOn DEF BeginStateRead
<1>4. CASE answered
  <2>1. PICK b : b = [pin |-> next_pin, start_seq |-> head.seq, after |-> 0]
    OBVIOUS
  <2>2. bootstrap' = [bootstrap EXCEPT ![d] = b]
    BY <1>4, <2>1 DEF BeginStateRead
  <2>3. \A e \in Clients : bootstrap'[e] = IF e = d THEN b ELSE bootstrap[e]
    BY <2>2 DEF LanesInv, PinsInv
  <2>4. CursorRead(d)' /\ PageRead(d)'
    BY <1>1, <1>2, DeviceReadsOn DEF ReadInv, AllKeep
  <2>5. b.pin = next_pin /\ b.after = 0 /\ next_pin \in Nat /\ next_pin' = next_pin + 1
    BY <1>1, <2>1 DEF LanesInv, StoreInv, TypeOK, CreateStatePin
  <2>6. ASSUME NEW p \in state_pins', p.id = next_pin, NEW k \in DOMAIN p.units
        PROVE  ~(Rank(k) <= 0)
    <3>1. p \notin state_pins
      BY <2>5, <2>6 DEF ReadInv, PinsShow
    <3>2. p.units = units
      BY <1>1, <3>1 DEF CreateStatePin
    <3>3. k \in Keys
      BY <3>2, StoredStamps DEF LanesInv
    <3>4. QED
      BY <3>3, RankFacts
  <2>7. PinRead(d)'
    <3>1. bootstrap'[d] = b /\ page'[d] = None
      BY <1>1, <2>3
    <3>2. bootstrap'[d].pin < next_pin'
      BY <2>5, <3>1
    <3>3. QED
      BY <2>5, <2>6, <3>1, <3>2 DEF PinRead
  <2>8. Waits(d)'
    <3>1. ASSUME NEW k, HasRead(d, k)'
          PROVE  HasRead(d, k)
      <4>1. bootstrap'[d] = b /\ page'[d] = None /\ cursor'[d] = cursor[d]
        BY <1>1, <2>3
      <4>5. PICK c : c = cursor[d]
        OBVIOUS
      <4>2. CASE Readable(c)' /\ k \in ShownBy(c)'
        BY <1>1, <4>2, <4>5 DEF HasRead, CreateStatePin, contents, Readable, ShownBy, ChangesAfter
      <4>3. ASSUME NEW p \in state_pins', p.id = next_pin, k \in DOMAIN p.units, Rank(k) <= 0
            PROVE  FALSE
        BY <2>6, <4>3
      <4>4. QED
        BY <2>5, <3>1, <4>1, <4>2, <4>3, <4>5 DEF HasRead, IsApplied
    <3>2. QED
      BY <1>1, <1>2, <3>1, StillWaits DEF AllKeep
  <2>9. ReadsOn(d)'
    BY <2>4, <2>7, <2>8 DEF ReadsOn
  <2>10. QED
    BY <1>1, <1>2, <2>3, <2>9, OthersReadOn
<1>5. QED
  BY <1>3, <1>4

LEMMA ForgetExpiredPinReads ==
  ASSUME LanesInv, ReadInv, NEW d \in Clients, ForgetExpiredPin(d)
  PROVE  ReadInv'
<1>1. /\ UNCHANGED <<vars, store, cursor, page>>
      /\ \A e \in Clients : bootstrap'[e] = IF e = d THEN None ELSE bootstrap[e]
  BY DEF ForgetExpiredPin, LanesInv, PinsInv
<1>2. ReadersMove /\ PinsShow' /\ AllKeep
  BY <1>1, StillReaders, KeepStay DEF ReadInv
<1>3. CursorRead(d)' /\ PageRead(d)'
  BY <1>1, <1>2, DeviceReadsOn DEF ReadInv, AllKeep
<1>4. Waits(d)'
  <2>1. \A k : HasRead(d, k)' => HasRead(d, k)
    BY <1>1 DEF HasRead, vars, contents, Readable, ShownBy, ChangesAfter
  <2>2. QED
    BY <1>2, <2>1, StillWaits DEF ReadInv, AllKeep
<1>5. ReadsOn(d)'
  BY <1>1, <1>3, <1>4 DEF ReadsOn, PinRead
<1>6. QED
  BY <1>1, <1>2, <1>5, OthersReadOn

(* What is on a page that is applied has been given to the device.          *)
LEMMA ApplyPageReads ==
  ASSUME LanesInv, PagesApplyWhole, ReadInv, NEW d \in Clients,
         NEW generating \in SUBSET Generated, ApplyPage(d, generating)
  PROVE  ReadInv'
<1>1. PICK s : s = store[d]
  OBVIOUS
<1>2. PICK rows : rows = Arrived(d) \cup Held(s)
  OBVIOUS
<1>3. PICK p : p = page[d]
  OBVIOUS
<1>4. /\ p # None /\ p \in Page /\ p.status = "stored"
      /\ IsFiniteSet(p.changes) /\ p.changes \in SUBSET Change
  BY <1>3 DEF ApplyPage, PagesApplyWhole, LanesInv, PagesInv, Page
<1>5. /\ StoreShape(s) /\ Rooted(s) /\ rows \in SUBSET ReceivedRow /\ IsFiniteSet(rows)
      /\ Held(s) \subseteq rows
  BY <1>1, <1>2, <1>3, <1>4, AppliedRows DEF LanesInv, StoresInv, ReadInv, AllRooted
<1>6. PICK applied : applied = ApplyRows(s, rows, generating)
  OBVIOUS
<1>7. /\ StoreShape(applied) /\ Keeps(s, applied)
      /\ \A r \in rows : Has(applied, r.key, r.stamp)
      /\ \A r \in rows : IsRetirement(r) => KnowsRetired(applied, r.key)
      /\ \A w \in applied.rows :
           w.status = "held" => \E q \in Parents(w.key) : q \notin DOMAIN applied.units
  BY <1>5, <1>6, RowsKeep, RowsHas, RowsKnow, RowsRooted
<1>8. PICK stamps : stamps = {c.stamp : c \in p.changes}
  OBVIOUS
<1>9. stamps \in SUBSET Stamp /\ IsFiniteSet(stamps)
  BY <1>4, <1>8, StampsOf
<1>10. PICK t : t = Observe(applied, stamps)
  OBVIOUS
<1>11. /\ StoreShape(t) /\ AcceptsMore(applied, t)
       /\ t.units = applied.units /\ t.rows = applied.rows /\ t.retired = applied.retired
       /\ t.intents = applied.intents
       /\ \A old \in stamps : t.accepted # NoStamp /\ ~StampLess(t.accepted, old)
  BY <1>7, <1>9, <1>10, ObserveComes, ObserveSees, ObserveAccepts
<1>12. Keeps(s, t)
  <2>1. Rooted(t)
    BY <1>7, <1>11, SameIsRooted DEF Keeps, Rooted
  <2>2. Keeps(applied, t)
    BY <1>7, <1>11, <2>1, SameIsKept
  <2>3. QED
    BY <1>7, <1>11, <2>2 DEF Keeps
<1>13. ASSUME NEW c \in p.changes, NEW k \in Keys, c.key = k, NEW v, Same(c, v)
       PROVE  Given(t, k, v)
  <2>1. PICK r : r = [key |-> c.key, stamp |-> c.stamp, value |-> c.value, status |-> "staged"]
    OBVIOUS
  <2>2. Arrived(d) = Staged(p.changes)
    BY <1>3, <1>4 DEF Arrived
  <2>3. r \in rows
    BY <1>2, <2>1, <2>2 DEF Staged
  <2>4. r.key = c.key /\ r.stamp = c.stamp /\ r.value = c.value
    BY <2>1
  <2>5. Has(applied, c.key, c.stamp)
    BY <1>7, <2>3, <2>4
  <2>6. Has(t, c.key, c.stamp)
    BY <1>11, <2>5 DEF Has, Stores
  <2>7. c.stamp \in stamps
    BY <1>8
  <2>8. Delivered(t, k, v.stamp)
    BY <1>11, <1>13, <2>6, <2>7 DEF Delivered, Same
  <2>9. ASSUME IsDeletion(k, v)
        PROVE  KnowsRetired(t, k)
    <3>1. IsRetirement(r)
      BY <1>13, <2>4, <2>9 DEF IsRetirement, IsDeletion, Same
    <3>2. KnowsRetired(applied, k)
      BY <1>7, <1>13, <2>3, <2>4, <3>1
    <3>3. QED
      BY <1>11, <3>2 DEF KnowsRetired
  <2>10. QED
    BY <2>8, <2>9 DEF Given
<1>14. store' = [store EXCEPT ![d] = t]
  BY <1>1, <1>2, <1>3, <1>6, <1>8, <1>10 DEF ApplyPage
<1>15. PICK q : q = [p EXCEPT !.status = "applied"]
  OBVIOUS
<1>16. q.cursor = p.cursor /\ q.after = p.after
  BY <1>4, <1>15 DEF Page
<1>17. page' = [page EXCEPT ![d] = q]
  BY <1>3, <1>15 DEF ApplyPage
<1>18. /\ UNCHANGED <<vars, cursor, bootstrap>> /\ store'[d] = t
       /\ \A e \in Clients : page'[e] = IF e = d THEN q ELSE page[e]
  BY <1>14, <1>17 DEF ApplyPage, LanesInv, StoresInv, PagesInv
<1>19. ReadersMove /\ PinsShow' /\ AllKeep
  BY <1>1, <1>12, <1>14, <1>18, StillReaders, KeepStep DEF ReadInv
<1>20. /\ units' = units /\ journal' = journal /\ head' = head /\ state_pins' = state_pins
       /\ next_pin' = next_pin /\ bootstrap' = bootstrap /\ page'[d] = q
  BY <1>18 DEF vars, contents
<1>21. ASSUME NEW k \in Keys, NEW v, v.stamp \in Stamp, Given(s, k, v) \/ OnPage(p, k, v)
       PROVE  Given(t, k, v)
  <2>1. CASE Given(s, k, v)
    BY <1>12, <1>21, <2>1 DEF Keeps, Given
  <2>2. CASE OnPage(p, k, v)
    BY <1>13, <2>2 DEF OnPage
  <2>3. QED
    BY <1>21, <2>1, <2>2
<1>22. CursorRead(d)'
  BY <1>18, <1>19, DeviceReadsOn DEF ReadInv, AllKeep
<1>23. PageRead(d)'
  <2>1. ASSUME Readable(p.cursor), NEW k \in ShownBy(p.cursor)
        PROVE  Given(t, k, units[k])
    <3>1. Given(s, k, units[k]) \/ OnPage(p, k, units[k])
      BY <1>1, <1>3, <1>4, <2>1 DEF ReadInv, ReadsOn, PageRead
    <3>2. k \in Keys /\ units[k].stamp \in Stamp
      BY StoredStamps DEF ShownBy, LanesInv
    <3>3. QED
      BY <1>21, <3>1, <3>2
  <2>2. QED
    BY <1>16, <1>18, <1>20, <2>1 DEF PageRead, Readable, ShownBy, ChangesAfter
<1>24. PinRead(d)'
  <2>1. ASSUME bootstrap[d] # None
        PROVE  /\ bootstrap[d].pin < next_pin
               /\ \A pin \in state_pins : pin.id = bootstrap[d].pin => \A k \in DOMAIN pin.units :
                    Rank(k) <= bootstrap[d].after \/ Rank(k) <= p.after =>
                      Given(t, k, pin.units[k])
    <3>1. PinRead(d)
      BY DEF ReadInv, ReadsOn
    <3>2. ASSUME NEW pin \in state_pins, pin.id = bootstrap[d].pin, NEW k \in DOMAIN pin.units,
                 Rank(k) <= bootstrap[d].after \/ Rank(k) <= p.after
          PROVE  Given(t, k, pin.units[k])
      <4>1. Given(s, k, pin.units[k]) \/ OnPage(p, k, pin.units[k])
        BY <1>1, <1>3, <1>4, <2>1, <3>1, <3>2 DEF PinRead
      <4>2. k \in Keys /\ pin.units[k].stamp \in Stamp
        BY <3>2, StoredStamps DEF LanesInv
      <4>3. QED
        BY <1>21, <4>1, <4>2
    <3>3. QED
      BY <2>1, <3>1, <3>2 DEF PinRead
  <2>2. QED
    BY <1>16, <1>18, <1>20, <2>1 DEF PinRead
<1>25. Waits(d)'
  BY <1>7, <1>11, <1>18 DEF Waits
<1>26. ReadsOn(d)'
  BY <1>22, <1>23, <1>24, <1>25 DEF ReadsOn
<1>27. QED
  BY <1>18, <1>19, <1>26, OthersReadOn

(* The cursor moves to the end of a page that was applied.                  *)
LEMMA FinishPageReads ==
  ASSUME LanesInv, ReadInv, NEW d \in Clients, FinishPage(d)
  PROVE  ReadInv'
<1>1. PICK p : p = page[d]
  OBVIOUS
<1>2. PICK q : q = [p EXCEPT !.status = "finished"]
  OBVIOUS
<1>3. /\ p # None /\ p \in Page /\ p.status = "applied" /\ page' = [page EXCEPT ![d] = q]
      /\ UNCHANGED <<vars, store, bootstrap>>
  BY <1>1, <1>2 DEF FinishPage, LanesInv, PagesInv
<1>4. q.cursor = p.cursor /\ q.after = p.after /\ q.status = "finished"
  BY <1>2, <1>3 DEF Page
<1>5. \A e \in Clients : page'[e] = IF e = d THEN q ELSE page[e]
  BY <1>3 DEF LanesInv, PagesInv
<1>6. cursor'[d] \in {cursor[d], p.cursor} /\ \A e \in Clients \ {d} : cursor'[e] = cursor[e]
  <2>1. PICK at : at = cursor[d]
    OBVIOUS
  <2>2. PICK next : next = p.cursor
    OBVIOUS
  <2>3. at \in Nat /\ next \in Nat
    BY <1>3, <2>1, <2>2 DEF LanesInv, CursorsInv, Page
  <2>4. {at, next} = {at} \cup {next} /\ IsFiniteSet({at}) /\ IsFiniteSet({next})
    BY FS_Singleton
  <2>5. IsFiniteSet({at, next})
    BY <2>4, FS_Union
  <2>6. {at, next} \in SUBSET Nat /\ {at, next} # {}
    BY <2>3
  <2>7. Max({at, next}) \in {at, next}
    BY <2>5, <2>6, MaxOfNaturals
  <2>8. PICK n : n = Max({at, next})
    OBVIOUS
  <2>9. cursor' = [cursor EXCEPT ![d] = n]
    BY <1>1, <2>1, <2>2, <2>8 DEF FinishPage
  <2>10. QED
    BY <2>1, <2>2, <2>7, <2>8, <2>9 DEF LanesInv, CursorsInv
<1>7. ReadersMove /\ PinsShow' /\ AllKeep
  BY <1>3, StillReaders, KeepStay DEF ReadInv
<1>8. /\ units' = units /\ journal' = journal /\ head' = head /\ state_pins' = state_pins
      /\ next_pin' = next_pin /\ bootstrap' = bootstrap /\ page'[d] = q /\ store' = store
  BY <1>3, <1>5 DEF vars, contents
<1>9. ReadsOn(d)
  BY DEF ReadInv
<1>10. /\ Readable(p.cursor) => \A k \in ShownBy(p.cursor) :
            Given(store[d], k, units[k])
       /\ bootstrap[d] # None => \A pin \in state_pins : pin.id = bootstrap[d].pin =>
            \A k \in DOMAIN pin.units :
              Rank(k) <= p.after => Given(store[d], k, pin.units[k])
  BY <1>1, <1>3, <1>9, DonePage
<1>11. CursorRead(d)'
  <2>1. PICK c : c = cursor'[d]
    OBVIOUS
  <2>2. Readable(c) => \A k \in ShownBy(c) : Given(store[d], k, units[k])
    BY <1>6, <1>9, <1>10, <2>1 DEF ReadsOn, CursorRead
  <2>3. QED
    BY <1>8, <2>1, <2>2 DEF CursorRead, Readable, ShownBy, ChangesAfter
<1>12. PageRead(d)'
  BY <1>4, <1>8, <1>10 DEF PageRead, Readable, ShownBy, ChangesAfter
<1>13. PinRead(d)'
  BY <1>4, <1>8, <1>9, <1>10 DEF ReadsOn, PinRead
<1>14. Waits(d)'
  <2>1. PICK c : c = cursor'[d]
    OBVIOUS
  <2>2. ASSUME NEW k, HasRead(d, k)'
        PROVE  HasRead(d, k)
    <3>1. CASE Readable(c) /\ k \in ShownBy(c)
      BY <1>1, <1>3, <1>6, <2>1, <3>1 DEF HasRead, IsApplied
    <3>2. CASE ~(Readable(c) /\ k \in ShownBy(c))
      <4>1. ~(Readable(c)' /\ k \in ShownBy(c)')
        BY <1>8, <2>1, <3>2 DEF Readable, ShownBy, ChangesAfter
      <4>2. QED
        BY <1>1, <1>3, <1>4, <1>8, <2>1, <2>2, <4>1
           DEF HasRead, IsApplied, Readable, ShownBy, ChangesAfter
    <3>3. QED
      BY <3>1, <3>2
  <2>3. QED
    BY <1>7, <1>9, <2>2, StillWaits DEF ReadInv, AllKeep
<1>15. ReadsOn(d)'
  BY <1>11, <1>12, <1>13, <1>14 DEF ReadsOn
<1>16. QED
  BY <1>3, <1>5, <1>6, <1>7, <1>15, OthersReadOn

(* The read of a pin moves on to where a page that was applied ends.        *)
LEMMA AcknowledgePageReads ==
  ASSUME LanesInv, ReadInv, NEW d \in Clients, AcknowledgePage(d)
  PROVE  ReadInv'
<1>1. PICK p : p = page[d]
  OBVIOUS
<1>2. PICK b : b = bootstrap[d]
  OBVIOUS
<1>3. /\ p # None /\ p \in Page /\ p.status = "finished" /\ UNCHANGED <<store, cursor>>
      /\ b # None => b \in StateRead
  BY <1>1, <1>2 DEF AcknowledgePage, LanesInv, PagesInv, PinsInv
<1>4. PICK q : q = IF p.last THEN [p EXCEPT !.status = "acknowledged"] ELSE None
  OBVIOUS
<1>5. page' = [page EXCEPT ![d] = q]
  BY <1>1, <1>4 DEF AcknowledgePage
<1>6. q # None => q.cursor = p.cursor /\ q.after = p.after
  BY <1>3, <1>4 DEF Page
<1>7. PICK c : c = IF b = None THEN None ELSE [b EXCEPT !.after = p.after]
  OBVIOUS
<1>8. c # None => b # None /\ c.pin = b.pin /\ c.after = p.after
  BY <1>3, <1>7 DEF StateRead
<1>9. bootstrap'[d] = c /\ \A e \in Clients \ {d} : bootstrap'[e] = bootstrap[e]
  <2>1. CASE b = None
    BY <1>2, <1>7, <2>1 DEF AcknowledgePage
  <2>2. CASE b # None
    <3>1. bootstrap' = [bootstrap EXCEPT ![d] = c]
      BY <1>1, <1>2, <1>7, <2>2 DEF AcknowledgePage
    <3>2. QED
      BY <3>1 DEF LanesInv, PinsInv
  <2>3. QED
    BY <2>1, <2>2
<1>10. \A e \in Clients : page'[e] = IF e = d THEN q ELSE page[e]
  BY <1>5 DEF LanesInv, PagesInv
<1>11. UNCHANGED <<head, contents, journal, next_pin>> /\ state_pins' = state_pins
  BY DEF AcknowledgePage, Acknowledge
<1>12. ReadersMove /\ PinsShow' /\ AllKeep
  <2>1. ReadersMove
    BY <1>11, QuietReaders DEF LanesInv
  <2>2. QED
    BY <1>3, <1>11, <2>1, PinsShowStays, KeepStay DEF ReadInv
<1>13. /\ units' = units /\ journal' = journal /\ head' = head
       /\ next_pin' = next_pin /\ page'[d] = q /\ store' = store /\ cursor' = cursor
  BY <1>3, <1>10, <1>11 DEF contents
<1>14. ReadsOn(d)
  BY DEF ReadInv
<1>15. /\ Readable(p.cursor) => \A k \in ShownBy(p.cursor) :
            Given(store[d], k, units[k])
       /\ b # None => \A pin \in state_pins : pin.id = b.pin =>
            \A k \in DOMAIN pin.units :
              Rank(k) <= p.after => Given(store[d], k, pin.units[k])
  BY <1>1, <1>2, <1>3, <1>14, DonePage
<1>16. CursorRead(d)'
  BY <1>12, <1>13, <1>14, DeviceReadsOn DEF ReadInv, AllKeep
<1>17. PageRead(d)'
  BY <1>6, <1>13, <1>15 DEF PageRead, Readable, ShownBy, ChangesAfter
<1>18. PinRead(d)'
  <2>1. b # None => b.pin < next_pin
    BY <1>2, <1>14 DEF ReadsOn, PinRead
  <2>2. QED
    BY <1>6, <1>8, <1>9, <1>11, <1>13, <1>15, <2>1 DEF PinRead
<1>19. Waits(d)'
  <2>1. ASSUME NEW k, HasRead(d, k)'
        PROVE  HasRead(d, k)
    <3>1. CASE c # None
      BY <1>1, <1>2, <1>3, <1>6, <1>8, <1>9, <1>11, <1>13, <2>1, <3>1
         DEF HasRead, IsApplied, Readable, ShownBy, ChangesAfter
    <3>2. CASE c = None
      BY <1>1, <1>2, <1>3, <1>6, <1>9, <1>11, <1>13, <2>1, <3>2
         DEF HasRead, IsApplied, Readable, ShownBy, ChangesAfter
    <3>3. QED
      BY <3>1, <3>2
  <2>2. QED
    BY <1>12, <1>14, <2>1, StillWaits DEF ReadInv, AllKeep
<1>20. ReadsOn(d)'
  BY <1>16, <1>17, <1>18, <1>19 DEF ReadsOn
<1>21. QED
  BY <1>9, <1>10, <1>12, <1>13, <1>20, OthersReadOn

LEMMA CloseStateReadReads ==
  ASSUME LanesInv, ReadInv, NEW d \in Clients, CloseStateRead(d)
  PROVE  ReadInv'
<1>1. UNCHANGED <<store, cursor>>
  BY DEF CloseStateRead
<1>2. UNCHANGED <<head, contents, journal, next_pin>> /\ state_pins' \subseteq state_pins
  BY DEF CloseStateRead, ReleaseStatePin, vars
<1>3. ReadersMove /\ PinsShow' /\ AllKeep
  <2>1. ReadersMove
    BY <1>2, QuietReaders DEF LanesInv
  <2>2. QED
    BY <1>1, <1>2, <2>1, PinsShowStays, KeepStay DEF ReadInv
<1>4. \A e \in Clients : /\ page'[e] = IF e = d THEN None ELSE page[e]
                         /\ bootstrap'[e] = IF e = d THEN None ELSE bootstrap[e]
  BY DEF CloseStateRead, LanesInv, PagesInv, PinsInv
<1>5. CursorRead(d)'
  BY <1>1, <1>3, DeviceReadsOn DEF ReadInv, AllKeep
<1>6. Waits(d)'
  <2>1. page'[d] = None /\ bootstrap'[d] = None /\ cursor' = cursor
    BY <1>1, <1>4
  <2>2. \A k : HasRead(d, k)' => HasRead(d, k)
    BY <1>2, <2>1 DEF HasRead, IsApplied, contents, Readable, ShownBy, ChangesAfter
  <2>3. QED
    BY <1>3, <2>2, StillWaits DEF ReadInv, AllKeep
<1>7. ReadsOn(d)'
  BY <1>4, <1>5, <1>6 DEF ReadsOn, PageRead, PinRead
<1>8. QED
  BY <1>1, <1>3, <1>4, <1>7, OthersReadOn

(* What the server does.                                                   *)
LEMMA ServerReads ==
  ASSUME LanesInv, ReadInv, ReadersMove, state_pins' \subseteq state_pins,
         UNCHANGED <<store, cursor, page, bootstrap>>
  PROVE  ReadInv'
BY PinsShowStays, KeepStay, AllReadOn DEF ReadInv

LEMMA QuietReads ==
  ASSUME LanesInv, ReadInv, UNCHANGED <<head, contents, journal, next_pin>>,
         UNCHANGED state_pins, UNCHANGED <<store, cursor, page, bootstrap>>
  PROVE  ReadInv'
BY QuietReaders, ServerReads DEF LanesInv

LEMMA PushReads ==
  ASSUME LanesInv, ReadInv, NEW d \in DeviceIds, NEW op \in OperationIds,
         NEW request \in Request, NEW e \in BOOLEAN, AcceptPush(d, op, request, e),
         UNCHANGED <<store, cursor, page, bootstrap>>
  PROVE  ReadInv'
<1>1. ReadersMove
  BY PushReaders DEF LanesInv
<1>2. state_pins' \subseteq state_pins
  BY DEF AcceptPush
<1>3. QED
  BY <1>1, <1>2, ServerReads

LEMMA StillReads ==
  ASSUME LanesInv, ReadInv, UNCHANGED vars, UNCHANGED <<store, cursor, page, bootstrap>>
  PROVE  ReadInv'
BY OwnReads, KeepStay DEF ReadInv

LEMMA SendStepReads ==
  ASSUME LanesInv, ReadInv, NEW d \in Clients, SendStep(d)
  PROVE  ReadInv'
<1>1. CASE (\E generating \in SUBSET Generated : Publish(d, generating)) \/ LearnOutcome(d)
  BY <1>1, StillReads DEF Publish, LearnOutcome
<1>2. CASE \E b \in BOOLEAN : CancelPublication(d, b)
  BY <1>2, QuietReads DEF CancelPublication, CancelOperation
<1>3. ASSUME NEW b \in BOOLEAN, AcknowledgePublication(d, b)
      PROVE  ReadInv'
  <2>1. AllKeep
    BY <1>3, AcknowledgePublicationReads DEF ReadInv
  <2>2. UNCHANGED vars /\ UNCHANGED <<cursor, page, bootstrap>>
    BY <1>3 DEF AcknowledgePublication
  <2>3. QED
    BY <2>1, <2>2, OwnReads
<1>4. QED
  BY <1>1, <1>2, <1>3 DEF SendStep

LEMMA ReceiveStepReads ==
  ASSUME LanesInv, PagesApplyWhole, ReadInv, NEW d \in Clients, ReceiveStep(d)
  PROVE  ReadInv'
<1>1. ASSUME NEW generating \in SUBSET Generated, Drain(d, generating)
      PROVE  ReadInv'
  <2>1. AllKeep
    BY <1>1, DrainReads DEF ReadInv
  <2>2. UNCHANGED vars /\ UNCHANGED <<cursor, page, bootstrap>>
    BY <1>1 DEF Drain
  <2>3. QED
    BY <2>1, <2>2, OwnReads
<1>2. QED
  BY <1>1, ReadChangesReads, BeginStateReadReads, ReadStatePageReads, ForgetExpiredPinReads,
     ApplyPageReads, FinishPageReads, AcknowledgePageReads, CloseStateReadReads DEF ReceiveStep

LEMMA PushesReads ==
  ASSUME LanesInv, ReadInv, NEW m \in in_flight, DeliverPush(m) \/ LosePush(m)
  PROVE  ReadInv'
<1>1. /\ m.device \in DeviceIds /\ m.op \in OperationIds /\ m.request \in Request
      /\ FALSE \in BOOLEAN
  BY ClientsAssumption DEF LanesInv, PublicationsInv, Message
<1>2. UNCHANGED <<store, cursor, page, bootstrap>>
  BY DEF DeliverPush, LosePush
<1>3. CASE AcceptPush(m.device, m.op, m.request, FALSE)
  BY <1>1, <1>2, <1>3, PushReads
<1>4. CASE RefusePush(m.device, m.op, m.request, FALSE, TRUE)
  BY <1>2, <1>4, QuietReads DEF RefusePush
<1>5. CASE UNCHANGED vars
  BY <1>2, <1>5, StillReads
<1>6. QED
  BY <1>3, <1>4, <1>5 DEF DeliverPush, LosePush

LEMMA OthersReads ==
  ASSUME LanesInv, ReadInv,
         \/ ServerStep
         \/ \E d \in DeviceIds \ Clients, op \in OperationIds, r \in Requests :
              PushElsewhere(d, op, r)
  PROVE  ReadInv'
<1>1. UNCHANGED <<store, cursor, page, bootstrap>>
  BY DEF ServerStep, PushElsewhere, lanes
<1>2. CASE Tick \/ \E d \in DeviceIds : AddDevice(d)
  BY <1>1, <1>2, QuietReads DEF Tick, AddDevice
<1>3. ASSUME NEW holding, Maintain(holding)
      PROVE  ReadInv'
  <2>1. ReadersMove
    BY <1>3, MaintainReaders DEF LanesInv
  <2>2. state_pins' \subseteq state_pins
    BY <1>3 DEF Maintain, RemainingPins
  <2>3. QED
    BY <1>1, <2>1, <2>2, ServerReads
<1>4. ASSUME NEW d \in DeviceIds \ Clients, NEW op \in OperationIds, NEW r \in Requests,
             PushElsewhere(d, op, r)
      PROVE  ReadInv'
  <2>1. r \in Request /\ FALSE \in BOOLEAN /\ AcceptPush(d, op, r, FALSE)
    BY <1>4, RequestsAssumption DEF PushElsewhere
  <2>2. QED
    BY <1>1, <2>1, PushReads
<1>5. QED
  BY <1>2, <1>3, <1>4 DEF ServerStep

LEMMA SystemReads ==
  ASSUME LanesInv, PagesApplyWhole, ReadInv, [SystemNext]_systemVars
  PROVE  ReadInv'
<1>1. ASSUME NEW d \in Clients,
             \/ \E commit \in Commits, wall \in 0 .. MaxWall : Edit(d, commit, wall)
             \/ \E corrected \in 0 .. MaxWall : RetryUnpublished(d, corrected)
      PROVE  ReadInv'
  <2>1. AllKeep
    BY <1>1, EditReads, RetryUnpublishedReads DEF ReadInv
  <2>2. UNCHANGED vars /\ UNCHANGED <<cursor, page, bootstrap>>
    BY <1>1 DEF Edit, RetryUnpublished
  <2>3. QED
    BY <2>1, <2>2, OwnReads
<1>2. CASE UNCHANGED systemVars
  BY <1>2, StillReads DEF systemVars, lanes
<1>3. CASE SystemNext
  BY <1>1, <1>3, SendStepReads, ReceiveStepReads, PushesReads, OthersReads DEF SystemNext
<1>4. QED
  BY <1>2, <1>3

LEMMA WholeReads ==
  ASSUME LanesInv, ClocksInv, PagesApplyWhole, ReadInv, [WholeNext]_systemVars
  PROVE  ReadInv'
<1>1. ASSUME NEW d \in Clients,
             \/ \E commit \in Commits, wall \in 0 .. MaxWall : InterruptEdit(d, commit, wall)
             \/ RecoverIntents(d)
      PROVE  ReadInv'
  <2>1. AllKeep
    BY <1>1, InterruptEditReads, RecoverIntentsReads DEF ReadInv
  <2>2. UNCHANGED vars /\ UNCHANGED <<cursor, page, bootstrap>>
    BY <1>1 DEF InterruptEdit, RecoverIntents
  <2>3. QED
    BY <2>1, <2>2, OwnReads
<1>2. QED
  BY <1>1, SystemReads DEF WholeNext

LEMMA InitReads == SystemInit => ReadInv
<1> SUFFICES ASSUME SystemInit PROVE ReadInv
  OBVIOUS
<1>1. DOMAIN units = {} /\ state_pins = {}
  BY DEF SystemInit, Init
<1>2. \A d \in Clients : page[d] = None /\ bootstrap[d] = None /\ store[d] = EmptyStore
  BY DEF SystemInit, LanesInit
<1>3. Rooted(EmptyStore) /\ EmptyStore.rows = {}
  BY DEF EmptyStore, Rooted
<1>4. QED
  BY <1>1, <1>2, <1>3
     DEF ReadInv, AllRooted, PinsShow, ReadsOn, CursorRead, PageRead, PinRead, Waits, ShownBy

(* receive_page moves the cursor to the end of a page only after            *)
(* lww_apply_receive has stored its rows, left them waiting or found them   *)
(* replaced, and a page ends where its rows do; the cursor that follows a   *)
(* read of the library is the one its pin was taken at.  So whatever is     *)
(* edited, held back, pushed by others, compacted, expired or begun again   *)
(* in between, nothing before the cursor is missing, as long as no process  *)
(* stops between the two transactions of lww_apply_receive.  Where commits  *)
(* may stop half way, lww_retry_unpublished must not take stamps back, or   *)
(* recover_intent could put an older version over one that was received.    *)
THEOREM NothingMissing ==
  SystemSpec \/ (WholeSpec /\ StampsAreNotTakenBack) => []NothingBeforeTheCursorIsMissing
<1>1. [SystemNext]_systemVars => [WholeNext]_systemVars
  BY DEF WholeNext
<1>2. [WholeNext]_systemVars => [InterruptedNext]_systemVars
  BY DEF WholeNext, InterruptedNext
<1>3. /\ LanesInv /\ ClocksInv /\ PagesApplyWhole
      /\ [WholeNext]_systemVars /\ [\A d \in Clients : StampIsNotTakenBack(d)]_systemVars
      => ClocksInv'
  BY WholeAdvances
<1>4. LanesInv /\ PagesApplyWhole /\ [WholeNext]_systemVars => PagesApplyWhole'
  BY PagesStayWhole
<1>5. LanesInv /\ PagesApplyWhole /\ ReadInv /\ [SystemNext]_systemVars => ReadInv'
  BY SystemReads
<1>6. LanesInv /\ ClocksInv /\ PagesApplyWhole /\ ReadInv /\ [WholeNext]_systemVars => ReadInv'
  BY WholeReads
<1>7. ReadInv => NothingBeforeTheCursorIsMissing
  BY DEF ReadInv, ReadsOn, CursorRead, ShownBy, Given, Delivered, Has, Stores,
     NothingBeforeTheCursorIsMissing
<1>8. SystemSpec => []NothingBeforeTheCursorIsMissing
  BY <1>1, <1>2, <1>4, <1>5, <1>7, InitLanes, NextLanes, InitClocks, InitReads, PTL DEF SystemSpec
<1>9. WholeSpec /\ StampsAreNotTakenBack => []NothingBeforeTheCursorIsMissing
  BY <1>2, <1>3, <1>4, <1>6, <1>7, InitLanes, NextLanes, InitClocks, InitReads, PTL
     DEF WholeSpec, StampsAreNotTakenBack
<1>10. QED
  BY <1>8, <1>9

------------------------------------------------------------------------------
(* Devices up to date.                                                     *)

(* What a device up to date shows, and what its library does.              *)
IsShown(s, k) == k \in DOMAIN s.units /\ ({k} \cup Parents(k)) \cap s.retired = {}
IsLibrary(k) == k \in DOMAIN units /\ ({k} \cup Parents(k)) \cap retired = {}

(* Nothing is before a device up to date that it was not given, and what    *)
(* it holds back waits for a parent that the library does not have.        *)
Settled(s) ==
  /\ StoreShape(s) /\ Rooted(s)
  /\ \A k \in DOMAIN s.units : Spent(k, s.units[k])
  /\ \A k \in DOMAIN units : Given(s, k, units[k])
  /\ \A r \in s.rows : \E p \in Parents(r.key) : p \notin DOMAIN units

LEMMA UpToDateIsSettled ==
  ASSUME LanesInv, ReadInv, NEW d \in Clients, UpToDate(d)
  PROVE  Settled(store[d])
<1>1. PICK c : c = cursor[d]
  OBVIOUS
<1>2. /\ c = head.seq /\ Readable(c) /\ store[d].outbox = {}
      /\ \A r \in store[d].rows : r.status = "held"
  BY <1>1 DEF UpToDate
<1>3. ShownBy(c) = DOMAIN units
  <2>1. \A k \in DOMAIN journal : journal[k].seq \in head.min_retained_seq + 1 .. head.seq
    BY DEF LanesInv, StoreInv, JournalMirrorsLibrary
  <2>2. head.seq \in Nat /\ head.min_retained_seq \in Nat
    BY DEF LanesInv, StoreInv, TypeOK
  <2>3. \A k \in DOMAIN journal : ~(journal[k].seq > c)
    BY <1>2, <2>1, <2>2
  <2>4. QED
    BY <2>3 DEF ShownBy, ChangesAfter
<1>4. /\ StoreShape(store[d]) /\ StoreIsSpent(store[d]) /\ Rooted(store[d])
      /\ ReadsOn(d)
  BY DEF LanesInv, StoresInv, ReadInv, AllRooted
<1>5. \A k \in DOMAIN units : Given(store[d], k, units[k]) /\ HasRead(d, k)
  BY <1>1, <1>2, <1>3, <1>4 DEF ReadsOn, CursorRead, HasRead
<1>6. ASSUME NEW r \in store[d].rows
      PROVE  \E p \in Parents(r.key) : p \notin DOMAIN units
  <2>1. PICK p \in Parents(r.key) : ~HasRead(d, p)
    BY <1>2, <1>4, HeldAreFresh DEF ReadInv
  <2>2. QED
    BY <1>5, <2>1
<1>7. \A k \in DOMAIN store[d].units : Spent(k, store[d].units[k])
  BY <1>2, <1>4 DEF StoreIsSpent
<1>8. QED
  BY <1>4, <1>5, <1>6, <1>7 DEF Settled

(* A unit the device stores whose later version is held belongs to what     *)
(* the library deleted; and the deletion of what it stores is not held.    *)
LEMMA HeldBelowDeleted ==
  ASSUME StoreInv, NEW s, Settled(s), NEW k \in DOMAIN s.units,
         NEW r \in s.rows, r.key = k
  PROVE  Parents(k) \cap retired # {} /\ k \notin retired
<1>1. PICK p \in Parents(k) : p \notin DOMAIN units
  BY DEF Settled
<1>2. k \in Keys /\ p \in DOMAIN s.units
  BY DEF Settled, StoreShape, IsTable, Rooted
<1>3. retired \subseteq DOMAIN units /\ \A q \in retired : q[1] = "exists"
  BY DEF StoreInv, RetiredAreTombstones
<1>4. Spent(p, s.units[p])
  BY <1>2 DEF Settled
<1>5. PICK q \in Parents(p) : q \in retired
  BY <1>1, <1>3, <1>4 DEF Spent
<1>6. q \in Parents(k)
  BY <1>2, <1>5, NestedParents
<1>7. k \notin retired
  BY <1>1, <1>2, <1>3, <1>5, <1>6, ParentsAreRecords
<1>8. QED
  BY <1>5, <1>6, <1>7

(* What the device shows, the library has not deleted.                     *)
LEMMA ShownIsLibrary ==
  ASSUME StoreInv, NEW s, Settled(s), NEW k, IsShown(s, k)
  PROVE  /\ IsLibrary(k)
         /\ StampLess(s.units[k].stamp, units[k].stamp) \/ Same(units[k], s.units[k])
<1>1. k \in Keys /\ Parents(k) \subseteq DOMAIN s.units /\ k \in DOMAIN s.units
  BY DEF Settled, StoreShape, IsTable, Rooted, IsShown
<1>2. ASSUME NEW q \in {k} \cup Parents(k), q \in retired
      PROVE  FALSE
  <2>1. q \in DOMAIN units /\ IsDeletion(q, units[q])
    BY <1>2 DEF StoreInv, RetiredAreTombstones, IsDeletion
  <2>2. KnowsRetired(s, q)
    BY <2>1 DEF Settled, Given
  <2>3. Parents(q) \subseteq Parents(k)
    BY <1>1, NestedParents
  <2>4. PICK r \in s.rows : r.key = q
    BY <2>2, <2>3 DEF KnowsRetired, IsShown
  <2>5. QED
    BY <1>1, <1>2, <2>4, HeldBelowDeleted
<1>3. Spent(k, s.units[k])
  BY <1>1 DEF Settled
<1>4. QED
  BY <1>2, <1>3 DEF Spent, IsLibrary

(* And it shows the version the library has: a later one it was given is    *)
(* not held back.                                                          *)
LEMMA ShownIsCurrent ==
  ASSUME StoreInv, NEW s, Settled(s), NEW k, IsShown(s, k)
  PROVE  s.units[k] = units[k]
<1>1. IsLibrary(k) /\ k \in DOMAIN s.units /\ k \in DOMAIN units
  BY ShownIsLibrary DEF IsShown, IsLibrary
<1>2. s.units[k] \in Version /\ units[k] \in Version
  BY <1>1 DEF Settled, StoreShape, StoreInv, TypeOK, IsTable
<1>3. Has(s, k, units[k].stamp)
  BY <1>1 DEF Settled, Given, Delivered
<1>4. ~StampLess(s.units[k].stamp, units[k].stamp)
  <2>1. ASSUME NEW r \in s.rows, r.key = k
        PROVE  FALSE
    BY <1>1, <2>1, HeldBelowDeleted DEF IsLibrary
  <2>2. QED
    BY <1>3, <2>1 DEF Has, Stores, IsShown
<1>5. Same(units[k], s.units[k])
  BY <1>4, ShownIsLibrary
<1>6. QED
  BY <1>2, <1>5 DEF Same, Version

(* What the library has and did not delete, the device shows or holds back: *)
(* it keeps no deletion the library does not have.                         *)
LEMMA LibraryIsShown ==
  ASSUME StoreInv, NEW s, Settled(s), NEW k, IsLibrary(k)
  PROVE  IsShown(s, k) \/ \E r \in s.rows : r.key = k
<1>1. k \in Keys /\ k \in DOMAIN units
  BY DEF StoreInv, TypeOK, IsTable, IsLibrary
<1>2. \A z \in s.retired : z \in DOMAIN s.units \/ Parents(z) \cap s.retired # {}
  BY DEF Settled, Rooted
<1>3. ASSUME NEW x \in {k} \cup Parents(k), x \in s.retired, x \in DOMAIN s.units
      PROVE  FALSE
  <2>1. IsDeletion(x, s.units[x]) /\ Spent(x, s.units[x])
    BY <1>3 DEF Settled, Rooted
  <2>2. x \in retired \/ Parents(x) \cap retired # {}
    BY <2>1 DEF Spent
  <2>3. Parents(x) \subseteq Parents(k)
    BY <1>1, NestedParents
  <2>4. QED
    BY <2>2, <2>3 DEF IsLibrary
<1>4. ASSUME NEW y \in Parents(k), y \in s.retired
      PROVE  FALSE
  <2>1. PICK w \in Parents(y) : w \in s.retired
    BY <1>2, <1>3, <1>4
  <2>2. w \in Parents(k) /\ Parents(w) = {}
    BY <1>1, <2>1, NestedParents
  <2>3. QED
    BY <1>2, <1>3, <2>1, <2>2
<1>5. ({k} \cup Parents(k)) \cap s.retired = {}
  BY <1>2, <1>3, <1>4
<1>6. Has(s, k, units[k].stamp)
  BY <1>1 DEF Settled, Given, Delivered
<1>7. QED
  BY <1>5, <1>6 DEF Has, Stores, IsShown

LEMMA SettledShows ==
  ASSUME LanesInv, ReadInv
  PROVE  UpToDateDevicesShowTheLibrary
<1>1. SUFFICES ASSUME NEW d \in Clients, UpToDate(d)
      PROVE  LET shown == Shown(store[d].units, store[d].retired)
                 library == Shown(units, retired)
                 waiting == {r.key : r \in store[d].rows}
             IN /\ DOMAIN shown \subseteq DOMAIN library
                /\ DOMAIN library \subseteq DOMAIN shown \cup waiting
                /\ \A k \in DOMAIN shown : shown[k] = library[k]
                /\ \A k \in waiting : ~(Parents(k) \subseteq DOMAIN units)
  BY DEF UpToDateDevicesShowTheLibrary
<1> DEFINE s == store[d]
           shown == Shown(s.units, s.retired)
           library == Shown(units, retired)
<1>2. Settled(s) /\ StoreInv
  BY <1>1, UpToDateIsSettled DEF LanesInv
<1>3. /\ \A k : k \in DOMAIN shown <=> IsShown(s, k)
      /\ \A k \in DOMAIN shown : shown[k] = s.units[k]
      /\ \A k : k \in DOMAIN library <=> IsLibrary(k)
      /\ \A k \in DOMAIN library : library[k] = units[k]
  BY DEF Shown, IsShown, IsLibrary
<1>4. \A r \in s.rows : ~(Parents(r.key) \subseteq DOMAIN units)
  BY <1>2 DEF Settled
<1> HIDE DEF s, shown, library
<1>5. \A k \in DOMAIN shown : k \in DOMAIN library /\ shown[k] = library[k]
  BY <1>2, <1>3, ShownIsLibrary, ShownIsCurrent
<1>6. \A k \in DOMAIN library : k \in DOMAIN shown \/ \E r \in s.rows : r.key = k
  BY <1>2, <1>3, LibraryIsShown
<1>7. QED
  BY <1>4, <1>5, <1>6 DEF s, shown, library

(* lww_apply_receive applies what a page brings or leaves it waiting,       *)
(* promotes what waits when its parents come, and deletes what lies below   *)
(* a record that is deleted, and the push handler answers for what a device *)
(* sent.  A device that has read to the head, waits for no conversation     *)
(* and has nothing to publish therefore shows exactly the library: no unit  *)
(* a lost answer, a late push, an edit in between, a restart of the read or *)
(* a deletion took away elsewhere stays with it, none is missing, none is   *)
(* old; and what it still holds back has parents the library does not have. *)
(* Of commits that stop half way this asks what NothingMissing asks.        *)
THEOREM UpToDateDevicesShow ==
  SystemSpec \/ (WholeSpec /\ StampsAreNotTakenBack) => []UpToDateDevicesShowTheLibrary
<1>1. [SystemNext]_systemVars => [WholeNext]_systemVars
  BY DEF WholeNext
<1>2. [WholeNext]_systemVars => [InterruptedNext]_systemVars
  BY DEF WholeNext, InterruptedNext
<1>3. /\ LanesInv /\ ClocksInv /\ PagesApplyWhole
      /\ [WholeNext]_systemVars /\ [\A d \in Clients : StampIsNotTakenBack(d)]_systemVars
      => ClocksInv'
  BY WholeAdvances
<1>4. LanesInv /\ PagesApplyWhole /\ [WholeNext]_systemVars => PagesApplyWhole'
  BY PagesStayWhole
<1>5. LanesInv /\ PagesApplyWhole /\ ReadInv /\ [SystemNext]_systemVars => ReadInv'
  BY SystemReads
<1>6. LanesInv /\ ClocksInv /\ PagesApplyWhole /\ ReadInv /\ [WholeNext]_systemVars => ReadInv'
  BY WholeReads
<1>7. LanesInv /\ ReadInv => UpToDateDevicesShowTheLibrary
  BY SettledShows
<1>8. SystemSpec => []UpToDateDevicesShowTheLibrary
  BY <1>1, <1>2, <1>4, <1>5, <1>7, InitLanes, NextLanes, InitClocks, InitReads, PTL DEF SystemSpec
<1>9. WholeSpec /\ StampsAreNotTakenBack => []UpToDateDevicesShowTheLibrary
  BY <1>2, <1>3, <1>4, <1>6, <1>7, InitLanes, NextLanes, InitClocks, InitReads, PTL
     DEF WholeSpec, StampsAreNotTakenBack
<1>10. QED
  BY <1>8, <1>9

(* Two devices that are up to date show each unit in the same version,      *)
(* unless one of them holds it back for a parent.                          *)
DevicesAgree ==
  \A d, e \in Clients : UpToDate(d) /\ UpToDate(e) =>
    LET shown(x) == Shown(store[x].units, store[x].retired)
    IN \A k \in DOMAIN shown(d) \ {r.key : r \in store[e].rows} :
         k \in DOMAIN shown(e) /\ shown(d)[k] = shown(e)[k]

(* Replicas converge: whichever pages, pins and restarts brought the units  *)
(* to two devices, in whatever layers lww_apply_receive stored them and     *)
(* whichever edits of their own these met, devices with nothing left to     *)
(* read and to publish show the same.                                      *)
THEOREM DevicesConverge ==
  SystemSpec \/ (WholeSpec /\ StampsAreNotTakenBack) => []DevicesAgree
<1>1. UpToDateDevicesShowTheLibrary => DevicesAgree
  <2>1. SUFFICES ASSUME UpToDateDevicesShowTheLibrary,
                        NEW d \in Clients, NEW e \in Clients, UpToDate(d), UpToDate(e),
                        NEW k \in DOMAIN Shown(store[d].units, store[d].retired),
                        k \notin {r.key : r \in store[e].rows}
                 PROVE  /\ k \in DOMAIN Shown(store[e].units, store[e].retired)
                        /\ Shown(store[d].units, store[d].retired)[k]
                             = Shown(store[e].units, store[e].retired)[k]
    BY DEF DevicesAgree
  <2>2. /\ k \in DOMAIN Shown(units, retired)
        /\ Shown(store[d].units, store[d].retired)[k] = Shown(units, retired)[k]
    BY <2>1 DEF UpToDateDevicesShowTheLibrary
  <2>3. k \in DOMAIN Shown(store[e].units, store[e].retired)
    BY <2>1, <2>2 DEF UpToDateDevicesShowTheLibrary
  <2>4. Shown(store[e].units, store[e].retired)[k] = Shown(units, retired)[k]
    BY <2>1, <2>3 DEF UpToDateDevicesShowTheLibrary
  <2>5. QED
    BY <2>2, <2>3, <2>4
<1>2. QED
  BY <1>1, UpToDateDevicesShow, PTL
=============================================================================
