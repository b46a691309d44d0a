--------------------------- MODULE LwwServerProofs ---------------------------
(***************************************************************************)
(* Proofs about the server's store, for every set of keys, devices,        *)
(* operations and requests and every retention.                            *)
(***************************************************************************)
EXTENDS LwwServer, FiniteSetTheorems, WellFoundedInduction, TLAPS

------------------------------------------------------------------------------
(* Facts about the operators the actions are made of.                      *)

(* A nonempty set of natural numbers has a least element, which Min picks: *)
(* the floor of maintenance is the least of the positions that hold it.    *)
LEMMA MinOfNaturals ==
  ASSUME NEW S \in SUBSET Nat, S # {}
  PROVE  /\ Min(S) \in S
         /\ \A x \in S : Min(S) <= x
<1> DEFINE R == OpToRel(<, Nat)
<1>1. IsWellFoundedOn(R, Nat)
  BY NatLessThanWellFounded
<1>2. \A x, y \in Nat : x < y => <<x, y>> \in R
  BY DEF OpToRel
<1> HIDE DEF R
<1>3. PICK x \in S : \A y \in S : ~ (<<y, x>> \in R)
  BY <1>1, WFMin
<1>4. ASSUME NEW y \in S
      PROVE  x <= y
  <2>1. x \in Nat /\ y \in Nat /\ ~ (<<y, x>> \in R)
    BY <1>3
  <2>2. ~ (y < x)
    BY <1>2, <2>1
  <2>3. QED
    BY <2>1, <2>2
<1>5. QED
  BY <1>4 DEF Min

(* Stamps are totally ordered.                                             *)
LEMMA StampOrder ==
  ASSUME NEW s \in Stamp, NEW t \in Stamp, NEW u \in Stamp
  PROVE  /\ ~StampLess(s, s)
         /\ StampLess(s, t) /\ StampLess(t, u) => StampLess(s, u)
         /\ StampLess(s, t) /\ ~StampLess(s, u) => ~StampLess(t, u)
<1>1. /\ s.physical \in Nat /\ s.logical \in Nat /\ s.writer \in Nat
      /\ t.physical \in Nat /\ t.logical \in Nat /\ t.writer \in Nat
      /\ u.physical \in Nat /\ u.logical \in Nat /\ u.writer \in Nat
  BY WritersAssumption DEF Stamp
<1>2. QED
  BY <1>1 DEF StampLess

(* Every key has at most one change in a well formed request, and the      *)
(* winners are among them.                                                 *)
LEMMA WinnerFacts ==
  ASSUME NEW request \in Request
  PROVE  /\ Winners(request) \subseteq DOMAIN request.changes
         /\ IsFiniteSet(Winners(request))
         /\ Cardinality(Winners(request)) \in Nat
         /\ WonKeys(request) \subseteq Keys
         /\ \A i \in DOMAIN request.changes : request.changes[i] \in Change
         /\ \A key \in WonKeys(request) :
              /\ WinnerOf(request, key) \in Winners(request)
              /\ request.changes[WinnerOf(request, key)].key = key
<1>1. request.changes \in Seq(Change)
  BY DEF Request
<1>2. /\ DOMAIN request.changes = 1 .. Len(request.changes)
      /\ Len(request.changes) \in Nat
      /\ \A i \in DOMAIN request.changes : request.changes[i] \in Change
  BY <1>1
<1>3. Winners(request) \subseteq DOMAIN request.changes
  BY DEF Winners
<1>4. IsFiniteSet(DOMAIN request.changes)
  BY <1>2, FS_Interval
<1>5. IsFiniteSet(Winners(request)) /\ Cardinality(Winners(request)) \in Nat
  BY <1>3, <1>4, FS_Subset, FS_CardinalityType
<1>6. WonKeys(request) \subseteq Keys
  BY <1>2, <1>3 DEF WonKeys, Change
<1>7. ASSUME NEW key \in WonKeys(request)
      PROVE  /\ WinnerOf(request, key) \in Winners(request)
             /\ request.changes[WinnerOf(request, key)].key = key
  BY <1>7 DEF WonKeys, WinnerOf
<1>8. QED
  BY <1>2, <1>3, <1>5, <1>6, <1>7

(* The sequence numbers a push hands out lie above the head it found and   *)
(* up to the head it leaves, and are all different.                        *)
LEMMA SeqFacts ==
  ASSUME NEW request \in Request, head.seq \in Nat
  PROVE  /\ \A key \in WonKeys(request) :
              SeqOf(request, key) \in head.seq + 1 .. head.seq + Cardinality(Winners(request))
         /\ \A k, l \in WonKeys(request) : SeqOf(request, k) = SeqOf(request, l) => k = l
<1> DEFINE W == Winners(request)
           Upto(i) == {j \in W : j <= i}
<1>1. /\ IsFiniteSet(W) /\ Cardinality(W) \in Nat /\ W \subseteq Nat
      /\ \A key \in WonKeys(request) : WinnerOf(request, key) \in W
      /\ \A key \in WonKeys(request) : request.changes[WinnerOf(request, key)].key = key
  BY WinnerFacts DEF Request
<1>2. ASSUME NEW i \in W
      PROVE  /\ IsFiniteSet(Upto(i)) /\ Cardinality(Upto(i)) \in Nat
             /\ Cardinality(Upto(i)) <= Cardinality(W) /\ Cardinality(Upto(i)) >= 1
  <2>1. Upto(i) \in SUBSET W /\ Upto(i) # {}
    BY <1>1
  <2>2. IsFiniteSet(Upto(i)) /\ Cardinality(Upto(i)) <= Cardinality(W)
    BY <2>1, <1>1, FS_Subset
  <2>3. Cardinality(Upto(i)) \in Nat /\ Cardinality(Upto(i)) # 0
    BY <2>1, <2>2, FS_CardinalityType, FS_EmptySet
  <2>4. QED
    BY <2>2, <2>3
<1>3. ASSUME NEW i \in W, NEW j \in W, i < j
      PROVE  Cardinality(Upto(i)) # Cardinality(Upto(j))
  <2>1. Upto(i) \in SUBSET Upto(j) /\ j \in Upto(j) /\ j \notin Upto(i)
    BY <1>1, <1>3
  <2>2. QED
    BY <2>1, <1>2, FS_Subset
<1>4. ASSUME NEW key \in WonKeys(request)
      PROVE  SeqOf(request, key) \in head.seq + 1 .. head.seq + Cardinality(W)
  BY <1>1, <1>2 DEF SeqOf
<1>5. ASSUME NEW k \in WonKeys(request), NEW l \in WonKeys(request),
             SeqOf(request, k) = SeqOf(request, l)
      PROVE  k = l
  <2> DEFINE i == WinnerOf(request, k)
             j == WinnerOf(request, l)
             m == Cardinality(Upto(i))
             n == Cardinality(Upto(j))
  <2>1. i \in W /\ j \in W /\ i \in Nat /\ j \in Nat
    BY <1>1
  <2>2. SeqOf(request, k) = head.seq + m /\ SeqOf(request, l) = head.seq + n
    BY DEF SeqOf
  <2>3. m \in Nat /\ n \in Nat
    BY <1>2, <2>1
  <2>4. (i < j => m # n) /\ (j < i => n # m)
    BY <1>3, <2>1
  <2>5. request.changes[i].key = k /\ request.changes[j].key = l
    BY <1>1
  <2> HIDE DEF i, j, m, n
  <2>6. m = n
    <3>1. head.seq + m = head.seq + n
      BY <1>5, <2>2
    <3>2. QED
      BY <2>3, <3>1
  <2>7. i = j
    BY <2>1, <2>4, <2>6
  <2>8. QED
    BY <2>5, <2>7
<1>6. QED
  BY <1>4, <1>5

(* The floor maintenance computes never falls and never passes the head.   *)
LEMMA FloorFacts ==
  ASSUME TypeOK
  PROVE  /\ HeldPositions \subseteq Nat
         /\ NewFloor \in Nat
         /\ NewFloor >= head.min_retained_seq
         /\ head.min_retained_seq <= head.seq => NewFloor <= head.seq
         /\ \A x \in HeldPositions : NewFloor <= x \/ NewFloor = head.min_retained_seq
<1>1. head.seq \in Nat /\ head.min_retained_seq \in Nat
  BY DEF TypeOK
<1>2. Cursors \subseteq Nat
  BY DEF TypeOK, Registration, Cursors, Active
<1>3. {p.start_seq : p \in RemainingPins} \subseteq Nat
  BY DEF TypeOK, RemainingPins
<1>4. ASSUME NEW k \in DOMAIN journal
      PROVE  journal[k].seq - 1 \in Nat
  <2>1. journal[k] \in JournalRow
    BY <1>4 DEF TypeOK, IsTable
  <2>2. QED
    BY <2>1 DEF JournalRow
<1>5. HeldPositions \subseteq Nat
  BY <1>2, <1>3, <1>4 DEF HeldPositions
<1> DEFINE held == HeldPositions \cup {head.seq}
<1>6. held \in SUBSET Nat /\ held # {}
  BY <1>1, <1>5
<1>7. Min(held) \in held /\ \A x \in held : Min(held) <= x
  BY <1>6, MinOfNaturals
<1>8. Min(held) \in Nat /\ Min(held) <= head.seq /\ \A x \in HeldPositions : Min(held) <= x
  BY <1>6, <1>7
<1>9. NewFloor = IF Min(held) > head.min_retained_seq THEN Min(held) ELSE head.min_retained_seq
  BY DEF NewFloor
<1> DEFINE lowest == Min(held)
<1> HIDE DEF lowest, held
<1>10. QED
  BY <1>1, <1>5, <1>8, <1>9 DEF lowest

------------------------------------------------------------------------------
(* Type correctness.                                                       *)

LEMMA AcceptPushTypes ==
  ASSUME TypeOK, NEW d \in DeviceIds, NEW op \in OperationIds, NEW request \in Request,
         NEW e \in BOOLEAN, AcceptPush(d, op, request, e)
  PROVE  TypeOK'
<1> DEFINE won == WonKeys(request)
           change(key) == request.changes[WinnerOf(request, key)]
<1>1. head \in [epoch : Nat, seq : Nat, min_retained_seq : Nat] /\ now \in Nat
  BY DEF TypeOK
<1>2. /\ won \subseteq Keys /\ Cardinality(Winners(request)) \in Nat
      /\ \A key \in won : change(key) \in Change /\ change(key).key = key
      /\ \A i \in DOMAIN request.changes : request.changes[i] \in Change
  BY WinnerFacts
<1>3. \A key \in won : SeqOf(request, key) \in Nat \ {0}
  BY <1>1, <1>2, SeqFacts
<1>4. IsTable(units', Keys, Version)
  <2>1. units' = [key \in (DOMAIN units \ Orphans(request)) \cup won |->
                    IF key \in won THEN VersionOf(change(key)) ELSE units[key]]
    BY DEF AcceptPush, ApplyWinners
  <2>2. \A key \in won : VersionOf(change(key)) \in Version
    BY <1>2 DEF VersionOf, Version, Change
  <2>3. \A key \in DOMAIN units : key \in Keys /\ units[key] \in Version
    BY DEF TypeOK, IsTable
  <2> HIDE DEF won, change
  <2>4. QED
    BY <1>2, <2>1, <2>2, <2>3 DEF IsTable
<1>5. IsTable(journal', Keys, JournalRow)
  <2>1. journal' = [key \in (DOMAIN journal \ Orphans(request)) \cup won |->
                    IF key \in won
                    THEN [seq |-> SeqOf(request, key), key |-> key, stamp |-> change(key).stamp,
                          value |-> change(key).value, created |-> now]
                    ELSE journal[key]]
    BY DEF AcceptPush, ApplyWinners
  <2>2. \A key \in won :
          [seq |-> SeqOf(request, key), key |-> key, stamp |-> change(key).stamp,
           value |-> change(key).value, created |-> now] \in JournalRow
    BY <1>1, <1>2, <1>3 DEF JournalRow, Change
  <2>3. \A key \in DOMAIN journal : key \in Keys /\ journal[key] \in JournalRow
    BY DEF TypeOK, IsTable
  <2> HIDE DEF won, change
  <2>4. QED
    BY <1>2, <2>1, <2>2, <2>3 DEF IsTable
<1>6. retired' \subseteq Keys /\ unit_parents' \subseteq Links
  BY <1>2 DEF AcceptPush, ApplyWinners, TypeOK, Links, RetiredBy
<1>7. head' \in [epoch : Nat, seq : Nat, min_retained_seq : Nat]
  BY <1>1, <1>2 DEF AcceptPush, ApplyWinners
<1>8. IsTable(writer_versions', Keys \X Stamp, [identity : Value, created : Nat])
  <2> DEFINE ids == {<<c.key, c.stamp>> : c \in ChangesOf(request)}
             pick(id) == CHOOSE c \in ChangesOf(request) : <<c.key, c.stamp>> = id
             Row == [identity : Value, created : Nat]
  <2>1. writer_versions' =
          [id \in DOMAIN writer_versions \cup ids |->
             IF id \in DOMAIN writer_versions THEN writer_versions[id]
             ELSE [identity |-> pick(id).value, created |-> now]]
    BY DEF AcceptPush, RecordVersions
  <2>2. ChangesOf(request) \subseteq Change
    BY <1>2 DEF ChangesOf
  <2>3. ids \subseteq Keys \X Stamp
    BY <2>2 DEF Change
  <2>4. \A id \in ids : pick(id) \in Change
    BY <2>2
  <2>5. \A id \in ids : [identity |-> pick(id).value, created |-> now] \in Row
    BY <1>1, <2>4 DEF Change
  <2>6. \A id \in DOMAIN writer_versions : id \in Keys \X Stamp /\ writer_versions[id] \in Row
    BY DEF TypeOK, IsTable
  <2> HIDE DEF ids, pick, Row
  <2>7. IsTable(writer_versions', Keys \X Stamp, Row)
    BY <2>1, <2>3, <2>5, <2>6 DEF IsTable
  <2>8. QED
    BY <2>7 DEF Row
<1>9. IsTable(writers', Writers, DeviceIds)
  <2>1. request.writer \in Writers
    BY DEF Request
  <2>2. QED
    BY <2>1 DEF AcceptPush, TypeOK, IsTable
<1>10. IsTable(operations', DeviceIds \X OperationIds, Receipt)
  <2> DEFINE receipt == [outcome |-> "accepted", digest |-> request,
                         seq |-> head.seq + Cardinality(Winners(request)),
                         accepted_keys |-> WonKeys(request), created |-> now]
  <2>1. receipt \in Receipt
    BY <1>1, <1>2 DEF Receipt, Digest
  <2>2. SaveOperation(d, op, receipt)
    BY DEF AcceptPush
  <2> HIDE DEF receipt
  <2>3. QED
    BY <2>1, <2>2 DEF SaveOperation, TypeOK, IsTable
<1>11. QED
  BY <1>1, <1>4, <1>5, <1>6, <1>7, <1>8, <1>9, <1>10 DEF TypeOK, AcceptPush

(* An operation gets its answer: the receipts stay a table of receipts.    *)
LEMMA SaveOperationTypes ==
  ASSUME TypeOK, NEW d \in DeviceIds, NEW op \in OperationIds, NEW receipt \in Receipt,
         SaveOperation(d, op, receipt)
  PROVE  IsTable(operations', DeviceIds \X OperationIds, Receipt)
BY DEF SaveOperation, TypeOK, IsTable

(* A refusal and a cancellation write a receipt and nothing else.          *)
LEMMA RefusalTypes ==
  ASSUME TypeOK, NEW d \in DeviceIds, NEW op \in OperationIds, NEW request \in Request,
         \/ \E e, sound \in BOOLEAN : RefusePush(d, op, request, e, sound)
         \/ CancelOperation(d, op, request)
  PROVE  TypeOK'
<1> DEFINE receipt(outcome) == [outcome |-> outcome, digest |-> request, seq |-> 0,
                                accepted_keys |-> {}, created |-> now]
<1>1. receipt("rejected") \in Receipt /\ receipt("cancelled") \in Receipt
  BY DEF Receipt, Digest, TypeOK
<1>2. \/ SaveOperation(d, op, receipt("rejected"))
      \/ SaveOperation(d, op, receipt("cancelled"))
  BY DEF RefusePush, CancelOperation
<1> HIDE DEF receipt
<1>3. IsTable(operations', DeviceIds \X OperationIds, Receipt)
  BY <1>1, <1>2, SaveOperationTypes
<1>4. UNCHANGED <<now, head, contents, journal, writers, writer_versions,
                  devices, state_pins, next_pin>>
  BY DEF RefusePush, CancelOperation
<1>5. QED
  BY <1>3, <1>4 DEF TypeOK, contents

(* A cursor moves to a number between its own and the head.                *)
LEMMA AcknowledgeTypes ==
  ASSUME TypeOK, NEW d \in DeviceIds, NEW seq \in 0 .. head.seq, Acknowledge(d, seq)
  PROVE  TypeOK'
<1>1. devices' \in [DeviceIds -> Registration]
  <2>1. devices[d] \in Registration /\ now \in Nat /\ seq \in Nat
    BY DEF TypeOK
  <2>2. [devices[d] EXCEPT !.ack = seq, !.last_ack = now] \in Registration
    BY <2>1 DEF Registration
  <2>3. devices' = [devices EXCEPT ![d] = [devices[d] EXCEPT !.ack = seq, !.last_ack = now]]
    BY DEF Acknowledge, TypeOK
  <2>4. QED
    BY <2>2, <2>3 DEF TypeOK
<1>2. QED
  BY <1>1 DEF TypeOK, Acknowledge, contents

(* A pin is a copy of the library at the head, with its expiry.            *)
LEMMA PinTypes ==
  ASSUME TypeOK, NEW d \in DeviceIds,
         CreateStatePin(d) \/ \E pin \in state_pins : ReleaseStatePin(d, pin)
  PROVE  TypeOK'
<1> DEFINE pin == [id |-> next_pin, device |-> d, start_seq |-> head.seq,
                   expires |-> now + PIN_LIFETIME, units |-> units]
<1>1. state_pins' \subseteq state_pins \cup {pin}
  BY DEF CreateStatePin, ReleaseStatePin
<1>2. next_pin' \in Nat
  BY DEF TypeOK, CreateStatePin, ReleaseStatePin
<1>3. /\ DOMAIN pin = {"id", "device", "start_seq", "expires", "units"}
      /\ pin.id \in Nat /\ pin.device \in DeviceIds /\ pin.start_seq \in Nat /\ pin.expires \in Nat
      /\ IsTable(pin.units, Keys, Version)
  BY ClockAssumption DEF TypeOK
<1> HIDE DEF pin
<1>4. \A p \in state_pins' :
        /\ DOMAIN p = {"id", "device", "start_seq", "expires", "units"}
        /\ p.id \in Nat /\ p.device \in DeviceIds /\ p.start_seq \in Nat /\ p.expires \in Nat
        /\ IsTable(p.units, Keys, Version)
  BY <1>1, <1>3 DEF TypeOK
<1>5. UNCHANGED <<now, head, contents, journal, operations, writers, writer_versions, devices>>
  BY DEF CreateStatePin, ReleaseStatePin
<1>6. QED
  BY <1>2, <1>4, <1>5 DEF TypeOK, contents

(* A registration is added or revoked.                                     *)
LEMMA RegistrationTypes ==
  ASSUME TypeOK, NEW d \in DeviceIds, AddDevice(d) \/ RevokeDevice(d)
  PROVE  TypeOK'
<1>1. devices' \in [DeviceIds -> Registration]
  BY DEF TypeOK, Registration, AddDevice, RevokeDevice
<1>2. QED
  BY <1>1 DEF TypeOK, AddDevice, RevokeDevice, contents

(* Maintenance restricts tables to the rows it keeps and moves the floor.  *)
LEMMA MaintainTypes ==
  ASSUME TypeOK, NEW holding, Maintain(holding)
  PROVE  TypeOK'
<1>1. head' \in [epoch : Nat, seq : Nat, min_retained_seq : Nat]
  BY FloorFacts DEF TypeOK, Maintain
<1>2. devices' \in [DeviceIds -> Registration]
  BY DEF TypeOK, Registration, Maintain
<1>3. IsTable(journal', Keys, JournalRow)
  BY DEF TypeOK, IsTable, Maintain
<1>4. IsTable(operations', DeviceIds \X OperationIds, Receipt)
  BY DEF TypeOK, IsTable, Maintain
<1>5. IsTable(writer_versions', Keys \X Stamp, [identity : Value, created : Nat])
  BY DEF TypeOK, IsTable, Maintain
<1>6. state_pins' \subseteq state_pins
  BY DEF Maintain, RemainingPins
<1>7. UNCHANGED <<now, contents, writers, next_pin>>
  BY DEF Maintain
<1>8. QED
  BY <1>1, <1>2, <1>3, <1>4, <1>5, <1>6, <1>7 DEF TypeOK, contents

(* A restored server starts an epoch with an empty journal and no devices. *)
LEMMA RotateTypes ==
  ASSUME TypeOK, RotateRestoredEpoch
  PROVE  TypeOK'
<1>1. head' \in [epoch : Nat, seq : Nat, min_retained_seq : Nat]
  BY DEF TypeOK, RotateRestoredEpoch
<1>2. devices' \in [DeviceIds -> Registration]
  BY DEF TypeOK, Registration, RotateRestoredEpoch
<1>3. IsTable(journal', Keys, JournalRow) /\ state_pins' = {}
  BY DEF IsTable, RotateRestoredEpoch
<1>4. UNCHANGED <<now, contents, operations, writers, writer_versions, next_pin>>
  BY DEF RotateRestoredEpoch
<1>5. QED
  BY <1>1, <1>2, <1>3, <1>4 DEF TypeOK, contents

(* The empty store is well typed.                                          *)
LEMMA InitTypes == Init => TypeOK
BY DEF Init, TypeOK, IsTable, Registration

(* Every step of the store keeps its tables well typed.                    *)
LEMMA NextTypes == TypeOK /\ [Next]_vars => TypeOK'
<1> SUFFICES ASSUME TypeOK, [Next]_vars PROVE TypeOK'
  OBVIOUS
<1> Requests \subseteq Request
  BY RequestsAssumption
<1>1. ASSUME NEW d \in DeviceIds, NEW op \in OperationIds, NEW r \in Requests, NEW e \in BOOLEAN,
             AcceptPush(d, op, r, e)
      PROVE  TypeOK'
  BY <1>1, AcceptPushTypes
<1>2. ASSUME NEW d \in DeviceIds, NEW op \in OperationIds, NEW r \in Requests,
             \/ \E e, sound \in BOOLEAN : RefusePush(d, op, r, e, sound)
             \/ CancelOperation(d, op, r)
      PROVE  TypeOK'
  BY <1>2, RefusalTypes
<1>3. ASSUME NEW d \in DeviceIds, NEW seq \in 0 .. head.seq, Acknowledge(d, seq)
      PROVE  TypeOK'
  BY <1>3, AcknowledgeTypes
<1>4. ASSUME NEW d \in DeviceIds,
             CreateStatePin(d) \/ \E pin \in state_pins : ReleaseStatePin(d, pin)
      PROVE  TypeOK'
  BY <1>4, PinTypes
<1>5. ASSUME NEW d \in DeviceIds, AddDevice(d) \/ RevokeDevice(d)
      PROVE  TypeOK'
  BY <1>5, RegistrationTypes
<1>6. ASSUME NEW holding, Maintain(holding) PROVE TypeOK'
  BY <1>6, MaintainTypes
<1>7. CASE RotateRestoredEpoch
  BY <1>7, RotateTypes
<1>8. CASE Tick
  BY <1>8 DEF Tick, TypeOK, contents
<1>9. CASE UNCHANGED vars
  BY <1>9 DEF vars, TypeOK, contents
<1>10. QED
  BY <1>1, <1>2, <1>3, <1>4, <1>5, <1>6, <1>7, <1>8, <1>9 DEF Next

(* Whatever is pushed, read, revoked, maintained or restored, every table  *)
(* of the store holds rows of its shape.                                   *)
THEOREM TypeCorrect == Spec => []TypeOK
<1>1. Init => TypeOK
  BY InitTypes
<1>2. TypeOK /\ [Next]_vars => TypeOK'
  BY NextTypes
<1>3. QED
  BY <1>1, <1>2, PTL DEF Spec

------------------------------------------------------------------------------
(* The journal and the retired.                                            *)

(* unit_parents knows every unit that is stored, under each of its parents. *)
ChildrenAreLinked == \A k \in DOMAIN units : \A p \in Parents(k) : <<p, k>> \in unit_parents

(* The retired existence units are exactly the tombstones of their kind.   *)
RetiredAreTombstones ==
    retired = {k \in DOMAIN units : k[1] = "exists" /\ units[k].value = Deleted}

(* What makes the safety of the store inductive: a retirement finds the    *)
(* children it has to delete because every stored unit is linked, and a    *)
(* unit below a parent that was retired before is itself retired.          *)
StoreInv ==
    /\ TypeOK
    /\ JournalMirrorsLibrary
    /\ ChildrenAreLinked
    /\ RetiredAreTombstones
    /\ NothingLivesBelowTheRetired

(* A winner's change is the only one for its key, and what it carries.     *)
LEMMA WinnerIsTheChange ==
  ASSUME NEW request \in Request, WellFormed(request),
         NEW key \in WonKeys(request), NEW c \in ChangesOf(request), c.key = key
  PROVE  c = request.changes[WinnerOf(request, key)]
<1>1. PICK i \in DOMAIN request.changes : c = request.changes[i]
  BY DEF ChangesOf
<1>2. /\ WinnerOf(request, key) \in DOMAIN request.changes
      /\ request.changes[WinnerOf(request, key)].key = key
  BY WinnerFacts
<1>3. i = WinnerOf(request, key)
  BY <1>1, <1>2 DEF WellFormed
<1>4. QED
  BY <1>1, <1>3

(* What wins below a retired parent, or over a retired key, is a           *)
(* retirement; and a winning retirement retires its key.                   *)
LEMMA WinnersRespectRetirement ==
  ASSUME NEW request \in Request, WellFormed(request), FormatKey \notin retired,
         NEW key \in WonKeys(request)
  PROVE  LET c == request.changes[WinnerOf(request, key)] IN
         /\ key \in retired \cup RetiredBy(request) => IsRetirement(c)
         /\ Parents(key) \cap (retired \cup RetiredBy(request)) # {} => IsRetirement(c)
         /\ IsRetirement(c) <=> key \in RetiredBy(request)
<1> DEFINE c == request.changes[WinnerOf(request, key)]
<1>1. c.key = key /\ c \in ChangesOf(request) /\ Wins(request, c)
  BY WinnerFacts DEF ChangesOf, Winners
<1>2. IsRetirement(c) <=> key \in RetiredBy(request)
  <2>1. ASSUME IsRetirement(c) PROVE key \in RetiredBy(request)
    BY <1>1, <2>1 DEF RetiredBy, Retiring
  <2>2. ASSUME key \in RetiredBy(request) PROVE IsRetirement(c)
    <3>1. PICK x \in ChangesOf(request) : IsRetirement(x) /\ x.key = key
      BY <2>2 DEF RetiredBy, Retiring
    <3>2. QED
      BY <3>1, WinnerIsTheChange
  <2>3. QED
    BY <2>1, <2>2
<1>3. CASE key = FormatKey
  <2>1. Parents(key) = {}
    BY <1>3 DEF Parents, FormatKey
  <2>2. QED
    BY <1>2, <1>3, <2>1
<1>4. CASE key # FormatKey
  <2>1. ~ Suppressed(request, c)
    BY <1>1, <1>4 DEF Wins
  <2>2. RetiredBy(request) \subseteq Retiring(request)
    BY DEF RetiredBy
  <2> HIDE DEF c
  <2>3. QED
    BY <1>1, <1>2, <2>1, <2>2 DEF Suppressed, c
<1>5. QED
  BY <1>3, <1>4

(* Refused requests are not accepted: the accepted one is well formed.     *)
LEMMA AcceptedIsWellFormed ==
  ASSUME NEW d, NEW op, NEW request, NEW e, AcceptPush(d, op, request, e)
  PROVE  WellFormed(request) /\ ApplyWinners(request)
BY DEF AcceptPush, Refused, WriterCollision

(* A push leaves every journal row with the version its unit has.          *)
LEMMA AcceptPushMirrors ==
  ASSUME TypeOK, JournalMirrorsLibrary, NEW request \in Request, ApplyWinners(request)
  PROVE  JournalMirrorsLibrary'
<1> DEFINE won == WonKeys(request)
           orphans == Orphans(request)
           change(key) == request.changes[WinnerOf(request, key)]
           count == Cardinality(Winners(request))
<1>1. /\ units' = [key \in (DOMAIN units \ orphans) \cup won |->
                     IF key \in won THEN VersionOf(change(key)) ELSE units[key]]
      /\ journal' = [key \in (DOMAIN journal \ orphans) \cup won |->
                       IF key \in won
                       THEN [seq |-> SeqOf(request, key), key |-> key,
                             stamp |-> change(key).stamp, value |-> change(key).value,
                             created |-> now]
                       ELSE journal[key]]
  BY DEF ApplyWinners
<1>2. /\ head.seq \in Nat /\ head.min_retained_seq \in Nat
      /\ head.min_retained_seq <= head.seq /\ count \in Nat
  BY WinnerFacts DEF TypeOK, JournalMirrorsLibrary
<1>3. head'.seq = head.seq + count /\ head'.min_retained_seq = head.min_retained_seq
  BY <1>2 DEF ApplyWinners, TypeOK
<1>4. /\ \A key \in won : SeqOf(request, key) \in head.seq + 1 .. head.seq + count
      /\ \A k, l \in won : SeqOf(request, k) = SeqOf(request, l) => k = l
  BY <1>2, SeqFacts
<1>5. \A k \in DOMAIN journal :
        /\ k \in DOMAIN units /\ units[k] = VersionOf(journal[k]) /\ journal[k].key = k
        /\ journal[k].seq \in head.min_retained_seq + 1 .. head.seq
  BY DEF JournalMirrorsLibrary
<1>6. \A k, l \in DOMAIN journal : journal[k].seq = journal[l].seq => k = l
  BY DEF JournalMirrorsLibrary
<1> HIDE DEF won, orphans, change, count
<1>7. ASSUME NEW k \in DOMAIN journal'
      PROVE  /\ k \in DOMAIN units' /\ units'[k] = VersionOf(journal'[k])
             /\ journal'[k].key = k
             /\ k \in won => journal'[k].seq = SeqOf(request, k)
             /\ k \notin won => k \in DOMAIN journal /\ journal'[k] = journal[k]
  BY <1>1, <1>5, <1>7 DEF VersionOf
<1>8. ASSUME NEW k \in DOMAIN journal'
      PROVE  /\ journal'[k].seq \in head.min_retained_seq + 1 .. head.seq + count
             /\ k \in won <=> journal'[k].seq > head.seq
  <2>1. CASE k \in won
    BY <1>2, <1>4, <1>7, <2>1
  <2>2. CASE k \notin won
    BY <1>2, <1>5, <1>7, <2>2
  <2>3. QED
    BY <2>1, <2>2
<1>9. ASSUME NEW k \in DOMAIN journal', NEW l \in DOMAIN journal',
             journal'[k].seq = journal'[l].seq
      PROVE  k = l
  BY <1>4, <1>6, <1>7, <1>8, <1>9
<1>10. QED
  BY <1>2, <1>3, <1>7, <1>8, <1>9 DEF JournalMirrorsLibrary

(* A push links what it stores, and deletes what it retires the parent of. *)
LEMMA AcceptPushRetires ==
  ASSUME StoreInv, NEW request \in Request, WellFormed(request), ApplyWinners(request)
  PROVE  /\ ChildrenAreLinked'
         /\ RetiredAreTombstones'
         /\ NothingLivesBelowTheRetired'
         /\ retired \subseteq retired'
         /\ \A k \in DOMAIN units \ DOMAIN units' : Parents(k) \cap (retired' \ retired) # {}
<1> DEFINE won == WonKeys(request)
           orphans == Orphans(request)
           change(key) == request.changes[WinnerOf(request, key)]
<1>1. /\ DOMAIN units' = (DOMAIN units \ orphans) \cup won
      /\ \A k \in won : units'[k] = VersionOf(change(k))
      /\ \A k \in DOMAIN units' \ won : units'[k] = units[k]
      /\ retired' = retired \cup RetiredBy(request)
      /\ unit_parents' = unit_parents \cup UNION {Parents(key) \X {key} : key \in won}
  BY DEF ApplyWinners
<1>2. /\ DOMAIN units \subseteq Keys /\ retired \subseteq Keys /\ won \subseteq Keys
      /\ RetiredBy(request) \subseteq won /\ orphans \cap retired = {}
  BY WinnerFacts DEF StoreInv, TypeOK, IsTable, RetiredBy, Orphans
<1>3. /\ retired = {k \in DOMAIN units : k[1] = "exists" /\ units[k].value = Deleted}
      /\ FormatKey \notin retired
  BY DEF StoreInv, RetiredAreTombstones, FormatKey
<1>4. \A k \in won :
        /\ k \in retired' => IsRetirement(change(k))
        /\ Parents(k) \cap retired' # {} => IsRetirement(change(k))
        /\ IsRetirement(change(k)) <=> k \in RetiredBy(request)
        /\ change(k).key = k
  BY <1>1, <1>3, WinnersRespectRetirement, WinnerFacts
<1> HIDE DEF won, orphans, change
<1>5. ASSUME NEW k \in won
      PROVE  IsRetirement(change(k)) <=> k[1] = "exists" /\ units'[k].value = Deleted
  BY <1>1, <1>4, <1>5 DEF IsRetirement, VersionOf
<1>6. RetiredAreTombstones'
  <2>1. ASSUME NEW k \in DOMAIN units'
        PROVE  k \in retired' <=> k[1] = "exists" /\ units'[k].value = Deleted
    <3>1. CASE k \in won
      BY <1>1, <1>4, <1>5, <3>1
    <3>2. CASE k \notin won
      BY <1>1, <1>2, <1>3, <3>2
    <3>3. QED
      BY <3>1, <3>2
  <2>2. retired' \subseteq DOMAIN units'
    BY <1>1, <1>2, <1>3
  <2>3. QED
    BY <2>1, <2>2 DEF RetiredAreTombstones
<1>7. ChildrenAreLinked'
  <2>1. ASSUME NEW k \in DOMAIN units', NEW p \in Parents(k)
        PROVE  <<p, k>> \in unit_parents'
    <3>1. CASE k \in won
      BY <1>1, <3>1
    <3>2. CASE k \notin won
      BY <1>1, <3>2 DEF StoreInv, ChildrenAreLinked
    <3>3. QED
      BY <3>1, <3>2
  <2>2. QED
    BY <2>1 DEF ChildrenAreLinked
<1>8. ASSUME NEW k \in DOMAIN units', NEW p \in Parents(k), p \in retired'
      PROVE  k \in retired'
  <2>1. CASE k \in won
    BY <1>1, <1>4, <1>8, <2>1
  <2>2. CASE k \notin won
    <3>1. k \in DOMAIN units /\ k \notin orphans
      BY <1>1, <2>2
    <3>2. CASE p \in retired
      BY <1>1, <1>3, <3>1, <3>2 DEF StoreInv, NothingLivesBelowTheRetired
    <3>3. CASE p \in RetiredBy(request)
      <4>1. <<p, k>> \in unit_parents
        BY <3>1 DEF StoreInv, ChildrenAreLinked
      <4>2. k \in retired
        BY <1>2, <3>1, <3>3, <4>1 DEF Orphans, orphans
      <4>3. QED
        BY <1>1, <4>2
    <3>4. QED
      BY <1>1, <1>8, <3>2, <3>3
  <2>3. QED
    BY <2>1, <2>2
<1>9. NothingLivesBelowTheRetired'
  <2>1. retired' = {k \in DOMAIN units' : k[1] = "exists" /\ units'[k].value = Deleted}
    BY <1>6 DEF RetiredAreTombstones
  <2>2. QED
    BY <1>8, <2>1 DEF NothingLivesBelowTheRetired
<1>10. ASSUME NEW k \in DOMAIN units \ DOMAIN units'
       PROVE  Parents(k) \cap (retired' \ retired) # {}
  <2>1. k \in orphans
    BY <1>1
  <2>2. PICK p \in RetiredBy(request) : <<p, k>> \in unit_parents
    BY <2>1 DEF Orphans, orphans
  <2>3. p \in Parents(k)
    BY <2>2 DEF StoreInv, TypeOK, Links
  <2>4. k \notin retired
    BY <1>2, <2>1
  <2>5. p \notin retired
    BY <1>3, <2>3, <2>4 DEF StoreInv, NothingLivesBelowTheRetired
  <2>6. QED
    BY <1>1, <2>2, <2>3, <2>5
<1>11. QED
  BY <1>1, <1>6, <1>7, <1>9, <1>10

(* A push that is accepted leaves the store safe.                          *)
LEMMA AcceptPushIsSafe ==
  ASSUME StoreInv, NEW d \in DeviceIds, NEW op \in OperationIds, NEW request \in Request,
         NEW e \in BOOLEAN, AcceptPush(d, op, request, e)
  PROVE  /\ StoreInv'
         /\ retired \subseteq retired'
         /\ \A k \in DOMAIN units \ DOMAIN units' : Parents(k) \cap (retired' \ retired) # {}
<1>1. TypeOK'
  BY AcceptPushTypes DEF StoreInv
<1>2. WellFormed(request) /\ ApplyWinners(request)
  BY AcceptedIsWellFormed
<1>3. JournalMirrorsLibrary'
  BY <1>2, AcceptPushMirrors DEF StoreInv
<1>4. /\ ChildrenAreLinked' /\ RetiredAreTombstones' /\ NothingLivesBelowTheRetired'
      /\ retired \subseteq retired'
      /\ \A k \in DOMAIN units \ DOMAIN units' : Parents(k) \cap (retired' \ retired) # {}
  BY <1>2, AcceptPushRetires
<1>5. QED
  BY <1>1, <1>3, <1>4 DEF StoreInv

(* The key of the library's level is below nothing.                        *)
LEMMA FormatKeyFacts ==
  ASSUME StoreInv
  PROVE  Parents(FormatKey) = {} /\ FormatKey \notin retired
BY DEF FormatKey, Parents, StoreInv, RetiredAreTombstones

(* What each of its changes leaves behind.                                 *)
LEMMA ChangeEffect ==
  ASSUME StoreInv, StoreInv', NEW request \in Request,
         NEW d, NEW op, NEW e, AcceptPush(d, op, request, e),
         NEW c \in ChangesOf(request)
  PROVE  /\ c \in Change
         /\ c.key = FormatKey => c.value \in Levels
         /\ c.key \in WonKeys(request) => units'[c.key] = VersionOf(c) /\ c.key \in DOMAIN units'
         /\ c.key \in WonKeys(request) <=> Wins(request, c)
         /\ IsRetirement(c) => c.key \in retired'
         /\ Retiring(request) \subseteq retired'
<1>1. WellFormed(request) /\ ApplyWinners(request)
  BY AcceptedIsWellFormed
<1>2. c \in Change
  BY WinnerFacts DEF ChangesOf
<1>3. c.key = FormatKey => c.value \in Levels
  BY DEF AcceptPush, Refused, RefusedChange
<1>4. ASSUME NEW x \in ChangesOf(request)
      PROVE  x.key \in WonKeys(request) <=> Wins(request, x)
  <2>1. PICK i \in DOMAIN request.changes : x = request.changes[i]
    BY DEF ChangesOf
  <2>2. \A j \in DOMAIN request.changes : request.changes[j].key = x.key => j = i
    BY <1>1, <2>1 DEF WellFormed
  <2>3. QED
    BY <2>1, <2>2 DEF WonKeys, Winners
<1>5. c.key \in WonKeys(request) => units'[c.key] = VersionOf(c) /\ c.key \in DOMAIN units'
  BY <1>1, WinnerIsTheChange DEF ApplyWinners
<1>6. ASSUME NEW x \in ChangesOf(request), IsRetirement(x)
      PROVE  x.key \in retired'
  <2>1. x.key # FormatKey
    BY <1>6 DEF IsRetirement, FormatKey
  <2>2. retired' = retired \cup RetiredBy(request)
    BY <1>1 DEF ApplyWinners
  <2>3. x.key \notin retired => Wins(request, x)
    BY <1>6, <2>1 DEF Wins, Suppressed
  <2>4. QED
    BY <1>4, <1>6, <2>2, <2>3 DEF RetiredBy, Retiring
<1>7. QED
  BY <1>2, <1>3, <1>4, <1>5, <1>6 DEF Retiring

(* What it leaves of the units it does not replace.                        *)
LEMMA KeptUnits ==
  ASSUME StoreInv, StoreInv', NEW request \in Request,
         NEW d, NEW op, NEW e, AcceptPush(d, op, request, e)
  PROVE  /\ retired \subseteq retired'
         /\ retired' \ retired \subseteq WonKeys(request)
         /\ retired' \ retired \subseteq Retiring(request)
         /\ retired \subseteq DOMAIN units /\ retired' \subseteq DOMAIN units'
         /\ WonKeys(request) \subseteq DOMAIN units'
         /\ DOMAIN units' \subseteq DOMAIN units \cup WonKeys(request)
         /\ \A k \in DOMAIN units' \ WonKeys(request) : units'[k] = units[k]
         /\ \A k \in DOMAIN units \ DOMAIN units' :
              k \notin retired' /\ Parents(k) \cap retired' # {}
         /\ \A k \in DOMAIN units' : k \in retired' \/ Parents(k) \cap retired' = {}
<1>1. WellFormed(request) /\ ApplyWinners(request)
  BY AcceptedIsWellFormed
<1>2. /\ retired' = retired \cup RetiredBy(request)
      /\ RetiredBy(request) = WonKeys(request) \cap Retiring(request)
      /\ DOMAIN units' = (DOMAIN units \ Orphans(request)) \cup WonKeys(request)
      /\ \A k \in DOMAIN units' \ WonKeys(request) : units'[k] = units[k]
  BY <1>1 DEF ApplyWinners, RetiredBy
<1>3. retired \subseteq DOMAIN units /\ retired' \subseteq DOMAIN units'
  BY DEF StoreInv, RetiredAreTombstones
<1>4. ASSUME NEW k \in DOMAIN units'
      PROVE  k \in retired' \/ Parents(k) \cap retired' = {}
  BY <1>4 DEF StoreInv, NothingLivesBelowTheRetired, RetiredAreTombstones
<1>5. ASSUME NEW k \in DOMAIN units \ DOMAIN units'
      PROVE  k \notin retired' /\ Parents(k) \cap retired' # {}
  BY <1>1, <1>3, AcceptPushRetires
<1>6. QED
  BY <1>2, <1>3, <1>4, <1>5

(* A change that does not win is outweighed by what is stored.  That of the *)
(* library's level is compared by its value.                               *)
LEMMA LosersAreOutweighed ==
  ASSUME StoreInv, StoreInv', NEW request \in Request,
         NEW d, NEW op, NEW e, AcceptPush(d, op, request, e),
         NEW c \in ChangesOf(request), c.key \notin WonKeys(request), c.key # FormatKey
  PROVE  \/ ~IsRetirement(c) /\ (c.key \in retired \/ Parents(c.key) \cap retired' # {})
         \/ /\ c.key \in DOMAIN units
            /\ ~StampLess(units[c.key].stamp, c.stamp)
            /\ IsRetirement(c) => c.key \in retired
<1>1. ~Wins(request, c)
  BY ChangeEffect
<1>2. \/ Suppressed(request, c)
      \/ /\ c.key \in DOMAIN units /\ ~ApplyRemote(units[c.key], c)
         /\ IsRetirement(c) => c.key \in retired
  BY <1>1 DEF Wins
<1>3. Retiring(request) \subseteq retired' /\ retired \subseteq retired'
  BY ChangeEffect, KeptUnits
<1>4. QED
  BY <1>2, <1>3 DEF Suppressed, ApplyRemote

(* Maintenance drops journal rows up to the new floor, and no others.      *)
LEMMA MaintainMirrors ==
  ASSUME TypeOK, JournalMirrorsLibrary, NEW holding, Maintain(holding)
  PROVE  JournalMirrorsLibrary'
<1>1. /\ journal' = [k \in {x \in DOMAIN journal : journal[x].seq > NewFloor} |-> journal[k]]
      /\ units' = units
      /\ head'.seq = head.seq /\ head'.min_retained_seq = NewFloor
  BY DEF Maintain, contents, TypeOK
<1>2. /\ NewFloor \in Nat /\ head.seq \in Nat /\ head.min_retained_seq \in Nat
      /\ NewFloor <= head.seq
  BY FloorFacts DEF JournalMirrorsLibrary, TypeOK
<1>3. ASSUME NEW k \in DOMAIN journal'
      PROVE  /\ k \in DOMAIN journal /\ journal'[k] = journal[k]
             /\ journal[k].seq \in NewFloor + 1 .. head.seq
  <2>1. k \in DOMAIN journal /\ journal'[k] = journal[k] /\ journal[k].seq > NewFloor
    BY <1>1
  <2>2. journal[k].seq \in head.min_retained_seq + 1 .. head.seq
    BY <2>1 DEF JournalMirrorsLibrary
  <2>3. QED
    BY <1>2, <2>1, <2>2
<1>4. QED
  BY <1>1, <1>2, <1>3 DEF JournalMirrorsLibrary

(* A restored server has no journal.                                       *)
LEMMA RotateMirrors ==
  ASSUME TypeOK, RotateRestoredEpoch
  PROVE  JournalMirrorsLibrary'
BY DEF RotateRestoredEpoch, JournalMirrorsLibrary, TypeOK

(* The steps that touch neither head, library nor journal.                 *)
QuietStep ==
    \/ \E d \in DeviceIds :
         \/ \E op \in OperationIds, r \in Requests :
              \/ \E e, sound \in BOOLEAN : RefusePush(d, op, r, e, sound)
              \/ CancelOperation(d, op, r)
         \/ \E seq \in 0 .. head.seq : Acknowledge(d, seq)
         \/ CreateStatePin(d)
         \/ \E pin \in state_pins : ReleaseStatePin(d, pin)
         \/ AddDevice(d) \/ RevokeDevice(d)
    \/ Tick

(* Refusals, cancellations, acknowledgements, pins, registrations and the  *)
(* clock leave the library, its journal and its head alone.                *)
LEMMA QuietSteps ==
  ASSUME QuietStep
  PROVE  UNCHANGED <<head, contents, journal>>
BY DEF QuietStep, RefusePush, CancelOperation, Acknowledge, CreateStatePin,
       ReleaseStatePin, AddDevice, RevokeDevice, Tick

(* Every step is a push that is accepted, maintenance, the rotation of a   *)
(* restored server, or a quiet one.                                        *)
LEMMA StepCases ==
  ASSUME Next
  PROVE  \/ \E d \in DeviceIds, op \in OperationIds, r \in Requests, e \in BOOLEAN :
              AcceptPush(d, op, r, e)
         \/ \E holding : Maintain(holding)
         \/ RotateRestoredEpoch
         \/ QuietStep
BY DEF Next, QuietStep

(* The empty store is safe.                                                *)
LEMMA InitStoreInv == Init => StoreInv
<1> SUFFICES ASSUME Init PROVE StoreInv
  OBVIOUS
<1>1. TypeOK
  BY InitTypes
<1>2. units = << >> /\ journal = << >> /\ retired = {} /\ DOMAIN units = {} /\ DOMAIN journal = {}
  BY DEF Init
<1>3. head.seq = 0 /\ head.min_retained_seq = 0
  BY DEF Init
<1>4. QED
  BY <1>1, <1>2, <1>3 DEF StoreInv, JournalMirrorsLibrary, ChildrenAreLinked,
                          RetiredAreTombstones, NothingLivesBelowTheRetired

(* Every step keeps the store safe, retires for ever, and loses a unit     *)
(* only below a parent that it retires.                                    *)
LEMMA NextStoreInv ==
  ASSUME StoreInv, [Next]_vars
  PROVE  /\ StoreInv'
         /\ retired \subseteq retired'
         /\ \A k \in DOMAIN units \ DOMAIN units' : Parents(k) \cap (retired' \ retired) # {}
<1>1. TypeOK'
  BY NextTypes DEF StoreInv
<1>2. CASE \E d \in DeviceIds, op \in OperationIds, r \in Requests, e \in BOOLEAN :
             AcceptPush(d, op, r, e)
  <2>1. PICK d \in DeviceIds, op \in OperationIds, r \in Requests, e \in BOOLEAN :
               AcceptPush(d, op, r, e)
    BY <1>2
  <2>2. r \in Request
    BY RequestsAssumption
  <2>3. QED
    BY <2>1, <2>2, AcceptPushIsSafe
<1>3. ASSUME UNCHANGED contents
      PROVE  /\ ChildrenAreLinked' /\ RetiredAreTombstones' /\ NothingLivesBelowTheRetired'
             /\ retired' = retired /\ units' = units
  BY <1>3 DEF contents, StoreInv, ChildrenAreLinked, RetiredAreTombstones,
              NothingLivesBelowTheRetired
<1>4. CASE \E holding : Maintain(holding)
  <2>1. JournalMirrorsLibrary' /\ UNCHANGED contents
    BY <1>4, MaintainMirrors DEF StoreInv, Maintain
  <2>2. QED
    BY <1>1, <1>3, <2>1 DEF StoreInv
<1>5. CASE RotateRestoredEpoch
  <2>1. JournalMirrorsLibrary' /\ UNCHANGED contents
    BY <1>5, RotateMirrors DEF StoreInv, RotateRestoredEpoch
  <2>2. QED
    BY <1>1, <1>3, <2>1 DEF StoreInv
<1>6. CASE QuietStep \/ UNCHANGED vars
  <2>1. UNCHANGED <<head, contents, journal>>
    BY <1>6, QuietSteps DEF vars
  <2>2. JournalMirrorsLibrary'
    BY <2>1 DEF StoreInv, JournalMirrorsLibrary, contents
  <2>3. QED
    BY <1>1, <1>3, <2>1, <2>2 DEF StoreInv
<1>7. QED
  BY <1>2, <1>4, <1>5, <1>6, StepCases

(* The store is safe in every state it reaches.                            *)
THEOREM StoreIsSafe == Spec => []StoreInv
<1>1. Init => StoreInv
  BY InitStoreInv
<1>2. StoreInv /\ [Next]_vars => StoreInv'
  BY NextStoreInv
<1>3. QED
  BY <1>1, <1>2, PTL DEF Spec

(* However pushes, maintenance and restorations interleave, the journal    *)
(* rows that changes() hands out are the current versions of their units,  *)
(* numbered without a clash between the floor and the head.                *)
THEOREM JournalIsAnIndex == Spec => []JournalMirrorsLibrary
<1>1. StoreInv => JournalMirrorsLibrary
  BY DEF StoreInv
<1>2. QED
  BY <1>1, StoreIsSafe, PTL

(* push never leaves or brings back content below a deleted character or   *)
(* conversation, for every request there can be.                           *)
THEOREM RetirementIsFinal == Spec => []NothingLivesBelowTheRetired
<1>1. StoreInv => NothingLivesBelowTheRetired
  BY DEF StoreInv
<1>2. QED
  BY <1>1, StoreIsSafe, PTL

(* No operation but a push that retires a parent removes a unit.           *)
THEOREM UnitsAreNotLost == Spec => UnitsLeaveOnlyBelowRetirements
<1> DEFINE Kept == /\ retired \subseteq retired'
                   /\ \A k \in DOMAIN units \ DOMAIN units' :
                        Parents(k) \cap (retired' \ retired) # {}
<1>1. StoreInv /\ [Next]_vars => [Kept]_vars
  BY NextStoreInv
<1>2. QED
  BY <1>1, StoreIsSafe, PTL DEF Spec, UnitsLeaveOnlyBelowRetirements

------------------------------------------------------------------------------
(* Cursors, answers and writers.                                           *)

(* Only maintenance and the rotation of a restored server raise the floor, *)
(* maintenance never above a cursor acknowledged within the retention, and *)
(* the rotation leaves no device active.                                   *)
LEMMA NextKeepsCursors ==
  ASSUME TypeOK, [Next]_vars, NEW d \in Active,
         devices[d].last_ack # Never, Recent(devices[d].last_ack),
         Readable(devices[d].ack), devices'[d].state = "active"
  PROVE  devices'[d].ack >= head'.min_retained_seq
<1>1. /\ d \in DeviceIds /\ devices[d].ack \in Nat
      /\ devices[d].ack >= head.min_retained_seq
      /\ head.seq \in Nat /\ head.min_retained_seq \in Nat
  BY DEF Active, TypeOK, Registration, Readable
<1>2. ASSUME head'.min_retained_seq = head.min_retained_seq, devices'[d].ack >= devices[d].ack,
             devices'[d].ack \in Nat
      PROVE  devices'[d].ack >= head'.min_retained_seq
  BY <1>1, <1>2
<1>3. ASSUME NEW holding, Maintain(holding)
      PROVE  devices'[d].ack >= head'.min_retained_seq
  <2>1. devices[d].ack \in HeldPositions
    BY DEF HeldPositions, Cursors
  <2>2. NewFloor <= devices[d].ack
    BY <1>1, <2>1, FloorFacts
  <2>3. devices'[d].ack = devices[d].ack
    BY <1>1, <1>3 DEF Maintain, Active, Registered
  <2>4. head'.min_retained_seq = NewFloor
    BY <1>3 DEF Maintain, TypeOK
  <2>5. QED
    BY <1>1, <2>2, <2>3, <2>4, FloorFacts
<1>4. CASE RotateRestoredEpoch
  <2>1. devices'[d].state # "active"
    BY <1>1, <1>4 DEF RotateRestoredEpoch
  <2>2. QED
    BY <2>1
<1>5. CASE \E x \in DeviceIds, op \in OperationIds, r \in Requests, e \in BOOLEAN :
             AcceptPush(x, op, r, e)
  <2>1. devices' = devices /\ head'.min_retained_seq = head.min_retained_seq
    BY <1>5 DEF AcceptPush, ApplyWinners, TypeOK
  <2>2. QED
    BY <1>1, <2>1
<1>6. CASE QuietStep
  <2>1. head' = head
    BY <1>6, QuietSteps
  <2>2. CASE \E x \in DeviceIds : \E seq \in 0 .. head.seq : Acknowledge(x, seq)
    <3>1. PICK x \in DeviceIds, seq \in 0 .. head.seq : Acknowledge(x, seq)
      BY <2>2
    <3>2. seq \in Nat /\ seq >= devices[x].ack
      <4>1. seq \in devices[x].ack .. head.seq /\ devices[x].ack \in Nat
        BY <3>1 DEF Acknowledge, TypeOK, Registration
      <4>2. QED
        BY <1>1, <4>1
    <3>3. devices'[d].ack = IF d = x THEN seq ELSE devices[d].ack
      BY <1>1, <3>1 DEF Acknowledge, TypeOK, Registration
    <3>4. QED
      BY <1>1, <2>1, <3>2, <3>3
  <2>3. CASE \E x \in DeviceIds : AddDevice(x) \/ RevokeDevice(x)
    <3>1. devices'[d].ack = devices[d].ack
      BY <1>1, <2>3 DEF AddDevice, RevokeDevice, TypeOK, Registration
    <3>2. QED
      BY <1>1, <2>1, <3>1
  <2>4. CASE UNCHANGED devices
    BY <1>1, <2>1, <2>4
  <2>5. QED
    BY <1>6, <2>2, <2>3, <2>4
       DEF QuietStep, RefusePush, CancelOperation, CreateStatePin, ReleaseStatePin, Tick
<1>7. CASE UNCHANGED vars
  BY <1>1, <1>7 DEF vars
<1>8. QED
  BY <1>3, <1>4, <1>5, <1>6, <1>7, StepCases

(* A device that acknowledged within the retention can read on from its    *)
(* cursor: for every number of devices, pins and rows, maintenance stops   *)
(* the floor at or below it.                                               *)
THEOREM RecentCursorsAreHeld == Spec => RecentCursorsStayReadable
<1> DEFINE Held == \A d \in Active :
                     /\ devices[d].last_ack # Never /\ Recent(devices[d].last_ack)
                     /\ Readable(devices[d].ack)
                     /\ devices'[d].state = "active"
                     => devices'[d].ack >= head'.min_retained_seq
<1>1. TypeOK /\ [Next]_vars => [Held]_vars
  BY NextKeepsCursors
<1>2. QED
  BY <1>1, TypeCorrect, PTL DEF Spec, RecentCursorsStayReadable

(* Only a push, a cancellation and maintenance touch the receipts.         *)
LEMMA NextKeepsAnswers ==
  ASSUME TypeOK, [Next]_vars, NEW id \in DOMAIN operations
  PROVE  IF id \in DOMAIN operations'
         THEN operations'[id] = operations[id]
         ELSE ~Recent(operations[id].created) \/ ~Registered(id[1])
<1>1. ASSUME NEW d \in DeviceIds, NEW op \in OperationIds, NEW receipt,
             ~Answered(d, op), SaveOperation(d, op, receipt)
      PROVE  id \in DOMAIN operations' /\ operations'[id] = operations[id]
  BY <1>1 DEF SaveOperation, Answered
<1>2. CASE \E d \in DeviceIds, op \in OperationIds, r \in Requests, e \in BOOLEAN :
             AcceptPush(d, op, r, e)
  BY <1>1, <1>2 DEF AcceptPush, CanPush
<1>3. CASE \E d \in DeviceIds, op \in OperationIds, r \in Requests, e, sound \in BOOLEAN :
             RefusePush(d, op, r, e, sound)
  BY <1>1, <1>3 DEF RefusePush, CanPush
<1>4. CASE \E d \in DeviceIds, op \in OperationIds, r \in Requests : CancelOperation(d, op, r)
  BY <1>1, <1>4 DEF CancelOperation
<1>5. ASSUME NEW holding, Maintain(holding)
      PROVE  IF id \in DOMAIN operations'
             THEN operations'[id] = operations[id]
             ELSE ~Recent(operations[id].created) \/ ~Registered(id[1])
  BY <1>5 DEF Maintain, Registered
<1>6. CASE UNCHANGED operations
  BY <1>6
<1>7. QED
  BY <1>2, <1>3, <1>4, <1>5, <1>6, StepCases
     DEF QuietStep, Acknowledge, CreateStatePin, ReleaseStatePin, AddDevice, RevokeDevice,
         RotateRestoredEpoch, Tick, vars

(* The answer of an operation is given once, whichever of a late push and  *)
(* a late cancellation comes first.                                        *)
THEOREM AnswersAreFinal == Spec => AnswersStand
<1> DEFINE Stand == \A id \in DOMAIN operations :
                      IF id \in DOMAIN operations'
                      THEN operations'[id] = operations[id]
                      ELSE ~Recent(operations[id].created) \/ ~Registered(id[1])
<1>1. TypeOK /\ [Next]_vars => [Stand]_vars
  BY NextKeepsAnswers
<1>2. QED
  BY <1>1, TypeCorrect, PTL DEF Spec, AnswersStand

(* A registration with a writer is refused a push with another one.       *)
LEMMA NextKeepsOneWriter ==
  ASSUME OneWriterPerDevice, [Next]_vars
  PROVE  OneWriterPerDevice'
<1>1. CASE \E d \in DeviceIds, op \in OperationIds, r \in Requests, e \in BOOLEAN :
             AcceptPush(d, op, r, e)
  <2>1. PICK d \in DeviceIds, op \in OperationIds, r \in Requests, e \in BOOLEAN :
               AcceptPush(d, op, r, e)
    BY <1>1
  <2>2. /\ \A w \in DOMAIN writers : writers[w] = d => w = r.writer
        /\ writers' = [w \in DOMAIN writers \cup {r.writer} |->
                         IF w \in DOMAIN writers THEN writers[w] ELSE d]
    BY <2>1 DEF AcceptPush, Refused, WriterCollision
  <2>3. QED
    BY <2>2 DEF OneWriterPerDevice
<1>2. CASE UNCHANGED writers
  BY <1>2 DEF OneWriterPerDevice
<1>3. QED
  BY <1>1, <1>2, StepCases
     DEF QuietStep, RefusePush, CancelOperation, Acknowledge, CreateStatePin, ReleaseStatePin,
         AddDevice, RevokeDevice, Tick, Maintain, RotateRestoredEpoch, vars

(* No sequence of pushes, expiries and revocations lets a registration     *)
(* publish with a second writer.                                           *)
THEOREM WritersAreExclusive == Spec => []OneWriterPerDevice
<1>1. Init => OneWriterPerDevice
  BY DEF Init, OneWriterPerDevice
<1>2. OneWriterPerDevice /\ [Next]_vars => OneWriterPerDevice'
  BY NextKeepsOneWriter
<1>3. QED
  BY <1>1, <1>2, PTL DEF Spec
=============================================================================
