------------------------------ MODULE LwwServer ------------------------------
(***************************************************************************)
(* The metadata store of the RisuNest sync server: the library of units,   *)
(* the journal devices follow it by, the receipts of their operations, the *)
(* registered devices with their acknowledged cursors, the pins a full     *)
(* read holds, and the maintenance that forgets what nobody needs.         *)
(*                                                                         *)
(* Every operation is one SQLite transaction under the writer's lock, so   *)
(* it is one action here.  Operations that answer with an error and write  *)
(* nothing, and reads, leave the state alone and are not actions: reads    *)
(* are the operators at the end of the module.  Nothing is lost by a       *)
(* crash: all of this state is in the database.                            *)
(***************************************************************************)
EXTENDS SyncUnits, FiniteSetsExt

CONSTANTS
    DeviceIds,   \* the random identities of registrations, never used twice
    OperationIds,
    Requests,    \* the bodies devices push: [writer, changes]
    Never,       \* the last acknowledgement of a device that made none
    MAX_CLOCK_SKEW, RETENTION, PIN_LIFETIME,   \* on the scale of now
    PINS_KEPT,   \* pins of a device that a new one leaves in place
    MaxTime, MaxPins, MaxEpoch                 \* bounds of the model

(* The body of a push.  The stamps name the writers that issued them, which *)
(* need not be the writer that publishes.                                   *)
Request == [writer : Writers, changes : Seq(Change)]

ASSUME RequestsAssumption == Requests \subseteq Request
ASSUME ClockAssumption    == MAX_CLOCK_SKEW \in Nat /\ RETENTION \in Nat /\ PIN_LIFETIME \in Nat
ASSUME BoundsAssumption   == PINS_KEPT \in Nat /\ MaxTime \in Nat /\ MaxPins \in Nat /\ MaxEpoch \in Nat
ASSUME NeverAssumption    == Never \notin Nat

VARIABLES
    now,              \* the server's clock
    head,             \* [epoch, seq, min_retained_seq] of the library
    units,            \* the current version of every unit that is stored
    retired,          \* the existence units that are retired
    unit_parents,     \* <<parent, child>> for every child ever stored
    journal,          \* the last change of a unit, at its sequence number
    operations,       \* the answer to every <<device, operation>> that has one
    writers,          \* the device every known writer publishes from
    writer_versions,  \* the value seen with every <<key, stamp>>
    devices,          \* [state, ack, last_ack] of every registration
    state_pins,       \* the copies of the library that full reads hold
    next_pin          \* the rowid of the next pin

contents == <<units, retired, unit_parents>>
vars == <<now, head, contents, journal, operations, writers, writer_versions,
          devices, state_pins, next_pin>>

Digest == Request   \* the digest of a body is the body
Receipt == [outcome : {"accepted", "rejected", "cancelled"}, digest : Digest,
            seq : Nat, accepted_keys : SUBSET Keys, created : Nat]
JournalRow == [seq : Nat \ {0}, key : Keys, stamp : Stamp, value : Value, created : Nat]
Registration == [state : {"unused", "active", "revoked", "purged"},
                 ack : Nat, last_ack : Nat \cup {Never}]

(* A table is a function from the primary keys that have a row to the rows. *)
IsTable(table, K, Row) == DOMAIN table \subseteq K /\ table \in [DOMAIN table -> Row]
Links == UNION {Parents(key) \X {key} : key \in Keys}

Init ==
    /\ now = 0
    /\ head = [epoch |-> 0, seq |-> 0, min_retained_seq |-> 0]
    /\ units = << >> /\ retired = {} /\ unit_parents = {}
    /\ journal = << >> /\ operations = << >>
    /\ writers = << >> /\ writer_versions = << >>
    /\ devices = [d \in DeviceIds |-> [state |-> "unused", ack |-> 0, last_ack |-> Never]]
    /\ state_pins = {} /\ next_pin = 1

Registered(d) == devices[d].state = "active"
Active == {d \in DeviceIds : Registered(d)}

Accepted(d, op) ==                            \* mutant: a refusal may be tried again
    <<d, op>> \in DOMAIN operations /\ operations[d, op].outcome = "accepted"
Answered(d, op) == <<d, op>> \in DOMAIN operations

Level == IF FormatKey \in DOMAIN units THEN units[FormatKey].value ELSE 1

------------------------------------------------------------------------------
(* Publication: push.                                                      *)

ChangesOf(request) == {request.changes[i] : i \in DOMAIN request.changes}
Retiring(request) == {c.key : c \in {x \in ChangesOf(request) : IsRetirement(x)}}

(* PushRequest::validate: some change, and no key twice.                   *)
WellFormed(request) ==
    /\ request.changes # << >>
    /\ \A i, j \in DOMAIN request.changes :
         request.changes[i].key = request.changes[j].key => i = j

(* Another version with the stamp of this change is on record.             *)
Collides(change) ==
    \/ /\ <<change.key, change.stamp>> \in DOMAIN writer_versions
       /\ writer_versions[change.key, change.stamp].identity # change.value
    \/ /\ change.key \in DOMAIN units /\ change.key # FormatKey
       /\ EqualStampConflict(units[change.key], change)

RefusedChange(change) ==
    \/ change.stamp.physical > now + MAX_CLOCK_SKEW          \* clock-skew
    \/ Collides(change)                                      \* equal-stamp-integrity
    \/ change.key = FormatKey /\ (change.value \notin Levels \/ change.value < Level)
                                                             \* library-format-downgrade
    \/ Level = 1 /\ NeedsLevelTwo(change)                    \* library-format-switch-required

(* A device publishes with one writer, and a writer from one device.       *)
WriterCollision(d, request) ==
    \/ \E w \in DOMAIN writers : writers[w] = d /\ w # request.writer
    \/ request.writer \in DOMAIN writers /\ writers[request.writer] # d

(* The refusals that are kept as the operation's answer.                   *)
Refused(d, request, empty_only) ==
    \/ ~WellFormed(request)
    \/ empty_only /\ \/ \E c \in ChangesOf(request) : c.key # FormatKey
                     \/ DOMAIN units \ {FormatKey} # {}      \* library-not-empty
    \/ WriterCollision(d, request)                           \* writer-collision
    \/ \E c \in ChangesOf(request) : RefusedChange(c)

SuppressedByTheStored(request, change) ==     \* mutant: this push's retirements not seen
    /\ ~IsRetirement(change)
    /\ \/ change.key \in retired
       \/ Parents(change.key) \cap retired # {}

SuppressedByParents(request, change) ==       \* mutant: a retired key comes back
    /\ ~IsRetirement(change)
    /\ Parents(change.key) \cap (retired \cup Retiring(request)) # {}

Suppressed(request, change) ==
    /\ ~IsRetirement(change)
    /\ \/ change.key \in retired
       \/ Parents(change.key) \cap (retired \cup Retiring(request)) # {}

Wins(request, change) ==
    IF change.key = FormatKey
    THEN change.value > Level
    ELSE /\ ~Suppressed(request, change)
         /\ \/ change.key \notin DOMAIN units
            \/ ApplyRemote(units[change.key], change)
            \/ IsRetirement(change) /\ change.key \notin retired

Winners(request) == {i \in DOMAIN request.changes : Wins(request, request.changes[i])}
WonKeys(request) == {request.changes[i].key : i \in Winners(request)}
WinnerOf(request, key) == CHOOSE i \in Winners(request) : request.changes[i].key = key

SeqOfPosition(request, key) ==                \* mutant: losers are counted
    head.seq + WinnerOf(request, key)
SeqFromHead(request, key) ==                  \* mutant: the first gets the head's number
    head.seq + Cardinality({i \in Winners(request) : i < WinnerOf(request, key)})

(* Winners are numbered in the order of the request.                       *)
SeqOf(request, key) ==
    head.seq + Cardinality({i \in Winners(request) : i <= WinnerOf(request, key)})

(* The descendants a retirement takes with it: retirements below it stay.  *)
RetiredBy(request) == WonKeys(request) \cap Retiring(request)

OrphansOfAnyWinner(request) ==                \* mutant: an update takes the children too
    {child \in Keys \ retired : \E p \in WonKeys(request) : <<p, child>> \in unit_parents}
Orphans(request) ==
    {child \in Keys \ retired : \E p \in RetiredBy(request) : <<p, child>> \in unit_parents}

ApplyWinners(request) ==
    LET won == WonKeys(request)
        orphans == Orphans(request)
        change(key) == request.changes[WinnerOf(request, key)]
    IN
    /\ units' = [key \in (DOMAIN units \ orphans) \cup won |->
                    IF key \in won THEN VersionOf(change(key)) ELSE units[key]]
    /\ retired' = retired \cup RetiredBy(request)
    /\ unit_parents' = unit_parents \cup UNION {Parents(key) \X {key} : key \in won}
    /\ journal' = [key \in (DOMAIN journal \ orphans) \cup won |->
                    IF key \in won
                    THEN [seq |-> SeqOf(request, key), key |-> key, stamp |-> change(key).stamp,
                          value |-> change(key).value, created |-> now]
                    ELSE journal[key]]
    /\ head' = [head EXCEPT !.seq = @ + Cardinality(Winners(request))]

(* Every change of an accepted request is on record, winner or not.        *)
RecordVersions(request) ==
    writer_versions' =
        [id \in DOMAIN writer_versions \cup {<<c.key, c.stamp>> : c \in ChangesOf(request)} |->
            IF id \in DOMAIN writer_versions
            THEN writer_versions[id]
            ELSE [identity |-> (CHOOSE c \in ChangesOf(request) : <<c.key, c.stamp>> = id).value,
                  created |-> now]]

SaveOperation(d, op, receipt) ==
    operations' = [id \in DOMAIN operations \cup {<<d, op>>} |->
                    IF id = <<d, op>> THEN receipt ELSE operations[id]]

(* A request that is looked at: its device is registered, its operation has *)
(* no answer yet (a repeated one is answered from its row), and it names no *)
(* level this server does not know.                                         *)
CanPush(d, op, request) ==
    /\ Registered(d)
    /\ ~Answered(d, op)
    /\ \A c \in ChangesOf(request) :
         c.key = FormatKey /\ c.value \in Nat => c.value <= LIBRARY_FORMAT_MAX_LEVEL

AcceptPush(d, op, request, empty_only) ==
    /\ CanPush(d, op, request)
    /\ ~Refused(d, request, empty_only)
    /\ ApplyWinners(request)
    /\ RecordVersions(request)
    /\ writers' = [w \in DOMAIN writers \cup {request.writer} |->
                    IF w \in DOMAIN writers THEN writers[w] ELSE d]
    /\ SaveOperation(d, op, [outcome |-> "accepted", digest |-> request,
                             seq |-> head.seq + Cardinality(Winners(request)),
                             accepted_keys |-> WonKeys(request), created |-> now])
    /\ UNCHANGED <<now, devices, state_pins, next_pin>>

(* A refusal is kept.  Besides the state's refusals, a request may carry a  *)
(* descriptor or an inlined value the object store does not accept: sound   *)
(* is what prepare_descriptors and alias_object find.                       *)
RefusePush(d, op, request, empty_only, sound) ==
    /\ CanPush(d, op, request)
    /\ Refused(d, request, empty_only) \/ ~sound
    /\ SaveOperation(d, op, [outcome |-> "rejected", digest |-> request, seq |-> 0,
                             accepted_keys |-> {}, created |-> now])
    /\ UNCHANGED <<now, head, contents, journal, writers, writer_versions,
                   devices, state_pins, next_pin>>

(* cancel_operation: an operation without an answer gets one for ever.      *)
CancelOperation(d, op, digest) ==
    /\ Registered(d)
    /\ ~Answered(d, op)
    /\ SaveOperation(d, op, [outcome |-> "cancelled", digest |-> digest, seq |-> 0,
                             accepted_keys |-> {}, created |-> now])
    /\ UNCHANGED <<now, head, contents, journal, writers, writer_versions,
                   devices, state_pins, next_pin>>

------------------------------------------------------------------------------
(* Reading positions: acknowledge, create_state_pin, release_state_pin.    *)

Acknowledge(d, seq) ==
    /\ Registered(d)
    /\ seq \in devices[d].ack .. head.seq
    /\ devices' = [devices EXCEPT ![d].ack = seq, ![d].last_ack = now]
    /\ UNCHANGED <<now, head, contents, journal, operations, writers, writer_versions,
                   state_pins, next_pin>>

Unexpired(pin) == pin.expires > now
NewestPins(S) == {p \in S : Cardinality({q \in S : q.id > p.id}) < PINS_KEPT}

CreateStatePin(d) ==
    LET own == {p \in state_pins : p.device = d /\ Unexpired(p)} IN
    /\ Registered(d)
    /\ next_pin <= MaxPins
    /\ state_pins' = (state_pins \ (own \ NewestPins(own))) \cup
          {[id |-> next_pin, device |-> d, start_seq |-> head.seq,
            expires |-> now + PIN_LIFETIME, units |-> units]}
    /\ next_pin' = next_pin + 1
    /\ UNCHANGED <<now, head, contents, journal, operations, writers, writer_versions, devices>>

ReleaseStatePin(d, pin) ==
    /\ Registered(d)
    /\ pin \in state_pins /\ pin.device = d
    /\ state_pins' = state_pins \ {pin}
    /\ UNCHANGED <<now, head, contents, journal, operations, writers, writer_versions,
                   devices, next_pin>>

------------------------------------------------------------------------------
(* Registrations: add_named_device, revoke_device.                         *)

AddDevice(d) ==
    /\ devices[d].state = "unused"
    /\ devices' = [devices EXCEPT ![d].state = "active"]
    /\ UNCHANGED <<now, head, contents, journal, operations, writers, writer_versions,
                   state_pins, next_pin>>

RevokeDevice(d) ==
    /\ Registered(d)
    /\ devices' = [devices EXCEPT ![d].state = "revoked"]
    /\ UNCHANGED <<now, head, contents, journal, operations, writers, writer_versions,
                   state_pins, next_pin>>

------------------------------------------------------------------------------
(* Maintenance and restoration.                                            *)

Recent(time) == time > now - RETENTION
RemainingPins == {p \in state_pins : Unexpired(p) /\ Registered(p.device)}

(* The positions that hold the floor down: cursors acknowledged within the  *)
(* retention, the pins that remain, and the tail of recent changes.         *)
Cursors == {devices[d].ack : d \in {x \in Active : devices[x].last_ack # Never /\ Recent(devices[x].last_ack)}}
HeldByPins ==                                 \* mutant: cursors are forgotten
    {p.start_seq : p \in RemainingPins}
    \cup {journal[k].seq - 1 : k \in {x \in DOMAIN journal : Recent(journal[x].created)}}
HeldPositions ==
    Cursors \cup {p.start_seq : p \in RemainingPins}
            \cup {journal[k].seq - 1 : k \in {x \in DOMAIN journal : Recent(journal[x].created)}}

NewFloor ==
    LET lowest == Min(HeldPositions \cup {head.seq})
    IN IF lowest > head.min_retained_seq THEN lowest ELSE head.min_retained_seq

Current(key, stamp) == key \in DOMAIN units /\ units[key].stamp = stamp

(* maintain; holding are the revoked devices that leases, custody or        *)
(* transfers keep on the books.                                             *)
Maintain(holding) ==
    /\ state_pins' = RemainingPins
    /\ devices' = [d \in DeviceIds |->
          IF devices[d].state = "revoked" /\ d \notin holding
          THEN [devices[d] EXCEPT !.state = "purged"] ELSE devices[d]]
    /\ head' = [head EXCEPT !.min_retained_seq = NewFloor]
    /\ journal' = [k \in {x \in DOMAIN journal : journal[x].seq > NewFloor} |-> journal[k]]
    /\ operations' = [id \in {x \in DOMAIN operations :
                                devices[x[1]].state # "revoked" /\ Recent(operations[x].created)}
                        |-> operations[id]]
    /\ writer_versions' = [id \in {x \in DOMAIN writer_versions :
                                Recent(writer_versions[x].created) \/ Current(x[1], x[2])}
                        |-> writer_versions[id]]
    /\ UNCHANGED <<now, contents, writers, next_pin>>

RotateKeepingPins ==                          \* mutant: reads of the former epoch go on
    /\ head.epoch < MaxEpoch
    /\ head' = [epoch |-> head.epoch + 1, seq |-> head.seq, min_retained_seq |-> head.seq]
    /\ journal' = << >> /\ UNCHANGED state_pins
    /\ devices' = [d \in DeviceIds |->
          IF devices[d].state \in {"active", "revoked"}
          THEN [state |-> "revoked", ack |-> 0, last_ack |-> Never] ELSE devices[d]]
    /\ UNCHANGED <<now, contents, operations, writers, writer_versions, next_pin>>

(* rotate_restored_epoch, run once on a restored copy of the directory: a   *)
(* copy of any state is a state, so the restored server is this action's.   *)
RotateRestoredEpoch ==
    /\ head.epoch < MaxEpoch
    /\ head' = [epoch |-> head.epoch + 1, seq |-> head.seq, min_retained_seq |-> head.seq]
    /\ journal' = << >> /\ state_pins' = {}
    /\ devices' = [d \in DeviceIds |->
          IF devices[d].state \in {"active", "revoked"}
          THEN [state |-> "revoked", ack |-> 0, last_ack |-> Never] ELSE devices[d]]
    /\ UNCHANGED <<now, contents, operations, writers, writer_versions, next_pin>>

(* The clock; transactions happen at instants of it.                        *)
Tick ==
    /\ now < MaxTime
    /\ now' = now + 1
    /\ UNCHANGED <<head, contents, journal, operations, writers, writer_versions,
                   devices, state_pins, next_pin>>

Next ==
    \/ \E d \in DeviceIds, op \in OperationIds, r \in Requests, e \in BOOLEAN :
         \/ AcceptPush(d, op, r, e)
         \/ \E sound \in BOOLEAN : RefusePush(d, op, r, e, sound)
    \/ \E d \in DeviceIds, op \in OperationIds, r \in Requests : CancelOperation(d, op, r)
    \/ \E d \in DeviceIds :
         \/ \E seq \in 0 .. head.seq : Acknowledge(d, seq)
         \/ CreateStatePin(d)
         \/ \E pin \in state_pins : ReleaseStatePin(d, pin)
         \/ AddDevice(d) \/ RevokeDevice(d)
    \/ \E holding \in SUBSET {d \in DeviceIds : devices[d].state = "revoked"} : Maintain(holding)
    \/ RotateRestoredEpoch
    \/ Tick

Spec == Init /\ [][Next]_vars

------------------------------------------------------------------------------
(* Reading: changes after a cursor.                                        *)

Readable(cursor) == cursor \in head.min_retained_seq .. head.seq
ChangesAfter(cursor) == [k \in {x \in DOMAIN journal : journal[x].seq > cursor} |-> journal[k]]

------------------------------------------------------------------------------
(* Properties.                                                             *)

(* Every table holds rows of its shape.                                    *)
TypeOK ==
    /\ now \in Nat
    /\ head \in [epoch : Nat, seq : Nat, min_retained_seq : Nat]
    /\ IsTable(units, Keys, Version)
    /\ retired \subseteq Keys
    /\ unit_parents \subseteq Links
    /\ IsTable(journal, Keys, JournalRow)
    /\ IsTable(operations, DeviceIds \X OperationIds, Receipt)
    /\ IsTable(writers, Writers, DeviceIds)
    /\ IsTable(writer_versions, Keys \X Stamp, [identity : Value, created : Nat])
    /\ devices \in [DeviceIds -> Registration]
    /\ \A p \in state_pins :
         /\ DOMAIN p = {"id", "device", "start_seq", "expires", "units"}
         /\ p.id \in Nat /\ p.device \in DeviceIds /\ p.start_seq \in Nat /\ p.expires \in Nat
         /\ IsTable(p.units, Keys, Version)
    /\ next_pin \in Nat

(* The journal is an index of the library: a row carries the version its   *)
(* unit has now, no two rows have one number, and the numbers lie above    *)
(* the floor and up to the head.  A push that replaces or orphans a unit   *)
(* and forgets its row leaves a reader with a version nobody stores.       *)
JournalMirrorsLibrary ==
    /\ head.min_retained_seq <= head.seq
    /\ \A k \in DOMAIN journal :
         /\ k \in DOMAIN units /\ units[k] = VersionOf(journal[k])
         /\ journal[k].key = k
         /\ journal[k].seq \in head.min_retained_seq + 1 .. head.seq
    /\ \A k, l \in DOMAIN journal : journal[k].seq = journal[l].seq => k = l

(* A deleted character or conversation stays deleted: its tombstone is in  *)
(* the library, and nothing but tombstones of the same kind is stored      *)
(* below it, whatever came late, early or in the same push.                *)
NothingLivesBelowTheRetired ==
    /\ \A k \in retired : k \in DOMAIN units /\ units[k].value = Deleted
    /\ \A k \in DOMAIN units :
         k \in retired \/ Parents(k) \cap retired # {} => k[1] = "exists" /\ units[k].value = Deleted

(* A device that reads a pin and then the journal from where the pin       *)
(* starts ends with the library of this moment, for every pin still held:  *)
(* the floor has not passed its start, no row it lacks is gone, and no     *)
(* row contradicts what it holds.                                          *)
PinTailReachesLibrary ==
    \A p \in state_pins :
        LET tail == ChangesAfter(p.start_seq) IN
        /\ Readable(p.start_seq)
        /\ \A k \in DOMAIN tail \cap DOMAIN p.units : ~EqualStampConflict(p.units[k], tail[k])
        /\ Applied(MergeTail(p.units, tail)) = units

(* A registration publishes with one writer.                               *)
OneWriterPerDevice ==
    \A v, w \in DOMAIN writers : writers[v] = writers[w] => v = w

(* Content that a level 1 client rejects never reaches a level 1 library,  *)
(* nor a pin such a client reads.                                          *)
LevelOneHoldsNoParts ==
    Level = 1 =>
        \A state \in {units} \cup {p.units : p \in state_pins} :
            \A k \in DOMAIN state : ~(k[1] = "plugin-local" /\ state[k].value \in PartedValues)

(* A device that acknowledged a readable cursor within the retention can   *)
(* go on reading from it, whatever is pushed, revoked or maintained.       *)
RecentCursorsStayReadable ==
    [][\A d \in Active :
         /\ devices[d].last_ack # Never /\ Recent(devices[d].last_ack)
         /\ Readable(devices[d].ack)
         /\ devices'[d].state = "active"
         => devices'[d].ack >= head'.min_retained_seq]_vars

(* An answer is given once: it is forgotten with its device or with age,   *)
(* and until then a late push or a late cancellation cannot change it.     *)
AnswersStand ==
    [][\A id \in DOMAIN operations :
         IF id \in DOMAIN operations'
         THEN operations'[id] = operations[id]
         ELSE ~Recent(operations[id].created) \/ ~Registered(id[1])]_vars

(* A retirement is never undone, and a unit leaves the library only below  *)
(* a parent retired in that step: no other operation loses a unit.         *)
UnitsLeaveOnlyBelowRetirements ==
    [][/\ retired \subseteq retired'
       /\ \A k \in DOMAIN units \ DOMAIN units' : Parents(k) \cap (retired' \ retired) # {}]_vars
==============================================================================
