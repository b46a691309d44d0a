----------------------------- MODULE SyncClient -----------------------------
(***************************************************************************)
(* Devices that keep their libraries equal to the server's: the send lane  *)
(* publishes the outbox under a durable operation log, the receive lane    *)
(* follows the journal or reads a pinned copy page by page, and the user   *)
(* edits between any two of their steps.                                   *)
(*                                                                         *)
(* A step is one operation of a device, of the server, or a request with   *)
(* its answer when nothing can tell them apart.  Requests, answers and the *)
(* process may be lost at any point: every step is taken from what is      *)
(* stored, and a step that is not taken is a loss.  Only a push is on the  *)
(* network as a message of its own, because it may arrive after its device *)
(* has given it up.  An operation that is several transactions is one step *)
(* where no other step can tell, except InterruptApply.                    *)
(***************************************************************************)
EXTENDS LwwServer, ClientStore

CONSTANTS
    Clients,      \* the registrations whose devices are modelled
    WriterOf,     \* their writers
    Commits,      \* what the application may commit: a function from keys to values
    KeyOrder,     \* the keys in the order of their text
    Generated,    \* the keys of messages that may be under generation
    PageLimit,    \* units in a page and in a push
    None,
    MaxWall, MaxLogical, MaxLost   \* bounds of the model

ASSUME ClientsAssumption == Clients \subseteq DeviceIds /\ WriterOf \in [Clients -> Writers]
ASSUME KeyOrderAssumption ==
    /\ IsFiniteSet(Keys)
    /\ KeyOrder \in [1 .. Cardinality(Keys) -> Keys]
    /\ \A k \in Keys : \E i \in DOMAIN KeyOrder : KeyOrder[i] = k
(* The unit of the library's format is no change of the application: it is   *)
(* pushed by itself when a library is switched to a level.                  *)
ASSUME CommitsAssumption == \A c \in Commits : IsTable(c, Keys \ {FormatKey}, Value)
(* What is generated are the messages of conversations: nothing else is      *)
(* left out of what is published or applied.                                *)
ASSUME GeneratedAssumption == \A k \in Generated : k[1] = "messages"
ASSUME ClientBounds == PageLimit \in Nat \ {0} /\ MaxWall \in Nat /\ MaxLogical \in Nat
                      /\ MaxLost \in Nat

VARIABLES
    store,         \* the store of every device
    publication,   \* the operation in its log that is not acknowledged yet
    in_flight,     \* pushes on their way
    cursor,        \* how far a device has received
    bootstrap,     \* the pin a device reads the library from, and how far
    page,          \* the page a device has stored and not closed yet
    lost           \* pushes lost or given up and pins never heard of so far

lanes == <<store, publication, in_flight, cursor, bootstrap, page, lost>>
systemVars == <<vars, lanes>>

LanesInit ==
    /\ store = [d \in Clients |-> EmptyStore]
    /\ publication = [d \in Clients |-> None]
    /\ in_flight = {}
    /\ cursor = [d \in Clients |-> 0]
    /\ bootstrap = [d \in Clients |-> None] /\ page = [d \in Clients |-> None]
    /\ lost = 0

SystemInit == Init /\ LanesInit

Rank(key) == CHOOSE i \in DOMAIN KeyOrder : KeyOrder[i] = key
FirstOf(n, S, rank(_)) == {x \in S : Cardinality({y \in S : rank(y) < rank(x)}) < n}
InOrder(S) == {s \in [1 .. Cardinality(S) -> S] :
                 \A i, j \in DOMAIN s : i < j => Rank(s[i]) < Rank(s[j])}

------------------------------------------------------------------------------
(* Editing.                                                                *)

Alive(units_, key) == key \in DOMAIN units_ /\ units_[key].value # Deleted

(* The application shows what is alive below living parents: it commits new *)
(* units below parents it shows or creates with them, and deletes what it   *)
(* shows.                                                                   *)
Offered(d, commit) ==
    \A k \in DOMAIN commit :
        /\ commit[k] = Deleted => Alive(store[d].units, k)
        /\ \A p \in Parents(k) :
             IF p \in DOMAIN commit THEN commit[p] # Deleted ELSE Alive(store[d].units, p)

(* lww_commit: a stamp is reserved and the changed units are stored.        *)
Edit(d, commit, wall) ==
    LET stamp == IssueStamp(wall, WriterOf[d], Seen(store[d])) IN
    /\ store[d].intents = {}
    /\ Offered(d, commit)
    /\ stamp.logical <= MaxLogical
    /\ Changed(store[d], commit) # {}
    /\ store' = [store EXCEPT ![d] = RecordChanges(@, commit, stamp)]
    /\ UNCHANGED <<vars, publication, in_flight, cursor, bootstrap, page, lost>>

(* The same up to the stamp, before the process stops or other work gets    *)
(* to the store.                                                            *)
InterruptEdit(d, commit, wall) ==
    LET stamp == IssueStamp(wall, WriterOf[d], Seen(store[d])) IN
    /\ store[d].intents = {}
    /\ Offered(d, commit)
    /\ stamp.logical <= MaxLogical
    /\ store' = [store EXCEPT ![d] = ReserveIntent(@, commit, stamp)]
    /\ UNCHANGED <<vars, publication, in_flight, cursor, bootstrap, page, lost>>

(* The commit goes on, or lww_recover_intents makes up for it.              *)
RecoverIntents(d) ==
    /\ store[d].intents # {}
    /\ store' = [store EXCEPT ![d] = ReplayIntent(@)]
    /\ UNCHANGED <<vars, publication, in_flight, cursor, bootstrap, page, lost>>

------------------------------------------------------------------------------
(* The send lane: push_through, settle, acknowledge.                       *)

Unused(d) == {op \in OperationIds : /\ ~Answered(d, op)
                                    /\ \A m \in in_flight : m.device # d \/ m.op # op}
ChangeOf(d, key) == [key |-> key, stamp |-> store[d].units[key].stamp,
                     value |-> store[d].units[key].value]

(* lww_read_outbox_generating: the first entries, without the messages that  *)
(* are being written.                                                       *)
OutboxPage(d, generating) == FirstOf(PageLimit, store[d].outbox \ generating, Rank)

(* The log of operations: prepare and finish.                               *)
Prepare(d, op, request) ==
    publication' = [publication EXCEPT ![d] = [op |-> op, request |-> request, receipt |-> "none"]]
Finish(d, outcome) == publication' = [publication EXCEPT ![d].receipt = outcome]

(* The fence lets one operation be open: the next begins with the first     *)
(* entries of the outbox, is written to the log and sent once.              *)
Publish(d, generating) ==
    LET chosen == OutboxPage(d, generating)
        op == CHOOSE o \in Unused(d) : TRUE
    IN
    /\ Registered(d)
    /\ publication[d] = None
    /\ chosen # {} /\ Unused(d) # {}
    /\ \E ordered \in InOrder(chosen) :
         LET request == [writer |-> WriterOf[d],
                         changes |-> [i \in DOMAIN ordered |-> ChangeOf(d, ordered[i])]] IN
         /\ Prepare(d, op, request)
         /\ in_flight' = in_flight \cup {[device |-> d, op |-> op, request |-> request]}
    /\ UNCHANGED <<vars, store, cursor, bootstrap, page, lost>>

(* The server takes a push; a repeated or late one is answered from its row. *)
DeliverPush(m) ==
    /\ in_flight' = in_flight \ {m}
    /\ \/ AcceptPush(m.device, m.op, m.request, FALSE)
       \/ RefusePush(m.device, m.op, m.request, FALSE, TRUE)
       \/ Answered(m.device, m.op) /\ UNCHANGED vars
    /\ UNCHANGED <<store, publication, cursor, bootstrap, page, lost>>

LosePush(m) ==
    /\ lost < MaxLost
    /\ in_flight' = in_flight \ {m} /\ lost' = lost + 1
    /\ UNCHANGED <<vars, store, publication, cursor, bootstrap, page>>

Open(d) == publication[d] # None /\ publication[d].receipt = "none"

(* The answer of the push, or of the query that settles it.                 *)
LearnOutcome(d) ==
    /\ Open(d)
    /\ Answered(d, publication[d].op)
    /\ Finish(d, operations[d, publication[d].op].outcome)
    /\ UNCHANGED <<vars, store, in_flight, cursor, bootstrap, page, lost>>

(* settle: the server knows nothing of the operation, so it is cancelled    *)
(* there; the answer to that may be lost.                                   *)
CancelPublication(d, answered) ==
    /\ Open(d)
    /\ CancelOperation(d, publication[d].op, publication[d].request)
    /\ IF \E m \in in_flight : m.device = d /\ m.op = publication[d].op
       THEN lost < MaxLost /\ lost' = lost + 1
       ELSE UNCHANGED lost
    /\ IF answered THEN Finish(d, "cancelled") ELSE UNCHANGED publication
    /\ UNCHANGED <<store, in_flight, cursor, bootstrap, page>>

AcknowledgeAccepted(d, logged) ==             \* mutant: a cancelled one stays open
    LET changes == ChangesOf(publication[d].request) IN
    /\ publication[d] # None /\ publication[d].receipt = "accepted"
    /\ store' = [store EXCEPT ![d] = Observe(AckOutbox(@, changes), {c.stamp : c \in changes})]
    /\ publication' = IF logged THEN [publication EXCEPT ![d] = None] ELSE publication
    /\ UNCHANGED <<vars, in_flight, cursor, bootstrap, page, lost>>

(* acknowledge: what was accepted leaves the outbox and its stamps are      *)
(* observed; the log may miss it and have it done again.                    *)
AcknowledgePublication(d, logged) ==
    LET changes == ChangesOf(publication[d].request) IN
    /\ publication[d] # None /\ publication[d].receipt # "none"
    /\ store' = IF publication[d].receipt = "accepted"
                THEN [store EXCEPT ![d] = Observe(AckOutbox(@, changes), {c.stamp : c \in changes})]
                ELSE store
    /\ publication' = IF logged THEN [publication EXCEPT ![d] = None] ELSE publication
    /\ UNCHANGED <<vars, in_flight, cursor, bootstrap, page, lost>>

(* retry_unpublished, once nothing is open and the clock is right again: the *)
(* user asks for it, or an entry is further ahead than the server admits.   *)
RetryUnpublished(d, corrected) ==
    LET upper == corrected + MAX_CLOCK_SKEW
        stamp == NewStamp(store[d], corrected, WriterOf[d])
    IN
    /\ Registered(d)
    /\ publication[d] = None /\ store[d].intents = {}
    /\ corrected <= now + MAX_CLOCK_SKEW /\ now <= upper
    /\ \A s \in {store[d].accepted} \ {NoStamp} : s.physical <= upper
    /\ stamp.logical <= MaxLogical
    /\ store' = [store EXCEPT ![d] = StampAnew(@, upper, stamp)]
    /\ UNCHANGED <<vars, publication, in_flight, cursor, bootstrap, page, lost>>

------------------------------------------------------------------------------
(* The receive lane: receive_page, lww_stage_receive, lww_apply_receive,   *)
(* lww_finish_receive, finish_receive.                                     *)

Idle(d) == Registered(d) /\ page[d] = None

StorePage(d, rows, next, last, after) ==
    page' = [page EXCEPT ![d] = [changes |-> rows, cursor |-> next, last |-> last,
                                 after |-> after, status |-> "stored"]]

HeadAfter(rows, keys) == head.seq             \* mutant: the rest of the rows is skipped
PastTheRows(rows, keys) ==                    \* mutant: one past the last row
    Max({rows[k].seq : k \in keys} \cup {head.seq}) + 1

(* Where a page of the journal ends: at its last row, the last page at the  *)
(* head, which may be past the rows.                                        *)
NextAfter(rows, keys) ==
    IF keys = DOMAIN rows THEN head.seq ELSE Max({rows[k].seq : k \in keys})

(* A page of the journal.  A poll that finds nothing new is left out.       *)
ReadChanges(d) ==
    LET rows == ChangesAfter(cursor[d])
        keys == FirstOf(PageLimit, DOMAIN rows, LAMBDA k : rows[k].seq)
    IN
    /\ Idle(d) /\ bootstrap[d] = None
    /\ Readable(cursor[d]) /\ cursor[d] < head.seq
    /\ StorePage(d, {[key |-> k, stamp |-> rows[k].stamp, value |-> rows[k].value] : k \in keys},
                 NextAfter(rows, keys), FALSE, 0)
    /\ UNCHANGED <<vars, store, publication, in_flight, cursor, bootstrap, lost>>

(* journal-floor: the device pins the library, unless the answer is lost.   *)
BeginStateRead(d, answered) ==
    /\ Idle(d) /\ bootstrap[d] = None
    /\ ~Readable(cursor[d])
    /\ CreateStatePin(d)
    /\ IF answered
       THEN /\ bootstrap' = [bootstrap EXCEPT ![d] = [pin |-> next_pin,
                                                      start_seq |-> head.seq, after |-> 0]]
            /\ UNCHANGED lost
       ELSE lost < MaxLost /\ lost' = lost + 1 /\ UNCHANGED bootstrap
    /\ UNCHANGED <<store, publication, in_flight, cursor, page>>

Pinned(d) == {p \in state_pins : p.device = d /\ p.id = bootstrap[d].pin /\ Unexpired(p)}

ReadStatePage(d) ==
    /\ Idle(d) /\ bootstrap[d] # None
    /\ \E pin \in Pinned(d) :
         LET left == {k \in DOMAIN pin.units : Rank(k) > bootstrap[d].after}
             keys == FirstOf(PageLimit, left, Rank)
         IN StorePage(d, {[key |-> k, stamp |-> pin.units[k].stamp,
                           value |-> pin.units[k].value] : k \in keys},
                      IF keys = left THEN pin.start_seq ELSE cursor[d], keys = left,
                      Max({Rank(k) : k \in keys} \cup {0}))
    /\ UNCHANGED <<vars, store, publication, in_flight, cursor, bootstrap, lost>>

(* state-pin-expired: the read begins again.                                *)
ForgetExpiredPin(d) ==
    /\ Idle(d) /\ bootstrap[d] # None
    /\ Pinned(d) = {}
    /\ bootstrap' = [bootstrap EXCEPT ![d] = None]
    /\ UNCHANGED <<vars, store, publication, in_flight, cursor, page, lost>>

(* The staged rows are applied together with those that are held; a page    *)
(* whose rows are done already is not looked at again.                      *)
Arrived(d) == IF page[d].status = "stored" THEN Staged(page[d].changes) ELSE {}

ApplyPage(d, generating) ==
    LET applied == ApplyRows(store[d], Arrived(d) \cup Held(store[d]), generating) IN
    /\ page[d] # None /\ page[d].status \in {"stored", "interrupted"}
    /\ store' = [store EXCEPT ![d] = Observe(applied, {c.stamp : c \in page[d].changes})]
    /\ page' = [page EXCEPT ![d].status = "applied"]
    /\ UNCHANGED <<vars, publication, in_flight, cursor, bootstrap, lost>>

(* The library's transaction is committed and the device's, which records   *)
(* the stamps and that the page is applied, is not: the process stops or    *)
(* the second transaction fails.                                            *)
InterruptApply(d, generating) ==
    /\ page[d] # None /\ page[d].status = "stored"
    /\ store' = [store EXCEPT ![d] = ApplyRows(@, Arrived(d) \cup Held(@), generating)]
    /\ page' = [page EXCEPT ![d].status = "interrupted"]
    /\ UNCHANGED <<vars, publication, in_flight, cursor, bootstrap, lost>>

FinishPage(d) ==
    /\ page[d] # None /\ page[d].status = "applied"
    /\ cursor' = [cursor EXCEPT ![d] = Max({@, page[d].cursor})]
    /\ page' = [page EXCEPT ![d].status = "finished"]
    /\ UNCHANGED <<vars, store, publication, in_flight, bootstrap, lost>>

(* The cursor is acknowledged; the page of the journal is closed, that of a *)
(* pin moves the read on, and the last one still has a pin to release.      *)
AcknowledgePage(d) ==
    /\ page[d] # None /\ page[d].status = "finished"
    /\ Acknowledge(d, page[d].cursor)
    /\ page' = [page EXCEPT ![d] = IF page[d].last THEN [@ EXCEPT !.status = "acknowledged"]
                                   ELSE None]
    /\ bootstrap' = IF bootstrap[d] = None THEN bootstrap
                    ELSE [bootstrap EXCEPT ![d].after = page[d].after]
    /\ UNCHANGED <<store, publication, in_flight, cursor, lost>>

CloseStateRead(d) ==
    /\ page[d] # None /\ page[d].status = "acknowledged"
    /\ \/ \E pin \in state_pins : pin.id = bootstrap[d].pin /\ ReleaseStatePin(d, pin)
       \/ (\A pin \in state_pins : pin.id # bootstrap[d].pin) /\ UNCHANGED vars
    /\ page' = [page EXCEPT ![d] = None] /\ bootstrap' = [bootstrap EXCEPT ![d] = None]
    /\ UNCHANGED <<store, publication, in_flight, cursor, lost>>

(* lww_drain_deferred, after a message has been generated.                  *)
Drain(d, generating) ==
    /\ store[d].rows # {}
    /\ store' = [store EXCEPT ![d] = ApplyRows(@, @.rows, generating)]
    /\ UNCHANGED <<vars, publication, in_flight, cursor, bootstrap, page, lost>>

------------------------------------------------------------------------------
(* Devices that are not modelled push what they like.                      *)
PushElsewhere(d, op, request) ==
    /\ AcceptPush(d, op, request, FALSE)
    /\ UNCHANGED lanes

ServerStep ==
    /\ \/ \E d \in DeviceIds : AddDevice(d)
       \/ \E holding \in SUBSET {d \in DeviceIds : devices[d].state = "revoked"} : Maintain(holding)
       \/ Tick
    /\ UNCHANGED lanes

SendStep(d) ==
    \/ \E generating \in SUBSET Generated : Publish(d, generating)
    \/ LearnOutcome(d)
    \/ \E b \in BOOLEAN : CancelPublication(d, b) \/ AcknowledgePublication(d, b)

ReceiveStep(d) ==
    \/ ReadChanges(d)
    \/ \E b \in BOOLEAN : BeginStateRead(d, b)
    \/ ReadStatePage(d) \/ ForgetExpiredPin(d)
    \/ \E generating \in SUBSET Generated : ApplyPage(d, generating) \/ Drain(d, generating)
    \/ FinishPage(d) \/ AcknowledgePage(d) \/ CloseStateRead(d)

SystemNext ==
    \/ \E d \in Clients :
         \/ \E commit \in Commits, wall \in 0 .. MaxWall : Edit(d, commit, wall)
         \/ \E corrected \in 0 .. MaxWall : RetryUnpublished(d, corrected)
         \/ SendStep(d) \/ ReceiveStep(d)
    \/ \E m \in in_flight : DeliverPush(m) \/ LosePush(m)
    \/ \E d \in DeviceIds \ Clients, op \in OperationIds, r \in Requests : PushElsewhere(d, op, r)
    \/ ServerStep

SystemSpec == SystemInit /\ [][SystemNext]_systemVars

(* The same, where a commit or an application of a page may stop half way.  *)
InterruptedNext ==
    \/ SystemNext
    \/ \E d \in Clients, commit \in Commits, wall \in 0 .. MaxWall : InterruptEdit(d, commit, wall)
    \/ \E d \in Clients : RecoverIntents(d)
    \/ \E d \in Clients, generating \in SUBSET Generated : InterruptApply(d, generating)

InterruptedSpec == SystemInit /\ [][InterruptedNext]_systemVars

(* While the applications run and reach the server the scheduler repeats    *)
(* their lanes until none has anything to do, and a request arrives or is   *)
(* lost: as long as one of these steps can be taken, one will be.           *)
LaneStep ==
    \/ \E d \in Clients : SendStep(d) \/ ReceiveStep(d)
    \/ \E m \in in_flight : DeliverPush(m) \/ LosePush(m)

------------------------------------------------------------------------------
(* Properties.                                                             *)

SystemTypeOK ==
    /\ TypeOK
    /\ \A d \in Clients :
         /\ IsTable(store[d].units, Keys, Version)
         /\ store[d].retired \subseteq Keys /\ store[d].outbox \subseteq DOMAIN store[d].units
         /\ store[d].rows \subseteq Row
         /\ {store[d].issued, store[d].accepted} \subseteq Stamp \cup {NoStamp}
         /\ cursor[d] \in 0 .. head.seq

(* What a device can show: nothing retired, and nothing below the retired.  *)
Shown(units_, retired_) ==
    [k \in {x \in DOMAIN units_ : ({x} \cup Parents(x)) \cap retired_ = {}} |-> units_[k]]

UpToDate(d) ==
    /\ cursor[d] = head.seq /\ Readable(cursor[d])
    /\ page[d] = None /\ bootstrap[d] = None
    /\ \A r \in store[d].rows : r.status = "held"
    /\ store[d].outbox = {}

(* A device that has read to the head and published all it had shows the   *)
(* library, whatever was edited, held, deferred, lost, expired or sent     *)
(* twice on the way.  Units whose parents nobody has wait with the device.  *)
UpToDateDevicesShowTheLibrary ==
    \A d \in Clients : UpToDate(d) =>
        LET shown == Shown(store[d].units, store[d].retired)
            library == Shown(units, retired)
            waiting == {r.key : r \in store[d].rows}
        IN /\ DOMAIN shown \subseteq DOMAIN library
           /\ DOMAIN library \subseteq DOMAIN shown \cup waiting
           /\ \A k \in DOMAIN shown : shown[k] = library[k]
           /\ \A k \in waiting : ~(Parents(k) \subseteq DOMAIN units)

(* What a device has changed is still to be published, or the library has   *)
(* it, a later version or the deletion of what it belonged to: a lost       *)
(* answer, a cancellation or an edit while its predecessor is published     *)
(* does not drop it.                                                       *)
NoChangeIsForgotten ==
    \A d \in Clients : \A k \in DOMAIN store[d].units \ store[d].outbox :
        \/ k \in retired \/ Parents(k) \cap retired # {}
        \/ k \in DOMAIN units /\ ~StampLess(units[k].stamp, store[d].units[k].stamp)

(* Nothing before the cursor is missing: a version the library has and      *)
(* that no journal row after the cursor carries is with the device, or      *)
(* waits in a row, or was replaced or deleted there by a later change.      *)
NothingBeforeTheCursorIsMissing ==
    \A d \in Clients : Readable(cursor[d]) =>
        \A k \in DOMAIN units \ DOMAIN ChangesAfter(cursor[d]) :
            \/ k \in store[d].retired \/ Parents(k) \cap store[d].retired # {}
            \/ k \in DOMAIN store[d].units /\ ~StampLess(store[d].units[k].stamp, units[k].stamp)
            \/ \E r \in store[d].rows : r.key = k /\ ~StampLess(r.stamp, units[k].stamp)

(* Lanes that keep running end: whatever was lost, refused by the journal   *)
(* or edited meanwhile, when the edits stop every device gets to have read  *)
(* and published all, and stays there.                                      *)
DevicesCatchUp == <>[](\A d \in Clients : UpToDate(d))

(* A device that gave an operation up, or was refused, is right: the server *)
(* has not accepted it and never will.                                     *)
GivenUpMeansUnpublished ==
    \A d \in Clients :
      publication[d] # None /\ publication[d].receipt \in {"rejected", "cancelled"} =>
        (Answered(d, publication[d].op) => operations[d, publication[d].op].outcome # "accepted")

(* What a device has to publish is not older than what the library already  *)
(* has from it, so its own earlier edit never wins over a later one:        *)
(* issue_stamp(wall, writer, last, observed) of stamp.rs issues above what  *)
(* the writer issued last.                                                  *)
OwnVersionsAdvance ==
    \A d \in Clients : \A k \in store[d].outbox \cap DOMAIN units :
        units[k].stamp.writer = WriterOf[d] => ~StampLess(store[d].units[k].stamp, units[k].stamp)

(* An edit is later than what it replaces: only the deletion of a record    *)
(* takes a version of a device back in time.                               *)
VersionsOnlyAdvance ==
    [][\A d \in Clients : \A k \in DOMAIN store[d].units \cap DOMAIN store'[d].units :
         \/ ~StampLess(store'[d].units[k].stamp, store[d].units[k].stamp)
         \/ store'[d].units[k].value = Deleted]_systemVars
=============================================================================
