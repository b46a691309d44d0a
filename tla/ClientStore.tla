---------------------------- MODULE ClientStore ----------------------------
(***************************************************************************)
(* The part of a device's persistent store that synchronisation works on:  *)
(* the units it holds, the outbox of those it still has to publish, the    *)
(* received rows that wait for their parents or for a conversation to be   *)
(* generated, the commit that has a stamp and is not stored yet, and the   *)
(* hybrid logical clock stamps come from.                                  *)
(*                                                                         *)
(* A store is a record and every operation a function from store to store. *)
(* An outbox row repeats the unit it publishes (put_unit writes both), so  *)
(* the outbox is the set of its keys.  Rows that are done are dropped.     *)
(***************************************************************************)
EXTENDS SyncUnits, FiniteSetsExt

CONSTANT NoStamp   \* nothing issued or accepted yet

ASSUME NoStampAssumption == NoStamp \notin Stamp

Row == [key : Keys, stamp : Stamp, value : Value, status : {"held", "deferred"}]
Commit == UNION {[K -> Value] : K \in SUBSET Keys}

(* An intent is fresh while the library has the revision it was made for.   *)
Intent == [commit : Commit, stamp : Stamp, fresh : BOOLEAN]
ClientStore == [units : UNION {[K -> Version] : K \in SUBSET Keys},
                retired : SUBSET Keys, outbox : SUBSET Keys, rows : SUBSET Row,
                intents : SUBSET Intent,
                issued : Stamp \cup {NoStamp}, accepted : Stamp \cup {NoStamp}]

EmptyStore == [units |-> << >>, retired |-> {}, outbox |-> {}, rows |-> {},
               intents |-> {}, issued |-> NoStamp, accepted |-> NoStamp]

------------------------------------------------------------------------------
(* The clock.                                                              *)

IssueFromWall(wall, writer, seen) ==          \* mutant: the clock may step back
    [physical |-> wall, logical |-> Cardinality({s \in seen : s.physical = wall}),
     writer |-> writer]

(* issue_stamp: above every stamp seen, whatever the wall clock says.       *)
IssueStamp(wall, writer, seen) ==
    LET physical == Max({wall} \cup {s.physical : s \in seen})
        counts == {s.logical : s \in {x \in seen : x.physical = physical}}
    IN [physical |-> physical, logical |-> IF counts = {} THEN 0 ELSE Max(counts) + 1,
        writer |-> writer]

Seen(store) == {store.issued, store.accepted} \ {NoStamp}
Greatest(stamps) == CHOOSE s \in stamps : \A t \in stamps : s = t \/ StampLess(t, s)

Observe(store, stamps) ==
    LET known == stamps \cup ({store.accepted} \ {NoStamp}) IN
    IF known = {} THEN store ELSE [store EXCEPT !.accepted = Greatest(known)]

------------------------------------------------------------------------------
(* Units.                                                                  *)

Below(parents) == {key \in Keys : Parents(key) \cap parents # {}}

ParentStatus(store, key) ==
    IF ({key} \cup Parents(key)) \cap store.retired # {} THEN "retired"
    ELSE IF Parents(key) \subseteq DOMAIN store.units THEN "ready" ELSE "held"

(* suppress_retired: the units below the retired go, with their outbox       *)
(* entries and received rows.                                               *)
SuppressRetired(store, parents) ==
    [store EXCEPT
       !.units = [k \in DOMAIN @ \ Below(parents) |-> store.units[k]],
       !.outbox = @ \ Below(parents),
       !.rows = {r \in @ : r.key \notin Below(parents)}]

(* put_unit for the versions of a function from keys to versions; to_publish *)
(* are those that enter the outbox, the others leave it.                    *)
PutUnits(store, versions, to_publish) ==
    LET retiring == {k \in DOMAIN versions : k[1] = "exists" /\ versions[k].value = Deleted}
        puts == DOMAIN versions \ Below(retiring)
        kept == SuppressRetired(store, retiring)
    IN [kept EXCEPT
          !.units = [k \in DOMAIN @ \cup puts |->
                          IF k \in puts THEN versions[k] ELSE store.units[k]],
          !.retired = @ \cup (retiring \cap puts),
          !.outbox = (@ \ DOMAIN versions) \cup (to_publish \cap puts)]

(* record_changes: the units a commit of the application really changes get *)
(* one stamp and enter the outbox; what is retired is left alone.           *)
Changed(store, commit) ==
    {k \in DOMAIN commit :
        /\ ParentStatus(store, k) # "retired"
        /\ commit[k] # IF k \in DOMAIN store.units THEN store.units[k].value ELSE Deleted}

RecordChanges(store, commit, stamp) ==
    LET changed == Changed(store, commit) IN
    PutUnits([store EXCEPT !.issued = stamp],
             [k \in changed |-> [stamp |-> stamp, value |-> commit[k]]], changed)

(* reserve_intent: the commit is written down with its stamp.               *)
ReserveIntent(store, commit, stamp) ==
    [store EXCEPT !.issued = stamp,
                  !.intents = {[commit |-> commit, stamp |-> stamp, fresh |-> TRUE]}]

ReplayAll(store) ==                           \* mutant: whatever the revision
    LET intent == CHOOSE i \in store.intents : TRUE IN
    RecordChanges([store EXCEPT !.intents = {}], intent.commit, intent.stamp)

(* recover_intent: a commit is made up for with the stamp it has, unless the *)
(* library is no longer what it was made for; then it is closed.            *)
ReplayIntent(store) ==
    LET intent == CHOOSE i \in store.intents : TRUE
        closed == [store EXCEPT !.intents = {}]
    IN IF intent.fresh THEN RecordChanges(closed, intent.commit, intent.stamp) ELSE closed

(* lww_retry_unpublished: the entries of the outbox that lie above an        *)
(* instant are stamped anew, above what was accepted but not above what the *)
(* writer issued.                                                           *)
NewStamp(store, corrected, writer) ==
    IssueStamp(corrected, writer, {store.accepted} \ {NoStamp})
StampAnew(store, upper, stamp) ==
    LET ahead == {k \in store.outbox : store.units[k].stamp.physical > upper} IN
    PutUnits([store EXCEPT !.issued = stamp],
             [k \in ahead |-> [stamp |-> stamp, value |-> store.units[k].value]], ahead)

AckKeys(store, changes) ==                    \* mutant: an entry changed since leaves too
    [store EXCEPT !.outbox = @ \ {c.key : c \in changes}]

(* lww_ack_outbox: the entries still as they were published leave.          *)
AckOutbox(store, changes) ==
    [store EXCEPT !.outbox =
        {k \in @ : ~\E c \in changes : c.key = k /\ VersionOf(c) = store.units[k]}]

------------------------------------------------------------------------------
(* Receiving.                                                              *)

(* The fate of a received row; generating are the messages being written.   *)
Fate(store, row, generating) ==
    LET status == ParentStatus(store, row.key) IN
    IF status = "held" THEN "held"
    ELSE IF status = "ready" /\ row.key \in generating THEN "deferred" ELSE "done"

(* The received version replaces the local one, if any.                     *)
Overwrites(store, row) ==
    \/ row.key \notin DOMAIN store.units
    \/ ApplyRemote(store.units[row.key], row)
    \/ IsRetirement(row) /\ store.units[row.key].value # Deleted

(* Of several received versions of one key a retirement stands, then the    *)
(* latest.                                                                  *)
Prevails(row, other) ==
    \/ IsRetirement(row) /\ ~IsRetirement(other)
    \/ IsRetirement(row) = IsRetirement(other) /\ StampLess(other.stamp, row.stamp)

(* witness_received: what turns out to be published leaves the outbox.       *)
WitnessReceived(store, rows) ==
    [store EXCEPT !.outbox =
        {k \in @ : ~\E r \in rows : r.key = k /\ VersionOf(r) = store.units[k]}]

(* Rows that change a unit, or show one that waited, give the library a new *)
(* revision.                                                                *)
Affects(store, settled) ==
    \E r \in settled : \/ Overwrites(store, r)
                       \/ r.status # "staged" /\ VersionOf(r) = store.units[r.key]
Stale(intents) == {[i EXCEPT !.fresh = FALSE] : i \in intents}

(* apply_receive_rows on rows none of which is the parent of another.       *)
ApplyLayer(store, rows, generating) ==
    LET settled == {r \in rows : /\ Fate(store, r, generating) = "done"
                                 /\ ParentStatus(store, r.key) = "retired" => IsRetirement(r)}
        winners == {r \in settled : Overwrites(store, r)}
        version(k) == VersionOf(CHOOSE r \in winners : r.key = k /\
                                    \A o \in winners : o.key = k => ~Prevails(o, r))
        put == PutUnits(store, [k \in {r.key : r \in winners} |-> version(k)], {})
        waiting == {[r EXCEPT !.status = Fate(store, r, generating)] :
                        r \in {x \in rows : Fate(store, x, generating) # "done"}}
    IN IF rows = {} THEN store
       ELSE WitnessReceived([put EXCEPT !.rows = (@ \ rows) \cup waiting,
                                        !.intents = IF Affects(store, settled)
                                                    THEN Stale(store.intents)
                                                    ELSE store.intents], settled)

Layer(key) == IF key[1] # "exists" THEN 3 ELSE IF Parents(key) = {} THEN 1 ELSE 2

ApplyLastLayerFirst(store, rows, generating) ==          \* mutant: children before parents
    LET of(i) == {r \in rows : Layer(r.key) = i} IN
    ApplyLayer(ApplyLayer(ApplyLayer(store, of(3), generating), of(2), generating),
               of(1), generating)

(* apply_receive_rows: parents before their children.                       *)
ApplyRows(store, rows, generating) ==
    LET of(i) == {r \in rows : Layer(r.key) = i} IN
    ApplyLayer(ApplyLayer(ApplyLayer(store, of(1), generating), of(2), generating),
               of(3), generating)

Held(store) == {r \in store.rows : r.status = "held"}
Staged(changes) ==
    {[key |-> c.key, stamp |-> c.stamp, value |-> c.value, status |-> "staged"] : c \in changes}
==============================================================================
