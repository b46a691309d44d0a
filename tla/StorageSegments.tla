---------------------------- MODULE StorageSegments ----------------------------
(***************************************************************************)
(* The published state of a library on an external storage that has no     *)
(* server: every device appends its changes as numbered segments, any of   *)
(* them merges segments into a checkpoint, and a clean-up deletes what no  *)
(* kept checkpoint or segment names any more.  Bodies too large for a      *)
(* segment are objects of their own; a device names one that is already    *)
(* there again instead of sending it twice, for a limited time.            *)
(*                                                                         *)
(* Shared work and clean-ups exclude each other (module StorageLeases), so *)
(* a dispatch under its lease and a clean-up are each one step here.       *)
(***************************************************************************)
EXTENDS SyncUnits

CONSTANTS
    Bodies,             \* the values whose content is an object of its own
    REUSE_LIMIT,        \* CACHE_REUSE_LIMIT_MS
    GRACE,              \* UNREACHABLE_GRACE_MS
    NoBody, NoPublication, NoProof, NoJob

CONSTANTS               \* assumptions and bounds of an instance:
    SettleLimit,        \* how long a device may take to learn that a segment landed
    Works               \* what the devices do, one of them in each behaviour: the
                        \* changes that each one writes and how many segments it
                        \* publishes, the devices that compact and clean up and
                        \* those that receive, the names of checkpoints, how many
                        \* requests and jobs fail, and how long it all may take

ASSUME LimitsAssumption ==
    /\ {REUSE_LIMIT, GRACE, SettleLimit} \subseteq Nat
    /\ Bodies \subseteq Values
    /\ \A work \in Works :
         /\ DOMAIN work = {"changes", "segments", "maintainers", "readers", "names",
                           "failures", "time"}
         /\ \A d \in Writers : work.changes[d] \subseteq Keys \X (Values \cup {Deleted})
         /\ work.segments \in [Writers -> Nat]
         /\ work.maintainers \cup work.readers \subseteq Writers
         /\ work.names \cup {work.failures, work.time} \subseteq Nat

VARIABLES
    time,         \* the trusted time, which every device has
    segments,     \* the segments in the storage
    checkpoints,  \* the checkpoints in the storage
    stored,       \* the body objects in the storage
    pending,      \* the SealedPublication of each device
    next,         \* external_lww_sequences: the sequence of its next segment
    proofs,       \* the AssetWitness of each device for each content
    received,     \* lww_progress and what the device holds of others' changes
    observed,     \* gc_store: since when each device saw an item unreachable
    job,          \* the published state a device is reading
    landed,       \* every segment that ever landed
    work          \* the work of this behaviour that is still to come

vars == <<time, segments, checkpoints, stored, pending, next, proofs, received,
          observed, job, landed, work>>

Object     == [content : Bodies, writer : Writers, seq : Nat \ {0}]
Segment    == [writer : Writers, seq : Nat \ {0}, change : Change, body : Object \cup {NoBody}]
Coverage   == [Writers -> Nat]
Checkpoint == [id : Nat, coverage : Coverage, changes : SUBSET Change,
               bodies : SUBSET Object]

------------------------------------------------------------------------------
(* The published state.                                                    *)

NoCoverage == [w \in Writers |-> 0]
Larger(m, n) == IF m < n THEN n ELSE m
Largest(numbers) == CHOOSE n \in numbers : \A other \in numbers : other <= n
Covered(coverage, s) == s.seq <= coverage[s.writer]

Newest(changes) ==
    CHOOSE c \in changes : \A other \in changes : ~StampLess(c.stamp, other.stamp)
Of(changes, key) == {c \in changes : c.key = key}

RetiredAtLast(changes) ==        \* mutant: a newer existence undoes a retirement
    LET newest == {Newest(Of(changes, key)) : key \in {c.key : c \in changes}}
        retired == {c.key : c \in {n \in newest : IsRetirement(n)}}
    IN  {c \in newest : c.key \in retired \/ Parents(c.key) \cap retired = {}}

(* PublishedCatalog::merge and visit_changes: the newest change of every   *)
(* key, a retirement before any other, and nothing below a retired key.    *)
Merged(changes) ==
    LET retirements == {c \in changes : IsRetirement(c)}
        retired == {c.key : c \in retirements}
        shown == {key \in {c.key : c \in changes} :
                    key \in retired \/ Parents(key) \cap retired = {}}
    IN  {Newest(Of(IF key \in retired THEN retirements ELSE changes, key)) : key \in shown}

covers(left, right) == \A w \in Writers : right[w] <= left[w]

Undominated(found) ==            \* mutant: equal checkpoints dominate each other
    {c \in found : \A other \in found \ {c} : ~covers(other.coverage, c.coverage)}

(* lww_checkpoint::retained: no other covers as much, or the same under a  *)
(* smaller name.                                                           *)
retained(found) ==
    {c \in found : \A other \in found \ {c} :
        \/ ~covers(other.coverage, c.coverage)
        \/ covers(c.coverage, other.coverage) /\ c.id < other.id}

(* include_prefixes over the retained checkpoints.                         *)
MergedCoverage(found) ==
    LET kept == retained(found) IN
    [w \in Writers |-> Largest({c.coverage[w] : c \in kept} \cup {0})]

(* include_segment: the segments that continue a covered prefix.           *)
Included(found, coverage) ==
    {s \in found :
        /\ ~Covered(coverage, s)
        /\ \A n \in coverage[s.writer] + 1 .. s.seq :
             \E t \in found : t.writer = s.writer /\ t.seq = n}

(* published_state: the catalog of a listing of checkpoints and a later    *)
(* one of segments, with the sources of the bodies it names.               *)
PublishedState(found, listed) ==
    LET kept == retained(found)
        coverage == MergedCoverage(found)
        included == Included(listed, coverage)
    IN  [coverage |-> [w \in Writers |->
             Largest({s.seq : s \in {t \in included : t.writer = w}} \cup {coverage[w]})],
         changes  |-> Merged((UNION {c.changes : c \in kept})
                              \cup {s.change : s \in included}),
         bodies   |-> (UNION {c.bodies : c \in kept})
                       \cup ({s.body : s \in included} \ {NoBody})]

(* The roots a clean-up keeps, and what a document names.                  *)
KeptRoots ==
    LET coverage == MergedCoverage(checkpoints)
    IN  retained(checkpoints) \cup {s \in segments : ~Covered(coverage, s)}
References(document) ==
    IF "bodies" \in DOMAIN document THEN document.bodies ELSE {document.body} \ {NoBody}

------------------------------------------------------------------------------
Publication ==
    [seq        : Nat \ {0},
     change     : Change,
     body       : Object \cup {NoBody},
     reused     : BOOLEAN,
     rooted     : Nat,                      \* of the proof it reuses
     captured   : Nat,
     dispatched : Nat \cup {-1}]            \* when last, or -1

Catalog == [coverage : Coverage, changes : SUBSET Change, bodies : SUBSET Object]
Job == [use : {"receive", "compaction"}, found : SUBSET Checkpoint,
        catalog : Catalog \cup {NoJob}]

AssetProof == [object : Object, rooted : Nat]
Items == Segment \cup Checkpoint \cup Object

ASSUME NoneAssumption ==
    /\ NoBody \notin Object
    /\ NoProof \notin AssetProof
    /\ NoPublication \notin Publication
    /\ NoJob \notin Job \cup Catalog

Init ==
    /\ time = 0
    /\ segments = {} /\ checkpoints = {} /\ stored = {} /\ landed = {}
    /\ pending = [d \in Writers |-> NoPublication]
    /\ next = [d \in Writers |-> 1]
    /\ proofs = [d \in Writers |-> [b \in Bodies |-> NoProof]]
    /\ received = [d \in Writers |-> [progress |-> NoCoverage, changes |-> {}]]
    /\ observed = [d \in Writers |-> <<>>]
    /\ job = [d \in Writers |-> NoJob]
    /\ work \in Works

Fail == work.failures > 0 /\ work' = [work EXCEPT !.failures = @ - 1]

Tick ==
    /\ time < work.time
    /\ time' = time + 1
    /\ UNCHANGED <<segments, checkpoints, stored, pending, next, proofs, received,
                   observed, job, landed, work>>

------------------------------------------------------------------------------
(* Publication.                                                            *)

(* external_lww_reusable_asset.                                            *)
Reusable(d, content) ==
    /\ proofs[d][content] # NoProof
    /\ time - proofs[d][content].rooted <= REUSE_LIMIT

(* publish_segments: the next change of the outbox becomes a publication;  *)
(* include_objects names a body that is known to be there, or a new one.   *)
Capture(d) ==
    /\ pending[d] = NoPublication
    /\ next[d] <= work.segments[d]
    /\ \E written \in work.changes[d] :
         LET change == [key |-> written[1], value |-> written[2],
                        stamp |-> [physical |-> time, logical |-> next[d], writer |-> d]]
             large == change.value \in Bodies
             reuse == large /\ Reusable(d, change.value)
         IN  pending' = [pending EXCEPT ![d] =
               [seq |-> next[d], change |-> change, reused |-> reuse, captured |-> time,
                dispatched |-> -1,
                rooted |-> IF reuse THEN proofs[d][change.value].rooted ELSE 0,
                body |-> IF reuse THEN proofs[d][change.value].object
                         ELSE IF large
                         THEN [content |-> change.value, writer |-> d, seq |-> next[d]]
                         ELSE NoBody]]
    /\ UNCHANGED <<time, segments, checkpoints, stored, next, proofs, received, observed,
                   job, landed, work>>

SegmentOf(d) ==
    [writer |-> d, seq |-> pending[d].seq, change |-> pending[d].change, body |-> pending[d].body]

AnyUnfinished(d) == pending[d].seq = next[d]      \* mutant: whatever was sent meanwhile
Unsent(d) == pending[d].dispatched = -1

(* A clock that ran ahead: repair_unsent and external_lww_abandon_unsent.  *)
AbandonUnsent(d) ==
    /\ pending[d] # NoPublication
    /\ Unsent(d)
    /\ Fail
    /\ pending' = [pending EXCEPT ![d] = NoPublication]
    /\ UNCHANGED <<time, segments, checkpoints, stored, next, proofs, received, observed,
                   job, landed>>

(* A body that was named or sent too long ago must still be there.         *)
Revalidated(d) ==
    LET p == pending[d] IN
    \/ p.body = NoBody \/ p.body \in stored
    \/ p.reused /\ time - p.rooted <= REUSE_LIMIT
    \/ ~p.reused /\ (p.dispatched = -1 \/ time - p.captured <= REUSE_LIMIT)

(* publish_captured up to the answer of create_object: a fresh body is     *)
(* sent first, a segment that an earlier attempt landed is not sent again, *)
(* and the request may fail.                                               *)
Dispatch(d) ==
    LET p == pending[d]
        s == SegmentOf(d)
    IN
    /\ p # NoPublication
    /\ s \notin segments
    /\ Revalidated(d)
    /\ pending' = [pending EXCEPT ![d].dispatched = time]
    /\ stored' = stored \cup (IF p.reused \/ p.dispatched # -1 THEN {} ELSE {p.body} \ {NoBody})
    /\ \/ Fail /\ UNCHANGED <<segments, landed>>
       \/ /\ UNCHANGED work
          /\ segments' = segments \cup {s}
          /\ landed' = landed \cup {s}
    /\ UNCHANGED <<time, checkpoints, next, proofs, received, observed, job>>

(* witness_standalone and authorize_standalone.                            *)
Proof(old, object, rooted) ==
    [object |-> object,
     rooted |-> IF old # NoProof /\ old.object = object THEN Larger(old.rooted, rooted)
                ELSE rooted]
WithProof(d, s, rooted) ==
    IF s.body = NoBody THEN proofs
    ELSE [proofs EXCEPT ![d][s.body.content] = Proof(@, s.body, rooted)]

Incorporated(r, writer, seq, changes) ==
    [progress |-> [r.progress EXCEPT ![writer] = seq],
     changes  |-> Merged(r.changes \cup changes)]

(* publish_captured from the answer on, or reconcile_publication when an   *)
(* earlier attempt turns out to have landed.                               *)
Finish(d) ==
    /\ pending[d] # NoPublication
    /\ SegmentOf(d) \in segments
    /\ time - pending[d].dispatched <= SettleLimit
    /\ proofs' = WithProof(d, SegmentOf(d), time)
    /\ received' = [received EXCEPT ![d] =
                      Incorporated(@, d, pending[d].seq, {pending[d].change})]
    /\ next' = [next EXCEPT ![d] = pending[d].seq + 1]
    /\ pending' = [pending EXCEPT ![d] = NoPublication]
    /\ UNCHANGED <<time, segments, checkpoints, stored, observed, job, landed, work>>

------------------------------------------------------------------------------
(* Reading.                                                                *)

(* reachable and behind: whether the listed segments lead a device to all  *)
(* that the checkpoints cover.                                             *)
Behind(d) ==
    \E c \in checkpoints, w \in Writers : \E n \in received[d].progress[w] + 1 .. c.coverage[w] :
        \A s \in segments : ~(s.writer = w /\ s.seq = n)

AnyLater(d, s) == s.seq > received[d].progress[s.writer]         \* mutant
NextOf(d, s) == s.seq = received[d].progress[s.writer] + 1

(* receive_segments: the next segment of its writer.  Its body counts as   *)
(* seen at the time of the change, not of the download (admit_objects).    *)
ReceiveSegment(d, s) ==
    /\ d \in work.readers
    /\ job[d] = NoJob
    /\ ~Behind(d)
    /\ NextOf(d, s)
    /\ received' = [received EXCEPT ![d] = Incorporated(@, s.writer, s.seq, {s.change})]
    /\ proofs' = WithProof(d, s, s.change.stamp.physical)
    /\ UNCHANGED <<time, segments, checkpoints, stored, pending, next, observed, job, landed, work>>

(* published_state lists and reads the checkpoints first.                  *)
BeginRead(d, use) ==
    /\ job[d] = NoJob
    /\ \/ use = "receive" /\ d \in work.readers /\ Behind(d)
       \/ use = "compaction" /\ d \in work.maintainers
          /\ \E s \in segments : ~Covered(MergedCoverage(checkpoints), s)
    /\ job' = [job EXCEPT ![d] = [use |-> use, found |-> checkpoints, catalog |-> NoJob]]
    /\ UNCHANGED <<time, segments, checkpoints, stored, pending, next, proofs, received,
                   observed, landed, work>>

Read(d) == PublishedState(job[d].found, segments)

(* receive_published: every writer's progress rises to the coverage.       *)
ReceivePublished(d) ==
    /\ job[d] # NoJob /\ job[d].use = "receive"
    /\ LET catalog == Read(d) IN
       received' = [received EXCEPT ![d] =
         [progress |-> [w \in Writers |-> Larger(@.progress[w], catalog.coverage[w])],
          changes  |-> Merged(@.changes \cup catalog.changes)]]
    /\ job' = [job EXCEPT ![d] = NoJob]
    /\ UNCHANGED <<time, segments, checkpoints, stored, pending, next, proofs, observed, landed, work>>

(* compact_published up to the end of its reading.                         *)
ReadSegments(d) ==
    /\ job[d] # NoJob /\ job[d].use = "compaction" /\ job[d].catalog = NoJob
    /\ job' = [job EXCEPT ![d].catalog = Read(d), ![d].found = {}]
    /\ UNCHANGED <<time, segments, checkpoints, stored, pending, next, proofs, received,
                   observed, landed, work>>

(* One object for every content that a live change names.                  *)
LiveContents(changes) == {c.value : c \in changes} \cap Bodies
Standalone(catalog) ==
    {bodies \in SUBSET catalog.bodies :
        /\ {o.content : o \in bodies} = LiveContents(catalog.changes)
        /\ Cardinality(bodies) = Cardinality(LiveContents(catalog.changes))}

(* compact_published to its end.                                           *)
PublishCheckpoint(d) ==
    /\ job[d] # NoJob /\ job[d].catalog # NoJob
    /\ \E id \in work.names, bodies \in Standalone(job[d].catalog) :
         /\ \A c \in checkpoints : c.id # id
         /\ checkpoints' = checkpoints \cup
              {[id |-> id, coverage |-> job[d].catalog.coverage,
                changes |-> job[d].catalog.changes, bodies |-> bodies]}
    /\ job' = [job EXCEPT ![d] = NoJob]
    /\ UNCHANGED <<time, segments, stored, pending, next, proofs, received, observed, landed, work>>

(* Cancelled, failed, or its lease was lost.                               *)
AbandonJob(d) ==
    /\ job[d] # NoJob
    /\ Fail
    /\ job' = [job EXCEPT ![d] = NoJob]
    /\ UNCHANGED <<time, segments, checkpoints, stored, pending, next, proofs, received,
                   observed, landed>>

------------------------------------------------------------------------------
(* Clean-up.                                                               *)

Documents == segments \cup checkpoints

(* LwwRepositoryView::roots and mark: what the documents name and no kept  *)
(* root needs.                                                             *)
Unreachable ==
    LET kept == KeptRoots
        known == Documents \cup ((UNION {References(k) : k \in Documents}) \cap stored)
    IN  known \ (kept \cup UNION {References(k) : k \in kept})

AgesOfDue(d, unreachable) ==             \* mutant: keeps when the grace ends
    [i \in unreachable |-> IF i \in DOMAIN observed[d] THEN observed[d][i] ELSE time + GRACE]
(* record_observations: what is reachable or gone loses its age.           *)
Ages(d, unreachable) ==
    [i \in unreachable |-> IF i \in DOMAIN observed[d] THEN observed[d][i] ELSE time]

OldAlone(first) ==                        \* mutant: a young parent delays nothing
    {i \in DOMAIN first : first[i] + GRACE <= time}
(* mark: what was unreachable for long enough, unless a younger document   *)
(* names it.                                                               *)
Eligible(first) ==
    {i \in DOMAIN first :
        /\ first[i] + GRACE <= time
        /\ \A k \in DOMAIN first \cap Documents :
             i \in References(k) => first[k] + GRACE <= time}

(* A document stays while a body that it names stays: it is the proof by   *)
(* which the body is found.                                                *)
Candidates(first) ==
    LET eligible == Eligible(first) IN
    {i \in eligible :
        i \in Documents => References(i) \cap DOMAIN first \subseteq eligible}

(* run_owned: bodies go first, and the run may stop after any of them.     *)
Clean(d) ==
    /\ d \in work.maintainers
    /\ \A other \in Writers : job[other] # NoJob => job[other].use = "receive"
    /\ UNION {References(k) : k \in KeptRoots} \subseteq stored
    /\ LET first == Ages(d, Unreachable)
           candidates == Candidates(first)
       IN  \E gone \in SUBSET candidates :
             /\ IF gone = candidates THEN UNCHANGED work ELSE Fail
             /\ gone \cap Documents # {} => candidates \ Documents \subseteq gone
             /\ segments' = segments \ gone
             /\ checkpoints' = checkpoints \ gone
             /\ stored' = stored \ gone
             /\ observed' = [observed EXCEPT ![d] =
                                [i \in DOMAIN first \ gone |-> first[i]]]
    /\ UNCHANGED <<time, pending, next, proofs, received, job, landed>>

------------------------------------------------------------------------------
Publish(d) == Capture(d) \/ AbandonUnsent(d) \/ Dispatch(d) \/ Finish(d)
Receive(d) == ReceivePublished(d) \/ \E s \in segments : ReceiveSegment(d, s)
Compact(d) == ReadSegments(d) \/ PublishCheckpoint(d) \/ AbandonJob(d)

Next ==
    \/ Tick
    \/ \E d \in Writers : Publish(d) \/ Receive(d) \/ Compact(d) \/ Clean(d)
    \/ \E d \in Writers, use \in {"receive", "compaction"} : BeginRead(d, use)

Spec == Init /\ [][Next]_vars

------------------------------------------------------------------------------
(* Properties.                                                             *)

(* The variables keep to their types.                                      *)
TypeOK ==
    /\ time \in 0 .. work.time
    /\ segments \subseteq landed
    /\ \A s \in landed : s \in Segment
    /\ \A c \in checkpoints : c \in Checkpoint
    /\ stored \subseteq Object
    /\ \A d \in Writers :
         /\ pending[d] \in Publication \cup {NoPublication}
         /\ next[d] \in Nat \ {0}
         /\ \A b \in Bodies : proofs[d][b] \in AssetProof \cup {NoProof}
         /\ received[d] \in [progress : Coverage, changes : SUBSET Change]
         /\ \A i \in DOMAIN observed[d] : i \in Items /\ observed[d][i] \in 0 .. time
         /\ job[d] \in Job \cup {NoJob}

(* Every body that a kept checkpoint or segment names is in the storage:   *)
(* the clean-up never deletes what a device names again meanwhile.         *)
KeptRootsAreWhole ==
    \A k \in KeptRoots : References(k) \subseteq stored

(* What the storage holds is the merge of everything ever published,       *)
(* however it was compacted and cleaned up.                                *)
NothingPublishedIsLost ==
    PublishedState(checkpoints, segments).changes = Merged({s.change : s \in landed})

(* A checkpoint's changes account for every segment it covers.             *)
CheckpointsHoldWhatTheyCover ==
    \A c \in checkpoints :
        c.changes = Merged({s.change : s \in {t \in landed : Covered(c.coverage, t)}})

(* No two segments of a device have the same sequence.                     *)
SequencesAreUnique ==
    \A s, t \in landed : s.writer = t.writer /\ s.seq = t.seq => s = t

(* What a device counts as received is part of what it shows.              *)
DevicesHoldWhatTheyCount ==
    \A d \in Writers :
        LET counted == {s.change : s \in {t \in landed : Covered(received[d].progress, t)}}
        IN  Merged(received[d].changes \cup counted) = received[d].changes
==============================================================================
