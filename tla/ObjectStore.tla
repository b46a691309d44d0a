----------------------------- MODULE ObjectStore -----------------------------
(***************************************************************************)
(* The bodies a sync server keeps: rows of the metadata database name      *)
(* them, small ones lie in the database beside their rows and the others   *)
(* are files.  Devices put them whole or upload them in chunks, the units  *)
(* of the library, read pins, transfer leases and custody keep them, and a *)
(* maintenance collects what nothing names any more.                       *)
(*                                                                         *)
(* objects_gate serializes what publishes or removes files, and whoever    *)
(* writes rows has the database.  A maintenance holds both to its end: only*)
(* readers, requests that need neither and a crash come between its steps. *)
(***************************************************************************)
EXTENDS Naturals, FiniteSets

CONSTANTS
    Objects,
    Small,          \* those whose bodies are put into the database
    Large,          \* those whose uploads are finished by the worker
    Names,          \* what each record descriptor names
    Devices, UnitKeys, UploadIds,
    Nothing

CONSTANTS           \* assumptions and bounds of an instance:
    ShardOf,        \* the directory of each object, 0 or 1
    ChunksOf,       \* how many chunks an upload of it has
    Works           \* how often each operation and each fault may happen, one of
                    \* them in each behaviour

Descriptors == DOMAIN Names

ASSUME ObjectsAssumption ==
    /\ Small \cup Large \cup Descriptors \subseteq Objects
    /\ \A r \in Descriptors : Names[r] \subseteq Objects \ Descriptors
    /\ Nothing \notin Objects
    /\ Nothing \notin [object : Objects, saw : {"none", "inline", "file", "published"}]
    /\ ShardOf \in [Objects -> {0, 1}] /\ ChunksOf \in [Objects -> Nat \ {0}]
    /\ \A w \in Works : \A operation \in DOMAIN w : w[operation] \in Nat

VARIABLES
    rows,           \* objects: where the body of each object lies
    files, bodies,  \* the object files, and the bodies in the database
    trash,          \* object_trash
    index,          \* descriptors: what is known about what they name
    units, pinned,  \* the object each unit names, and those that a read pin shows
    leases,         \* object_leases
    custody,        \* object_custody: the retention id of each device and object
    revoked,        \* the devices that are revoked
    uploads,        \* uploads, upload_chunks and upload_jobs
    chunk_files,    \* the chunk files in the staging directory
    staging_trash,
    gate,           \* who holds objects_gate, and how far a maintenance is
    shard,          \* orphan_cursor
    backlog,        \* whether the last maintenance left trash behind
    putting,        \* the body each device is putting
    finishing,      \* the uploads that finish_upload is working on
    verified,       \* those among them whose chunks it has read and verified
    reading,        \* what a reader is about to open
    issued, asked,  \* the retention ids ever issued, and those asked to be released
    stale,          \* the chunks last put while staging_trash still named their file
    work            \* what may still happen

stored    == <<rows, files, bodies, trash, index>>
keepers   == <<units, pinned, leases, custody, revoked>>
transfers == <<uploads, chunk_files, staging_trash>>
upkeep    == <<gate, shard, backlog>>
requests  == <<putting, finishing, verified, reading>>
history   == <<issued, asked, stale>>
vars      == <<stored, keepers, transfers, upkeep, requests, history, work>>

States == {"open", "queued", "finalizing", "failed", "complete"}
Upload ==
    [device : Devices, object : Objects, state : States, expired : BOOLEAN,
     chunks : SUBSET Nat, job : BOOLEAN]

Init ==
    /\ rows = [o \in Objects |-> "none"]
    /\ files = {} /\ bodies = {} /\ trash = {} /\ index = {}
    /\ units = [k \in UnitKeys |-> Nothing] /\ pinned = {}
    /\ leases = {} /\ custody = [h \in Devices \X Objects |-> 0] /\ revoked = {}
    /\ uploads = << >> /\ chunk_files = {} /\ staging_trash = {}
    /\ gate = "free" /\ shard = 0 /\ backlog = FALSE
    /\ putting = [d \in Devices |-> Nothing] /\ finishing = {} /\ verified = {}
    /\ reading = Nothing /\ issued = {} /\ asked = {} /\ stale = {}
    /\ work \in Works

Spend(operation) ==
    /\ operation \in DOMAIN work /\ work[operation] > 0
    /\ work' = [work EXCEPT ![operation] = @ - 1]

DbFree == gate \in {"free", "put"}
GateFree == gate = "free"

(* placement and check_object_body.                                        *)
Exists(o) == rows[o] # "none"
Present(o) ==
    \/ rows[o] = "inline" /\ o \in bodies
    \/ rows[o] = "file" /\ o \in files

------------------------------------------------------------------------------
(* Putting bodies.                                                         *)

(* put_hashed_objects up to the look at the rows.                          *)
BeginPut(d, o) ==
    /\ putting[d] = Nothing
    /\ d \notin revoked
    /\ Spend(<<"put", d, o>>)
    /\ putting' = [putting EXCEPT ![d] = [object |-> o, saw |-> rows[o]]]
    /\ UNCHANGED <<stored, keepers, transfers, upkeep, finishing, verified, reading,
                   history>>

(* put_inline: a body that is filed stays a file.                          *)
put_inline(d, o) ==
    IF rows[o] = "file" THEN UNCHANGED <<rows, bodies>>
    ELSE rows' = [rows EXCEPT ![o] = "inline"] /\ bodies' = bodies \cup {o}

(* put_hashed_objects for a small body: no file, no gate.                  *)
PutInline(d) ==
    /\ putting[d] # Nothing
    /\ putting[d].object \in Small /\ putting[d].saw # "published"
    /\ DbFree
    /\ d \notin revoked
    /\ put_inline(d, putting[d].object)
    /\ leases' = leases \cup {<<d, putting[d].object>>}
    /\ putting' = [putting EXCEPT ![d] = Nothing]
    /\ UNCHANGED <<files, trash, index, units, pinned, custody, revoked,
                   transfers, upkeep, finishing, verified, reading, history, work>>

(* A large body becomes a file under the gate, before its row; so does a   *)
(* small one whose file is gone.                                           *)
PublishFile(d) ==
    /\ putting[d] # Nothing /\ putting[d].saw # "published"
    /\ GateFree
    /\ LET o == putting[d].object IN
         /\ o \notin Small \/ (putting[d].saw = "file" /\ o \notin files)
         /\ files' = files \cup {o}
    /\ gate' = "put"
    /\ putting' = [putting EXCEPT ![d].saw = "published"]
    /\ UNCHANGED <<rows, bodies, trash, index, keepers, transfers, shard,
                   backlog, finishing, verified, reading, history, work>>

(* The row follows, unless the device was revoked or the database fails.   *)
CommitFile(d) ==
    /\ putting[d] # Nothing /\ putting[d].saw = "published"
    /\ LET o == putting[d].object IN
       \/ /\ d \notin revoked
          /\ rows' = [rows EXCEPT ![o] = IF @ = "none" THEN "file" ELSE @]
          /\ leases' = leases \cup {<<d, o>>}
          /\ UNCHANGED work
       \/ /\ IF d \in revoked THEN UNCHANGED work ELSE Spend(<<"fail">>)
          /\ UNCHANGED <<rows, leases>>
    /\ gate' = "free"
    /\ putting' = [putting EXCEPT ![d] = Nothing]
    /\ UNCHANGED <<files, bodies, trash, index, units, pinned, custody, revoked,
                   transfers, shard, backlog, finishing, verified, reading, history>>

(* Refused before anything is published.                                   *)
RefusePut(d) ==
    /\ putting[d] # Nothing /\ putting[d].saw # "published"
    /\ d \in revoked
    /\ putting' = [putting EXCEPT ![d] = Nothing]
    /\ UNCHANGED <<stored, keepers, transfers, upkeep, finishing, verified, reading,
                   history, work>>

(* pin_objects.                                                            *)
PinObject(d, o) ==
    /\ DbFree
    /\ d \notin revoked /\ Exists(o) /\ <<d, o>> \notin leases
    /\ Spend(<<"pin", d, o>>)
    /\ leases' = leases \cup {<<d, o>>}
    /\ UNCHANGED <<stored, units, pinned, custody, revoked, transfers, upkeep,
                   requests, history>>

------------------------------------------------------------------------------
(* Custody.                                                                *)

(* retain_objects: a new retention id replaces an earlier one.             *)
RetainObject(d, o) ==
    /\ GateFree
    /\ d \notin revoked /\ Present(o)
    /\ Spend(<<"retain", d, o>>)
    /\ LET id == Cardinality(issued) + 1 IN
         /\ custody' = [custody EXCEPT ![<<d, o>>] = id]
         /\ issued' = issued \cup {[id |-> id, device |-> d, object |-> o]}
    /\ UNCHANGED <<stored, units, pinned, leases, revoked, transfers, upkeep,
                   requests, asked, stale>>

Releases(h, id) == TRUE           \* mutant: whatever the retention id
ReleasedBy(h, id) == custody[h] = id

(* release_retained_objects, by the device or by its replacement.          *)
ReleaseRetained(d, i) ==
    /\ DbFree
    /\ d \notin revoked
    /\ i.device = d \/ i.device \in revoked
    /\ i.id \notin asked
    /\ Spend(<<"release", d>>)
    /\ asked' = asked \cup {i.id}
    /\ LET h == <<i.device, i.object>> IN
         custody' = [custody EXCEPT ![h] = IF ReleasedBy(h, i.id) THEN 0 ELSE @]
    /\ UNCHANGED <<stored, units, pinned, leases, revoked, transfers, upkeep,
                   requests, issued, stale>>

Revoke(d) ==
    /\ DbFree
    /\ d \notin revoked
    /\ Spend(<<"revoke", d>>)
    /\ revoked' = revoked \cup {d}
    /\ UNCHANGED <<stored, units, pinned, leases, custody, transfers, upkeep,
                   requests, history>>

(* forget_revoked_device.                                                  *)
Forget(d) ==
    /\ DbFree
    /\ d \in revoked
    /\ Spend(<<"forget", d>>)
    /\ custody' = [h \in Devices \X Objects |-> IF h[1] = d THEN 0 ELSE custody[h]]
    /\ asked' = asked \cup {i.id : i \in {j \in issued : j.device = d}}
    /\ UNCHANGED <<stored, units, pinned, leases, revoked, transfers, upkeep,
                   requests, issued, stale>>

------------------------------------------------------------------------------
(* Units that name objects.                                                *)

(* prepare_descriptor.                                                     *)
Prepared(r) == \A o \in {r} \cup Names[r] : Present(o)

(* push: the bodies that a descriptor names must be there.  An alias is    *)
(* taken as it is: the device has a lease on its body, for it uploads or   *)
(* pins every body before it pushes (Transfer::upload_with_hints).         *)
Push(d, k, o) ==
    /\ GateFree
    /\ d \notin revoked
    /\ o # units[k]
    /\ Spend(<<"push", d, o>>)
    /\ \/ o \in Descriptors /\ Prepared(o) /\ index' = index \cup {o}
       \/ o \notin Descriptors /\ (o = Nothing \/ <<d, o>> \in leases) /\ UNCHANGED index
    /\ units' = [units EXCEPT ![k] = o]
    /\ UNCHANGED <<rows, files, bodies, trash, pinned, leases, custody, revoked,
                   transfers, upkeep, requests, history>>

Named == {units[k] : k \in UnitKeys} \ {Nothing}

(* create_state_pin.                                                       *)
CreateStatePin(d) ==
    /\ DbFree
    /\ d \notin revoked
    /\ Spend(<<"state_pin", d>>)
    /\ pinned' = pinned \cup Named
    /\ UNCHANGED <<stored, units, leases, custody, revoked, transfers, upkeep,
                   requests, history>>

------------------------------------------------------------------------------
(* Uploads.                                                                *)

Ids == DOMAIN uploads
ChunkSet(u) == 1 .. ChunksOf[uploads[u].object]
AllVerified(u) == uploads[u].chunks = ChunkSet(u)
(* upload_row and require_device.                                          *)
Valid(u) == ~uploads[u].expired /\ uploads[u].device \notin revoked
ByWorker(u) == uploads[u].object \in Large

(* begin_upload; identifiers are random.                                   *)
BeginUpload(d, o, u) ==
    /\ DbFree
    /\ d \notin revoked
    /\ u \notin Ids /\ Spend(<<"upload", d, o, u>>)
    /\ uploads' = [v \in Ids \cup {u} |->
         IF v # u THEN uploads[v]
         ELSE [device |-> d, object |-> o, state |-> "open", expired |-> FALSE,
               chunks |-> {}, job |-> FALSE]]
    /\ UNCHANGED <<stored, keepers, chunk_files, staging_trash, upkeep,
                   requests, history>>

(* put_upload_chunk: the file, and then the row, which may fail.           *)
PutChunk(u, n) ==
    /\ GateFree
    /\ Valid(u) /\ uploads[u].state = "open" /\ n \notin uploads[u].chunks
    /\ chunk_files' = chunk_files \cup {<<u, n>>}
    /\ \/ Spend(<<"fail">>) /\ UNCHANGED <<uploads, stale>>
       \/ /\ uploads' = [uploads EXCEPT ![u].chunks = @ \cup {n}]
          /\ stale' = (stale \ {<<u, n>>}) \cup ({<<u, n>>} \cap staging_trash)
          /\ UNCHANGED work
    /\ UNCHANGED <<stored, keepers, staging_trash, upkeep, requests, issued, asked>>

SetState(u, state) == uploads' = [uploads EXCEPT ![u].state = state]
EndJob(u, state) == uploads' = [uploads EXCEPT ![u].state = state, ![u].job = FALSE]

(* The first transaction of finish_upload.                                 *)
Begin(u) == SetState(u, "finalizing") /\ finishing' = finishing \cup {u}

(* submit_upload.                                                          *)
Submit(u) ==
    /\ DbFree
    /\ Valid(u) /\ uploads[u].state = "open" /\ AllVerified(u)
    /\ IF ~ByWorker(u) THEN Begin(u)
       ELSE /\ uploads' = [uploads EXCEPT ![u].state = "queued", ![u].job = TRUE]
            /\ UNCHANGED finishing
    /\ UNCHANGED <<stored, keepers, chunk_files, staging_trash, upkeep, putting,
                   verified, reading, history, work>>

(* run_pending_upload: the job is tried, and given up when it is refused.  *)
StartJob(u) ==
    /\ DbFree
    /\ uploads[u].job /\ uploads[u].state = "queued"
    /\ \A v \in finishing : ~ByWorker(v)
    /\ IF Valid(u) /\ AllVerified(u) THEN Begin(u)
       ELSE EndJob(u, "failed") /\ UNCHANGED finishing
    /\ UNCHANGED <<stored, keepers, chunk_files, staging_trash, upkeep, putting,
                   verified, reading, history, work>>

(* finish_upload reads and verifies the chunks; it holds no lock.          *)
Readable(u) == AllVerified(u) /\ {u} \X ChunkSet(u) \subseteq chunk_files
ReadChunks(u) ==
    /\ u \in finishing \ verified
    /\ Readable(u)
    /\ verified' = verified \cup {u}
    /\ UNCHANGED <<stored, keepers, transfers, upkeep, putting, finishing, reading,
                   history, work>>

StillVerified(u) ==               \* mutant: an earlier attempt counts
    finishing' = finishing \ {u} /\ UNCHANGED verified
End(u) == finishing' = finishing \ {u} /\ verified' = verified \ {u}

(* finish_upload publishes the verified body where its row says.           *)
PublishUpload(u) ==
    LET o == uploads[u].object IN
    /\ GateFree
    /\ u \in verified /\ Valid(u)
    /\ IF rows[o] = "inline" THEN UNCHANGED files ELSE files' = files \cup {o}
    /\ \/ /\ bodies' = bodies \cup (IF rows[o] = "inline" THEN {o} ELSE {})
          /\ rows' = [rows EXCEPT ![o] = IF @ = "none" THEN "file" ELSE @]
          /\ leases' = leases \cup {<<uploads[u].device, o>>}
          /\ EndJob(u, "complete")
          /\ UNCHANGED work
       \/ /\ Spend(<<"fail">>)
          /\ SetState(u, IF uploads[u].job THEN "queued" ELSE "open")
          /\ UNCHANGED <<rows, bodies, leases>>
    /\ End(u)
    /\ UNCHANGED <<trash, index, units, pinned, custody, revoked, chunk_files,
                   staging_trash, upkeep, putting, reading, history>>

(* A chunk is not there, the upload expired or its device was revoked.     *)
FailUpload(u) ==
    /\ DbFree
    /\ u \in finishing
    /\ IF u \in verified THEN ~Valid(u) ELSE ~Readable(u)
    /\ IF uploads[u].job /\ u \in verified
       THEN EndJob(u, "failed")
       ELSE SetState(u, IF uploads[u].job THEN "queued" ELSE "open")
    /\ End(u)
    /\ UNCHANGED <<stored, keepers, chunk_files, staging_trash, upkeep, putting,
                   reading, history, work>>

Without(gone) == [u \in Ids \ gone |-> uploads[u]]
Staged(us) == UNION {{u} \X uploads[u].chunks : u \in us}

(* cancel_upload; it removes the chunks it gives up.                       *)
Cancel(u) ==
    /\ GateFree
    /\ Valid(u) /\ uploads[u].state # "finalizing"
    /\ Spend(<<"cancel">>)
    /\ uploads' = Without({u})
    /\ chunk_files' = chunk_files \ Staged({u})
    /\ UNCHANGED <<stored, keepers, staging_trash, upkeep, requests, history>>

Expire(u) ==
    /\ ~uploads[u].expired
    /\ Spend(<<"expire">>)
    /\ uploads' = [uploads EXCEPT ![u].expired = TRUE]
    /\ UNCHANGED <<stored, keepers, chunk_files, staging_trash, upkeep,
                   requests, history>>

------------------------------------------------------------------------------
(* Maintenance.                                                            *)

Staying(u) == uploads[u].state = "finalizing" \/ Valid(u)
Direct(found) == found            \* mutant: what a descriptor names is forgotten
(* The recursion over edges; what a descriptor names names nothing itself. *)
Closed(found) == found \cup UNION {Names[r] : r \in found \cap index}

(* gc_roots, with the leases and read pins that have not expired.          *)
Roots(held) ==
    Named \cup {l[2] : l \in held}
          \cup {h[2] : h \in {g \in DOMAIN custody : custody[g] # 0}}
          \cup {uploads[u].object : u \in {v \in Ids : Staying(v) /\ ~uploads[v].expired}}

(* The transaction of maintain_at.                                         *)
Collect ==
    /\ GateFree
    /\ \E held \in SUBSET {l \in leases : l[1] \notin revoked},
          shown \in {pinned, {}} :
         LET alive == Closed(Roots(held) \cup shown)
             done == {u \in Ids : ~Staying(u) \/ uploads[u].state = "complete"}
             staged == staging_trash \cup Staged(done)
         IN  /\ leases' = held
             /\ pinned' = shown
             /\ staging_trash' = staged
             /\ uploads' = [u \in {v \in Ids : Staying(v)} |->
                    [uploads[u] EXCEPT !.chunks = {n \in @ : <<u, n>> \notin staged}]]
             /\ index' = index \cap alive
             /\ trash' = trash \cup {o \in Objects : Exists(o) /\ o \notin alive}
             /\ rows' = [o \in Objects |-> IF o \in alive THEN rows[o] ELSE "none"]
             /\ reading' = IF reading = Nothing THEN Nothing
                           ELSE [reading EXCEPT !.lost = @ \/ reading.object \notin alive]
    /\ gate' = "collected"
    /\ UNCHANGED <<files, bodies, units, custody, revoked, chunk_files, shard,
                   backlog, putting, finishing, verified, history, work>>

OpenAlone(c) ==                   \* mutant: only open uploads have chunks
    c[1] \in Ids /\ uploads[c[1]].state = "open" /\ c[2] \in uploads[c[1]].chunks
Accounted(c) == c[1] \in Ids /\ c[2] \in uploads[c[1]].chunks

SameShard == shard                \* mutant: the scan never goes on
NextShard == 1 - shard
(* reconcile_orphans: one directory of objects, and the chunks.            *)
Reconcile ==
    /\ gate = "collected"
    /\ gate' = "reconciled"
    /\ trash' = trash \cup {o \in files : ShardOf[o] = shard /\ ~Exists(o)}
    /\ staging_trash' = staging_trash \cup {c \in chunk_files : ~Accounted(c)}
    /\ shard' = NextShard
    /\ UNCHANGED <<rows, files, bodies, index, keepers, uploads, chunk_files,
                   backlog, requests, history, work>>

AnyTrash == trash                 \* mutant: also what was put again
Removable == {o \in trash : ~Exists(o)}
(* drain_trash_locked with drain_staging_trash: at the end of a            *)
(* maintenance, and once more if that left something behind.  The removal  *)
(* of a file may fail.                                                     *)
DrainTrash ==
    /\ gate = "reconciled" \/ (GateFree /\ backlog)
    /\ \E kept \in SUBSET (Removable \cap files),
          left \in SUBSET (staging_trash \cap chunk_files) :
         /\ IF kept = {} /\ left = {} THEN UNCHANGED work ELSE Spend(<<"stuck">>)
         /\ files' = files \ (Removable \ kept)
         /\ bodies' = bodies \ (Removable \ kept)
         /\ trash' = kept
         /\ chunk_files' = chunk_files \ (staging_trash \ left)
         /\ staging_trash' = left
         /\ backlog' = (~GateFree /\ (kept # {} \/ left # {}))
    /\ gate' = "free"
    /\ UNCHANGED <<rows, index, keepers, uploads, shard, requests, history>>

------------------------------------------------------------------------------
(* Reading, and the process.                                               *)

(* open_object and get_object look up the row, and open the body later.    *)
LookUp(o) ==
    /\ reading = Nothing /\ Exists(o)
    /\ Spend(<<"read", o>>)
    /\ reading' = [object |-> o, place |-> rows[o], lost |-> FALSE]
    /\ UNCHANGED <<stored, keepers, transfers, upkeep, putting, finishing,
                   verified, history>>

OpenBody ==
    /\ reading # Nothing
    /\ reading.place = "file" => GateFree
    /\ reading' = Nothing
    /\ UNCHANGED <<stored, keepers, transfers, upkeep, putting, finishing,
                   verified, history, work>>

AsItWas(u) == uploads[u]          \* mutant: nothing is resumed
Resumed(u) ==
    IF uploads[u].state # "finalizing" THEN uploads[u]
    ELSE [uploads[u] EXCEPT !.state = IF uploads[u].job THEN "queued" ELSE "open"]

Forgotten ==
    /\ gate' = "free" /\ shard' = 0 /\ backlog' = FALSE
    /\ putting' = [d \in Devices |-> Nothing]
    /\ finishing' = {} /\ verified' = {} /\ reading' = Nothing

(* Reconcile or the removal fails as a whole.                              *)
AbandonMaintenance ==
    /\ gate \in {"collected", "reconciled"}
    /\ Spend(<<"fail">>)
    /\ gate' = "free" /\ backlog' = FALSE
    /\ UNCHANGED <<stored, keepers, transfers, shard, requests, history>>

(* The process stops anywhere; open_inner resumes what it was finishing.   *)
Crash ==
    /\ Spend(<<"crash">>)
    /\ Forgotten
    /\ uploads' = [u \in Ids |-> Resumed(u)]
    /\ UNCHANGED <<stored, keepers, chunk_files, staging_trash, history>>

(* backup, restore_backup and rotate_restored_epoch: only what has a row   *)
(* is copied, and every device registers anew.                             *)
Restore ==
    /\ GateFree
    /\ Spend(<<"restore">>)
    /\ Forgotten
    /\ files' = {o \in Objects : rows[o] = "file"}
    /\ chunk_files' = {} /\ staging_trash' = {}
    /\ uploads' = << >> /\ leases' = {} /\ pinned' = {}
    /\ revoked' = Devices
    /\ UNCHANGED <<rows, bodies, trash, index, units, custody, history>>

------------------------------------------------------------------------------
PutNext(d) == PutInline(d) \/ PublishFile(d) \/ CommitFile(d) \/ RefusePut(d)
UploadNext(u) ==
    \/ \E n \in ChunkSet(u) : PutChunk(u, n)
    \/ Submit(u) \/ Cancel(u) \/ Expire(u)
FinishNext(u) == StartJob(u) \/ ReadChunks(u) \/ PublishUpload(u) \/ FailUpload(u)
MaintenanceNext == Collect \/ Reconcile \/ DrainTrash

Next ==
    \/ \E d \in Devices, o \in Objects :
         BeginPut(d, o) \/ PinObject(d, o) \/ RetainObject(d, o)
    \/ \E d \in Devices, o \in Objects, u \in UploadIds : BeginUpload(d, o, u)
    \/ \E d \in Devices : PutNext(d) \/ CreateStatePin(d) \/ Revoke(d) \/ Forget(d)
    \/ \E d \in Devices, i \in issued : ReleaseRetained(d, i)
    \/ \E d \in Devices, k \in UnitKeys, o \in Objects \cup {Nothing} : Push(d, k, o)
    \/ \E u \in Ids : UploadNext(u) \/ FinishNext(u)
    \/ MaintenanceNext \/ AbandonMaintenance \/ Crash \/ Restore
    \/ (\E o \in Objects : LookUp(o)) \/ OpenBody

Spec == Init /\ [][Next]_vars

(* Maintenance runs every fifteen minutes; the worker tries every job      *)
(* again, and a failed one only after the others; a request that published *)
(* a file goes on.  What needs the gate waits for a maintenance that is    *)
(* soon over.                                                              *)
FairSpec ==
    /\ Spec
    /\ WF_vars(MaintenanceNext)
    /\ \A d \in Devices : WF_vars(CommitFile(d))
    /\ \A u \in UploadIds : SF_vars(u \in Ids /\ FinishNext(u))

------------------------------------------------------------------------------
(* Properties.                                                             *)

(* The variables keep to their types.                                      *)
TypeOK ==
    /\ rows \in [Objects -> {"none", "inline", "file"}]
    /\ files \cup bodies \cup trash \cup pinned \subseteq Objects
    /\ index \subseteq Descriptors
    /\ units \in [UnitKeys -> Objects \cup {Nothing}]
    /\ leases \subseteq Devices \X Objects
    /\ custody \in [Devices \X Objects -> Nat]
    /\ revoked \subseteq Devices
    /\ \A u \in Ids : uploads[u] \in Upload /\ uploads[u].chunks \subseteq ChunkSet(u)
    /\ finishing = {u \in Ids : uploads[u].state = "finalizing"}
    /\ verified \subseteq finishing
    /\ gate \in {"free", "put", "collected", "reconciled"}
    /\ gate = "put" <=>
         \E d \in Devices : putting[d] # Nothing /\ putting[d].saw = "published"

(* What a unit, a read pin, a lease or custody keeps, and what the         *)
(* descriptors among it name.                                              *)
Kept ==
    LET direct == Named \cup pinned \cup {l[2] : l \in leases}
                    \cup {h[2] : h \in {g \in DOMAIN custody : custody[g] # 0}}
    IN  direct \cup UNION {Names[r] : r \in (Named \cup pinned) \cap Descriptors}

(* No body that has a row is ever missing, and nothing that is kept has    *)
(* lost its row.                                                           *)
HeldBodiesAreThere ==
    /\ \A o \in Objects : Exists(o) => Present(o)
    /\ \A o \in Kept : Exists(o)

(* A body is where a reader saw its row until the object is collected.     *)
ReadersFindWhatStays ==
    reading # Nothing /\ ~reading.lost =>
        \/ reading.place = "inline" /\ reading.object \in bodies
        \/ reading.place = "file" /\ reading.object \in files

(* The last retention id a device was given is in force until its release  *)
(* is asked for, whatever else is released, expires or is restored.        *)
CustodyStands ==
    \A i \in issued :
        LET h == <<i.device, i.object>>
            later == {j \in issued :
                        j.device = i.device /\ j.object = i.object /\ j.id > i.id}
        IN  i.id \notin asked /\ later = {} => custody[h] = i.id

Accepted(u) ==
    \/ uploads[u].state = "finalizing"
    \/ uploads[u].state = "queued" /\ Valid(u)

(* An upload that was accepted keeps its whole chunk set.                  *)
AcceptedUploadsAreWhole == \A u \in Ids : Accepted(u) => Readable(u)

(* An upload that was accepted loses no chunk but one that was put over a  *)
(* file which staging_trash still named: no expiry, failed row, crash or   *)
(* abandoned maintenance takes another one, neither its row nor its file.  *)
UploadsLoseOnlyStaleChunks ==
    \A u \in Ids : Accepted(u) =>
        \A n \in ChunkSet(u) :
            \/ n \in uploads[u].chunks /\ <<u, n>> \in chunk_files
            \/ <<u, n>> \in stale

(* A file without a row is removed, or gets one.                           *)
Unaccounted(o) == o \in files /\ ~Exists(o)
UnaccountedBodiesGo == \A o \in Objects : Unaccounted(o) ~> ~Unaccounted(o)

(* The worker brings every upload it accepted to an end; it only tries one *)
(* again and again whose chunk staging_trash has taken away under its row. *)
Pending(u) == u \in Ids /\ uploads[u].job
Bereft(u) ==
    u \in Ids /\ \E n \in uploads[u].chunks : <<u, n>> \in stale \ chunk_files
SubmittedUploadsEnd ==
    \A u \in UploadIds : Pending(u) ~> ~Pending(u) \/ Bereft(u)
==============================================================================
