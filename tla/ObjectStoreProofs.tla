-------------------------- MODULE ObjectStoreProofs --------------------------
(***************************************************************************)
(* Proofs about the bodies behind a library, for any number of devices,    *)
(* objects and uploads, and whatever operations and faults happen.         *)
(***************************************************************************)
EXTENDS ObjectStore, FiniteSetTheorems, TLAPS

------------------------------------------------------------------------------
(* The invariant.                                                          *)

Put == [object : Objects, saw : {"none", "inline", "file", "published"}]
Reading == [object : Objects, place : {"inline", "file"}, lost : BOOLEAN]
Retention == [id : Nat, device : Devices, object : Objects]
Published(d) == putting[d] # Nothing /\ putting[d].saw = "published"

(* TypeOK part by part, with what it leaves out: the shape of requests and *)
(* of retention ids, and that one request at most is between its file and  *)
(* its row.                                                                *)
BodiesShape ==
  /\ rows \in [Objects -> {"none", "inline", "file"}]
  /\ files \subseteq Objects /\ bodies \subseteq Objects /\ trash \subseteq Objects

KeepersShape ==
  /\ index \subseteq Descriptors /\ pinned \subseteq Objects
  /\ units \in [UnitKeys -> Objects \cup {Nothing}]
  /\ leases \subseteq Devices \X Objects
  /\ revoked \subseteq Devices

UploadsShape ==
  /\ uploads \in [Ids -> Upload]
  /\ \A u \in Ids : uploads[u].chunks \subseteq ChunkSet(u)
  /\ finishing = {u \in Ids : uploads[u].state = "finalizing"}
  /\ verified \subseteq finishing

RequestsShape ==
  /\ putting \in [Devices -> Put \cup {Nothing}]
  /\ reading \in Reading \cup {Nothing}
  /\ gate \in {"free", "put", "collected", "reconciled"}
  /\ gate = "put" <=> \E d \in Devices : Published(d)
  /\ \A d, e \in Devices : Published(d) /\ Published(e) => d = e

CustodyShape ==
  /\ custody \in [Devices \X Objects -> Nat]
  /\ issued \subseteq Retention /\ IsFiniteSet(issued)
  /\ \A i \in issued : i.id <= Cardinality(issued)

Shape == BodiesShape /\ KeepersShape /\ UploadsShape /\ RequestsShape /\ CustodyShape

------------------------------------------------------------------------------
(* Which actions touch which part.                                         *)

LEMMA BodiesFrame ==
  ASSUME [Next]_vars
  PROVE  \/ UNCHANGED <<rows, files, bodies, trash>>
         \/ \E d \in Devices : PutInline(d) \/ PublishFile(d) \/ CommitFile(d)
         \/ \E u \in Ids : PublishUpload(u)
         \/ Collect \/ Reconcile \/ DrainTrash \/ Restore
BY DEF Next, vars, stored, PutNext, UploadNext, FinishNext, MaintenanceNext,
       BeginPut, RefusePut, PinObject, RetainObject, ReleaseRetained, Revoke, Forget, Push,
       CreateStatePin, BeginUpload, PutChunk, Submit, StartJob, ReadChunks, FailUpload, Cancel,
       Expire, LookUp, OpenBody, AbandonMaintenance, Crash

LEMMA UploadsFrame ==
  ASSUME [Next]_vars
  PROVE  \/ UNCHANGED <<uploads, finishing, verified>>
         \/ \E d \in Devices, o \in Objects, u \in UploadIds : BeginUpload(d, o, u)
         \/ \E u \in Ids : UploadNext(u) \/ FinishNext(u)
         \/ Collect \/ Crash \/ Restore
BY DEF Next, vars, transfers, requests, PutNext, MaintenanceNext,
       BeginPut, PutInline, PublishFile, CommitFile, RefusePut, PinObject, RetainObject,
       ReleaseRetained, Revoke, Forget, Push, CreateStatePin, Reconcile, DrainTrash, LookUp,
       OpenBody, AbandonMaintenance

LEMMA RequestsFrame ==
  ASSUME [Next]_vars
  PROVE  \/ UNCHANGED <<putting, reading, gate>>
         \/ \E d \in Devices, o \in Objects : BeginPut(d, o)
         \/ \E d \in Devices : PutNext(d)
         \/ \E o \in Objects : LookUp(o)
         \/ OpenBody \/ MaintenanceNext \/ AbandonMaintenance \/ Crash \/ Restore
BY DEF Next, vars, upkeep, requests, UploadNext, FinishNext, PinObject, RetainObject,
       ReleaseRetained, Revoke, Forget, Push, CreateStatePin, BeginUpload, PutChunk, Submit,
       StartJob, ReadChunks, PublishUpload, FailUpload, Cancel, Expire

LEMMA CustodyFrame ==
  ASSUME [Next]_vars
  PROVE  \/ UNCHANGED <<custody, issued, asked>>
         \/ \E d \in Devices, o \in Objects : RetainObject(d, o)
         \/ \E d \in Devices, i \in issued : ReleaseRetained(d, i)
         \/ \E d \in Devices : Forget(d)
BY DEF Next, vars, keepers, history, PutNext, UploadNext, FinishNext, MaintenanceNext,
       BeginPut, PutInline, PublishFile, CommitFile, RefusePut, PinObject, Revoke, Push,
       CreateStatePin, BeginUpload, PutChunk, Submit, StartJob, ReadChunks, PublishUpload,
       FailUpload, Cancel, Expire, Collect, Reconcile, DrainTrash, LookUp, OpenBody,
       AbandonMaintenance, Crash, Restore

------------------------------------------------------------------------------
(* The shape of each part is kept.                                         *)

LEMMA ShapeInit == Init => Shape
<1> SUFFICES ASSUME Init PROVE Shape
  OBVIOUS
<1>1. BodiesShape /\ KeepersShape
  BY DEF Init, BodiesShape, KeepersShape
<1>2. UploadsShape
  BY DEF Init, UploadsShape, Ids
<1>3. RequestsShape
  BY DEF Init, RequestsShape, Published
<1>4. CustodyShape
  BY FS_EmptySet DEF Init, CustodyShape
<1>5. QED
  BY <1>1, <1>2, <1>3, <1>4 DEF Shape

(* The body a device puts is an object.                                    *)
LEMMA PuttingFields ==
  ASSUME RequestsShape, NEW d \in Devices, putting[d] # Nothing
  PROVE  putting[d] \in Put /\ putting[d].object \in Objects
BY DEF RequestsShape, Put

LEMMA UploadFields ==
  ASSUME UploadsShape, NEW u \in Ids
  PROVE  /\ uploads[u] \in Upload
         /\ uploads[u].device \in Devices /\ uploads[u].object \in Objects
         /\ uploads[u].state \in States
         /\ uploads[u].expired \in BOOLEAN /\ uploads[u].job \in BOOLEAN
         /\ uploads[u].chunks \in SUBSET Nat
         /\ uploads[u].chunks \subseteq ChunkSet(u)
BY DEF UploadsShape, Upload

LEMMA BodiesShapeStep ==
  ASSUME Shape, [Next]_vars
  PROVE  BodiesShape'
<1>1. BodiesShape /\ RequestsShape /\ UploadsShape
  BY DEF Shape
<1>2. CASE UNCHANGED <<rows, files, bodies, trash>>
  BY <1>1, <1>2 DEF BodiesShape
<1>3. ASSUME NEW d \in Devices, PutInline(d)
      PROVE  BodiesShape'
  BY <1>1, <1>3, PuttingFields DEF PutInline, put_inline, BodiesShape
<1>4. ASSUME NEW d \in Devices, PublishFile(d)
      PROVE  BodiesShape'
  BY <1>1, <1>4, PuttingFields DEF PublishFile, BodiesShape
<1>5. ASSUME NEW d \in Devices, CommitFile(d)
      PROVE  BodiesShape'
  BY <1>1, <1>5, PuttingFields DEF CommitFile, BodiesShape
<1>6. ASSUME NEW u \in Ids, PublishUpload(u)
      PROVE  BodiesShape'
  BY <1>1, <1>6, UploadFields DEF PublishUpload, BodiesShape
<1>7. CASE Collect
  BY <1>1, <1>7 DEF Collect, BodiesShape
<1>8. CASE Reconcile
  BY <1>1, <1>8 DEF Reconcile, BodiesShape
<1>9. CASE DrainTrash
  BY <1>1, <1>9 DEF DrainTrash, Removable, BodiesShape
<1>10. CASE Restore
  BY <1>1, <1>10 DEF Restore, BodiesShape
<1>11. QED
  BY <1>2, <1>3, <1>4, <1>5, <1>6, <1>7, <1>8, <1>9, <1>10, BodiesFrame

LEMMA KeepersFrame ==
  ASSUME [Next]_vars
  PROVE  \/ UNCHANGED keepers /\ UNCHANGED index
         \/ \E d \in Devices, o \in Objects : PinObject(d, o)
         \/ \E d \in Devices, o \in Objects : RetainObject(d, o)
         \/ \E d \in Devices, i \in issued : ReleaseRetained(d, i)
         \/ \E d \in Devices, k \in UnitKeys, o \in Objects \cup {Nothing} : Push(d, k, o)
         \/ \E d \in Devices : \/ PutInline(d) \/ CommitFile(d) \/ CreateStatePin(d)
                               \/ Revoke(d) \/ Forget(d)
         \/ \E u \in Ids : PublishUpload(u)
         \/ Collect \/ Restore
BY DEF Next, vars, stored, keepers, PutNext, UploadNext, FinishNext, MaintenanceNext,
       BeginPut, PublishFile, RefusePut, BeginUpload, PutChunk, Submit, StartJob, ReadChunks,
       FailUpload, Cancel, Expire, Reconcile, DrainTrash, LookUp, OpenBody,
       AbandonMaintenance, Crash

LEMMA KeepersShapeStep ==
  ASSUME Shape, [Next]_vars
  PROVE  KeepersShape'
<1>1. KeepersShape /\ RequestsShape /\ UploadsShape
  BY DEF Shape
<1>2. CASE UNCHANGED keepers /\ UNCHANGED index
  BY <1>1, <1>2 DEF KeepersShape, keepers
<1>3. ASSUME NEW d \in Devices, NEW o \in Objects, PinObject(d, o)
      PROVE  KeepersShape'
  BY <1>1, <1>3 DEF PinObject, stored, KeepersShape
<1>4. ASSUME NEW d \in Devices, NEW o \in Objects, RetainObject(d, o)
      PROVE  KeepersShape'
  BY <1>1, <1>4 DEF RetainObject, stored, KeepersShape
<1>5. ASSUME NEW d \in Devices, NEW i \in issued, ReleaseRetained(d, i)
      PROVE  KeepersShape'
  BY <1>1, <1>5 DEF ReleaseRetained, stored, KeepersShape
<1>6. ASSUME NEW d \in Devices, NEW k \in UnitKeys, NEW o \in Objects \cup {Nothing},
             Push(d, k, o)
      PROVE  KeepersShape'
  <2>1. units' \in [UnitKeys -> Objects \cup {Nothing}] /\ index' \subseteq Descriptors
    BY <1>1, <1>6 DEF Push, KeepersShape
  <2>2. QED
    BY <1>1, <1>6, <2>1 DEF Push, KeepersShape
<1>7. ASSUME NEW d \in Devices, PutInline(d)
      PROVE  KeepersShape'
  BY <1>1, <1>7, PuttingFields DEF PutInline, KeepersShape
<1>8. ASSUME NEW d \in Devices, CommitFile(d)
      PROVE  KeepersShape'
  BY <1>1, <1>8, PuttingFields DEF CommitFile, KeepersShape
<1>9. ASSUME NEW d \in Devices, CreateStatePin(d)
      PROVE  KeepersShape'
  BY <1>1, <1>9 DEF CreateStatePin, stored, Named, KeepersShape
<1>10. ASSUME NEW d \in Devices, Revoke(d) \/ Forget(d)
       PROVE  KeepersShape'
  BY <1>1, <1>10 DEF Revoke, Forget, stored, KeepersShape
<1>11. ASSUME NEW u \in Ids, PublishUpload(u)
       PROVE  KeepersShape'
  BY <1>1, <1>11, UploadFields DEF PublishUpload, KeepersShape
<1>12. CASE Collect
  BY <1>1, <1>12 DEF Collect, KeepersShape
<1>13. CASE Restore
  BY <1>1, <1>13 DEF Restore, KeepersShape
<1>14. QED
  BY <1>2, <1>3, <1>4, <1>5, <1>6, <1>7, <1>8, <1>9, <1>10, <1>11, <1>12, <1>13, KeepersFrame

LEMMA CustodyShapeStep ==
  ASSUME Shape, [Next]_vars
  PROVE  CustodyShape'
<1>1. CustodyShape
  BY DEF Shape
<1>2. CASE UNCHANGED <<custody, issued, asked>>
  BY <1>1, <1>2 DEF CustodyShape
<1>3. ASSUME NEW d \in Devices, NEW o \in Objects, RetainObject(d, o)
      PROVE  CustodyShape'
  <2> DEFINE i == [id |-> Cardinality(issued) + 1, device |-> d, object |-> o]
  <2>1. Cardinality(issued) \in Nat
    BY <1>1, FS_CardinalityType DEF CustodyShape
  <2>2. i \in Retention /\ i \notin issued
    BY <1>1, <2>1 DEF CustodyShape, Retention
  <2>3. issued' = issued \cup {i}
    BY <1>3 DEF RetainObject
  <2>4. IsFiniteSet(issued') /\ Cardinality(issued') = Cardinality(issued) + 1
    BY <1>1, <2>2, <2>3, FS_AddElement DEF CustodyShape
  <2>5. custody' \in [Devices \X Objects -> Nat]
    BY <1>1, <1>3, <2>1 DEF RetainObject, CustodyShape
  <2>6. \A j \in issued' : j.id <= Cardinality(issued')
    BY <1>1, <2>1, <2>3, <2>4 DEF CustodyShape, Retention
  <2>7. QED
    BY <1>1, <2>2, <2>3, <2>4, <2>5, <2>6 DEF CustodyShape
<1>4. ASSUME NEW d \in Devices, NEW i \in issued, ReleaseRetained(d, i)
      PROVE  CustodyShape'
  BY <1>1, <1>4 DEF ReleaseRetained, CustodyShape
<1>5. ASSUME NEW d \in Devices, Forget(d)
      PROVE  CustodyShape'
  BY <1>1, <1>5 DEF Forget, CustodyShape
<1>6. QED
  BY <1>2, <1>3, <1>4, <1>5, CustodyFrame

LEMMA UploadsShapeStep ==
  ASSUME Shape, [Next]_vars
  PROVE  UploadsShape'
<1>1. UploadsShape
  BY DEF Shape
<1> USE ObjectsAssumption
<1>2. CASE UNCHANGED <<uploads, finishing, verified>>
  BY <1>1, <1>2 DEF UploadsShape, Ids, ChunkSet
<1>3. ASSUME NEW d \in Devices, NEW o \in Objects, NEW u \in UploadIds, BeginUpload(d, o, u)
      PROVE  UploadsShape'
  <2> DEFINE new == [device |-> d, object |-> o, state |-> "open", expired |-> FALSE,
                     chunks |-> {}, job |-> FALSE]
  <2>1. /\ u \notin Ids /\ finishing' = finishing /\ verified' = verified
        /\ uploads' = [v \in Ids \cup {u} |-> IF v # u THEN uploads[v] ELSE new]
    BY <1>3 DEF BeginUpload, requests
  <2>2. new \in Upload
    BY DEF Upload, States
  <2>3. Ids' = Ids \cup {u} /\ uploads'[u] = new /\ \A v \in Ids : uploads'[v] = uploads[v]
    BY <2>1 DEF Ids
  <2>4. uploads' \in [Ids' -> Upload]
    BY <1>1, <2>1, <2>2, <2>3 DEF UploadsShape
  <2>5. QED
    BY <1>1, <2>1, <2>3, <2>4 DEF UploadsShape, ChunkSet
<1>4. ASSUME NEW u \in Ids, NEW n \in ChunkSet(u), PutChunk(u, n)
      PROVE  UploadsShape'
  <2>1. \/ uploads' = uploads
        \/ uploads' = [uploads EXCEPT ![u].chunks = @ \cup {n}]
    BY <1>4 DEF PutChunk
  <2>2. uploads[u].state = "open" /\ UNCHANGED <<finishing, verified>>
    BY <1>4 DEF PutChunk, requests
  <2>3. QED
    BY <1>1, <1>4, <2>1, <2>2, UploadFields DEF UploadsShape, Ids, ChunkSet, Upload
<1>5. ASSUME NEW u \in Ids, Submit(u)
      PROVE  UploadsShape'
  BY <1>1, <1>5, UploadFields
     DEF Submit, Begin, SetState, UploadsShape, Ids, ChunkSet, Upload, States
<1>6. ASSUME NEW u \in Ids, StartJob(u)
      PROVE  UploadsShape'
  BY <1>1, <1>6, UploadFields
     DEF StartJob, Begin, SetState, EndJob, UploadsShape, Ids, ChunkSet, Upload, States
<1>7. ASSUME NEW u \in Ids, ReadChunks(u)
      PROVE  UploadsShape'
  BY <1>1, <1>7 DEF ReadChunks, transfers, UploadsShape, Ids, ChunkSet
<1>8. ASSUME NEW u \in Ids, PublishUpload(u)
      PROVE  UploadsShape'
  <2>1. PICK state \in States \ {"finalizing"}, job \in BOOLEAN :
           uploads' = [uploads EXCEPT ![u].state = state, ![u].job = job]
    <3>1. EndJob(u, "complete") \/ SetState(u, "queued") \/ SetState(u, "open")
      BY <1>8 DEF PublishUpload
    <3>2. uploads[u].job \in BOOLEAN
      BY <1>1, UploadFields
    <3>3. ASSUME NEW state, SetState(u, state)
          PROVE  uploads' = [uploads EXCEPT ![u].state = state, ![u].job = uploads[u].job]
      BY <1>1, <3>3, UploadFields DEF SetState, UploadsShape, Upload
    <3>4. CASE EndJob(u, "complete")
      <4>1. "complete" \in States \ {"finalizing"} /\ FALSE \in BOOLEAN
        BY DEF States
      <4>2. uploads' = [uploads EXCEPT ![u].state = "complete", ![u].job = FALSE]
        BY <3>4 DEF EndJob
      <4>3. QED
        BY ONLY <4>1, <4>2, Zenon
    <3>5. CASE SetState(u, "queued")
      <4>1. "queued" \in States \ {"finalizing"}
        BY DEF States
      <4>2. uploads' = [uploads EXCEPT ![u].state = "queued", ![u].job = uploads[u].job]
        BY <3>3, <3>5
      <4>3. QED
        BY ONLY <3>2, <4>1, <4>2, Zenon
    <3>6. CASE SetState(u, "open")
      <4>1. "open" \in States \ {"finalizing"}
        BY DEF States
      <4>2. uploads' = [uploads EXCEPT ![u].state = "open", ![u].job = uploads[u].job]
        BY <3>3, <3>6
      <4>3. QED
        BY ONLY <3>2, <4>1, <4>2, Zenon
    <3>7. QED
      BY <3>1, <3>4, <3>5, <3>6
  <2>2. End(u)
    BY <1>8 DEF PublishUpload
  <2>3. QED
    BY <1>1, <2>1, <2>2, UploadFields DEF End, UploadsShape, Ids, ChunkSet, Upload, States
<1>9. ASSUME NEW u \in Ids, FailUpload(u)
      PROVE  UploadsShape'
  BY <1>1, <1>9, UploadFields
     DEF FailUpload, SetState, EndJob, End, UploadsShape, Ids, ChunkSet, Upload, States
<1>10. ASSUME NEW u \in Ids, Cancel(u)
       PROVE  UploadsShape'
  BY <1>1, <1>10, UploadFields
     DEF Cancel, Without, requests, UploadsShape, Ids, ChunkSet
<1>11. ASSUME NEW u \in Ids, Expire(u)
       PROVE  UploadsShape'
  BY <1>1, <1>11, UploadFields
     DEF Expire, requests, UploadsShape, Ids, ChunkSet, Upload
<1>12. CASE Collect
  <2> DEFINE done == {u \in Ids : ~Staying(u) \/ uploads[u].state = "complete"}
             staged == staging_trash \cup Staged(done)
  <2>1. /\ uploads' = [u \in {v \in Ids : Staying(v)} |->
                [uploads[u] EXCEPT !.chunks = {n \in @ : <<u, n>> \notin staged}]]
        /\ finishing' = finishing /\ verified' = verified
    BY <1>12 DEF Collect
  <2> HIDE DEF staged
  <2>2. Ids' = {v \in Ids : Staying(v)}
    BY <2>1 DEF Ids
  <2>3. ASSUME NEW u \in Ids'
        PROVE  /\ u \in Ids /\ uploads'[u] \in Upload
               /\ uploads'[u].chunks \subseteq uploads[u].chunks
               /\ uploads'[u].state = uploads[u].state
               /\ uploads'[u].object = uploads[u].object
    BY <1>1, <2>1, <2>2, <2>3, UploadFields DEF Upload
  <2>4. uploads' \in [Ids' -> Upload]
    BY <2>1, <2>2, <2>3
  <2>5. \A u \in Ids : uploads[u].state = "finalizing" => u \in Ids'
    BY <2>2 DEF Staying
  <2>6. QED
    <3>1. finishing = {u \in Ids : uploads[u].state = "finalizing"} /\ verified \subseteq finishing
      BY <1>1 DEF UploadsShape
    <3>2. finishing' = {u \in Ids' : uploads'[u].state = "finalizing"} /\ verified' \subseteq finishing'
      BY <2>1, <2>3, <2>5, <3>1
    <3>3. \A u \in Ids' : uploads'[u].chunks \subseteq ChunkSet(u)'
      BY <1>1, <2>3 DEF UploadsShape, ChunkSet
    <3>4. QED
      BY <2>4, <3>2, <3>3 DEF UploadsShape
<1>13. CASE Crash
  <2>1. uploads' = [u \in Ids |-> Resumed(u)] /\ finishing' = {} /\ verified' = {}
    BY <1>13 DEF Crash, Forgotten
  <2>2. Ids' = Ids
    BY <2>1 DEF Ids
  <2>3. ASSUME NEW u \in Ids
        PROVE  /\ Resumed(u) \in Upload
               /\ Resumed(u).object = uploads[u].object
               /\ Resumed(u).chunks = uploads[u].chunks
               /\ Resumed(u).state # "finalizing"
    BY <1>1, <2>3, UploadFields DEF Resumed, Upload, States
  <2>4. QED
    BY <1>1, <2>1, <2>2, <2>3 DEF UploadsShape, ChunkSet
<1>14. CASE Restore
  BY <1>14 DEF Restore, Forgotten, UploadsShape, Ids
<1>15. QED
  BY <1>2, <1>3, <1>4, <1>5, <1>6, <1>7, <1>8, <1>9, <1>10, <1>11, <1>12, <1>13, <1>14,
     UploadsFrame DEF UploadNext, FinishNext

LEMMA RequestsShapeStep ==
  ASSUME Shape, [Next]_vars
  PROVE  RequestsShape'
<1>1. RequestsShape /\ BodiesShape
  BY DEF Shape
<1> USE DEF RequestsShape, Published
<1>2. CASE UNCHANGED <<putting, reading, gate>>
  BY <1>1, <1>2
<1>3. ASSUME NEW d \in Devices, NEW o \in Objects, BeginPut(d, o)
      PROVE  RequestsShape'
  <2> DEFINE new == [object |-> o, saw |-> rows[o]]
  <2>1. rows[o] \in {"none", "inline", "file"}
    BY <1>1 DEF BodiesShape
  <2>2. new \in Put /\ new # Nothing
    BY <2>1, ObjectsAssumption DEF Put
  <2>3. putting' = [putting EXCEPT ![d] = new] /\ gate' = gate /\ reading' = reading
    BY <1>3 DEF BeginPut, upkeep
  <2>4. \A e \in Devices : Published(e)' <=> Published(e)
    BY <1>1, <1>3, <2>1, <2>2, <2>3 DEF BeginPut
  <2>5. QED
    BY <1>1, <2>2, <2>3, <2>4
<1>4. ASSUME NEW d \in Devices, PutInline(d) \/ RefusePut(d)
      PROVE  RequestsShape'
  BY <1>1, <1>4 DEF PutInline, RefusePut, upkeep
<1>5. ASSUME NEW d \in Devices, PublishFile(d)
      PROVE  RequestsShape'
  <2> DEFINE new == [putting[d] EXCEPT !.saw = "published"]
  <2>1. new \in Put /\ new # Nothing /\ new.saw = "published"
    BY <1>1, <1>5, PuttingFields, ObjectsAssumption DEF PublishFile, Put
  <2>2. putting' = [putting EXCEPT ![d] = new] /\ gate' = "put" /\ reading' = reading
    BY <1>1, <1>5, PuttingFields DEF PublishFile, Put
  <2>3. \A e \in Devices : Published(e)' <=> e = d
    BY <1>1, <1>5, <2>1, <2>2 DEF PublishFile, GateFree
  <2>4. QED
    BY <1>1, <2>1, <2>2, <2>3
<1>6. ASSUME NEW d \in Devices, CommitFile(d)
      PROVE  RequestsShape'
  BY <1>1, <1>6 DEF CommitFile
<1>7. ASSUME NEW o \in Objects, LookUp(o)
      PROVE  RequestsShape'
  <2>1. reading' \in Reading
    BY <1>1, <1>7 DEF LookUp, Exists, BodiesShape, Reading
  <2>2. QED
    BY <1>1, <1>7, <2>1 DEF LookUp, upkeep
<1>8. CASE OpenBody
  BY <1>1, <1>8 DEF OpenBody, upkeep
<1>9. CASE Collect
  <2>1. reading' \in Reading \cup {Nothing}
    BY <1>1, <1>9 DEF Collect, Reading
  <2>2. QED
    BY <1>1, <1>9, <2>1 DEF Collect, GateFree
<1>10. CASE Reconcile \/ DrainTrash
  BY <1>1, <1>10 DEF Reconcile, DrainTrash, GateFree, requests
<1>11. CASE AbandonMaintenance
  BY <1>1, <1>11 DEF AbandonMaintenance, requests
<1>12. CASE Crash \/ Restore
  BY <1>1, <1>12 DEF Crash, Restore, Forgotten
<1>13. QED
  BY <1>2, <1>3, <1>4, <1>5, <1>6, <1>7, <1>8, <1>9, <1>10, <1>11, <1>12, RequestsFrame
     DEF PutNext, MaintenanceNext

LEMMA ShapeStep ==
  ASSUME Shape, [Next]_vars
  PROVE  Shape'
BY BodiesShapeStep, KeepersShapeStep, UploadsShapeStep, RequestsShapeStep, CustodyShapeStep
   DEF Shape

LEMMA ShapeIsTyped ==
  ASSUME Shape
  PROVE  TypeOK
BY DEF Shape, BodiesShape, KeepersShape, UploadsShape, RequestsShape, CustodyShape, Published,
       TypeOK

------------------------------------------------------------------------------
(* What is kept is there.                                                  *)

(* Every row has its body, and so has a file whose row is yet to come.     *)
RowsHaveBodies ==
  /\ \A o \in Objects : Exists(o) => Present(o)
  /\ \A d \in Devices : Published(d) => putting[d].object \in files

(* What is kept has a row, and the descriptors among it are indexed: a     *)
(* collection goes on from a descriptor by the index alone.                *)
KeptHasRows ==
  /\ \A o \in Kept : Exists(o)
  /\ (Named \cup pinned) \cap Descriptors \subseteq index

LEMMA PublicationFrame ==
  ASSUME Shape, [Next]_vars
  PROVE  \/ \E d \in Devices : PublishFile(d)
         \/ \A e \in Devices : Published(e)' => Published(e) /\ putting'[e] = putting[e]
<1>1. RequestsShape /\ BodiesShape
  BY DEF Shape
<1> DEFINE Stays == \A e \in Devices : Published(e)' => Published(e) /\ putting'[e] = putting[e]
<1>2. ASSUME UNCHANGED putting
      PROVE  Stays
  BY <1>2 DEF Published
<1>3. ASSUME NEW d \in Devices, NEW o \in Objects, BeginPut(d, o)
      PROVE  Stays
  BY <1>1, <1>3 DEF BeginPut, Published, RequestsShape, BodiesShape
<1>4. ASSUME NEW d \in Devices, PutInline(d) \/ CommitFile(d) \/ RefusePut(d)
      PROVE  Stays
  BY <1>1, <1>4 DEF PutInline, CommitFile, RefusePut, Published, RequestsShape
<1>5. CASE Crash \/ Restore
  BY <1>5 DEF Crash, Restore, Forgotten, Published
<1>6. ASSUME \/ \E o \in Objects : LookUp(o)
             \/ OpenBody \/ MaintenanceNext \/ AbandonMaintenance
      PROVE  Stays
  <2>1. UNCHANGED putting
    BY <1>6 DEF LookUp, OpenBody, MaintenanceNext, Collect, Reconcile, DrainTrash,
                AbandonMaintenance, requests
  <2>2. QED
    BY <1>2, <2>1
<1>7. QED
  BY <1>2, <1>3, <1>4, <1>5, <1>6, RequestsFrame DEF PutNext

(* A row is what it was until its object is collected.                     *)
LEMMA RowsStay ==
  ASSUME Shape, [Next]_vars, ~Collect, NEW o \in Objects, Exists(o)
  PROVE  rows'[o] = rows[o]
<1>1. BodiesShape /\ RequestsShape /\ UploadsShape
  BY DEF Shape
<1>2. CASE UNCHANGED <<rows, files, bodies, trash>>
  BY <1>2
<1>3. ASSUME NEW d \in Devices, PutInline(d)
      PROVE  rows'[o] = rows[o]
  BY <1>1, <1>3, PuttingFields DEF PutInline, put_inline, BodiesShape, Exists
<1>4. ASSUME NEW d \in Devices, PublishFile(d) \/ CommitFile(d)
      PROVE  rows'[o] = rows[o]
  BY <1>1, <1>4, PuttingFields DEF PublishFile, CommitFile, BodiesShape, Exists
<1>5. ASSUME NEW u \in Ids, PublishUpload(u)
      PROVE  rows'[o] = rows[o]
  BY <1>1, <1>5, UploadFields DEF PublishUpload, BodiesShape, Exists
<1>6. CASE Reconcile \/ DrainTrash \/ Restore
  BY <1>6 DEF Reconcile, DrainTrash, Restore
<1>7. QED
  BY <1>2, <1>3, <1>4, <1>5, <1>6, BodiesFrame

LEMMA RowsHaveBodiesStep ==
  ASSUME Shape, RowsHaveBodies, [Next]_vars
  PROVE  RowsHaveBodies'
<1>1. BodiesShape /\ RequestsShape /\ UploadsShape
  BY DEF Shape
<1> USE DEF RowsHaveBodies, Exists, Present
<1>2. CASE UNCHANGED <<rows, files, bodies, trash>>
  <2>1. \A d \in Devices : PublishFile(d) => putting'[d].object \in files'
    BY <1>1, PuttingFields DEF PublishFile, RequestsShape, Put
  <2>2. ASSUME NEW d \in Devices, PublishFile(d), NEW e \in Devices, Published(e)'
        PROVE  putting'[e].object \in files'
    BY <1>1, <2>1, <2>2 DEF PublishFile, RequestsShape, GateFree, Published
  <2>3. QED
    BY <1>2, <2>2, PublicationFrame
<1>3. ASSUME NEW d \in Devices, PutInline(d)
      PROVE  RowsHaveBodies'
  <2>1. \A e \in Devices : Published(e)' => Published(e) /\ putting'[e] = putting[e]
    BY <1>1, <1>3 DEF PutInline, Published, RequestsShape
  <2>2. QED
    BY <1>1, <1>3, <2>1, PuttingFields DEF PutInline, put_inline, BodiesShape
<1>4. ASSUME NEW d \in Devices, PublishFile(d)
      PROVE  RowsHaveBodies'
  <2>1. putting'[d].object \in files'
    BY <1>1, <1>4, PuttingFields DEF PublishFile, RequestsShape, Put
  <2>2. \A e \in Devices : Published(e)' => e = d
    BY <1>1, <1>4 DEF PublishFile, RequestsShape, GateFree, Published
  <2>3. \A o \in Objects : Exists(o)' => Present(o)'
    BY <1>4 DEF PublishFile
  <2>4. QED
    BY <2>1, <2>2, <2>3
<1>5. ASSUME NEW d \in Devices, CommitFile(d)
      PROVE  RowsHaveBodies'
  <2>1. putting[d].object \in files
    BY <1>5 DEF CommitFile, Published
  <2>2. \A e \in Devices : ~Published(e)'
    BY <1>1, <1>5 DEF CommitFile, RequestsShape, Published
  <2>3. QED
    BY <1>1, <1>5, <2>1, <2>2 DEF CommitFile, BodiesShape
<1>6. ASSUME NEW u \in Ids, PublishUpload(u)
      PROVE  RowsHaveBodies'
  <2>1. \A e \in Devices : Published(e)' <=> Published(e)
    BY <1>6 DEF PublishUpload, Published
  <2>2. \A o \in Objects : Exists(o)' => Present(o)'
    BY <1>1, <1>6, UploadFields DEF PublishUpload, BodiesShape
  <2>3. QED
    BY <1>6, <2>1, <2>2 DEF PublishUpload
<1>7. CASE Collect
  BY <1>1, <1>7 DEF Collect, BodiesShape, Published
<1>8. CASE Reconcile
  BY <1>8 DEF Reconcile, requests, Published
<1>9. CASE DrainTrash
  <2>1. gate # "put"
    BY <1>9 DEF DrainTrash, GateFree
  <2>2. \A d \in Devices : ~Published(d)'
    BY <1>1, <1>9, <2>1 DEF DrainTrash, requests, RequestsShape, Published
  <2>3. \A o \in Objects : Exists(o)' => Present(o)'
    BY <1>9 DEF DrainTrash, Removable
  <2>4. QED
    BY <2>2, <2>3
<1>10. CASE Restore
  BY <1>10 DEF Restore, Forgotten, Published
<1>11. QED
  BY <1>2, <1>3, <1>4, <1>5, <1>6, <1>7, <1>8, <1>9, <1>10, BodiesFrame

(* The ways of being kept.                                                 *)
LEMMA KeptCases ==
  ASSUME NEW o
  PROVE  o \in Kept <=>
           \/ o \in Named \/ o \in pinned
           \/ \E l \in leases : o = l[2]
           \/ \E h \in DOMAIN custody : custody[h] # 0 /\ o = h[2]
           \/ \E r \in (Named \cup pinned) \cap Descriptors : o \in Names[r]
BY DEF Kept

LEMMA KeptObjects ==
  ASSUME Shape
  PROVE  Kept \subseteq Objects
<1>1. Named \subseteq Objects
  BY DEF Shape, KeepersShape, Named
<1>2. QED
  BY <1>1, KeptCases, ObjectsAssumption DEF Shape, KeepersShape, CustodyShape, Descriptors

LEMMA CollectKeeps ==
  ASSUME Shape, KeptHasRows, Collect
  PROVE  KeptHasRows'
<1>1. BodiesShape /\ KeepersShape /\ CustodyShape
  BY DEF Shape
<1>2. PICK held \in SUBSET {l \in leases : l[1] \notin revoked}, shown \in {pinned, {}} :
         /\ leases' = held /\ pinned' = shown
         /\ index' = index \cap Closed(Roots(held) \cup shown)
         /\ rows' = [o \in Objects |-> IF o \in Closed(Roots(held) \cup shown) THEN rows[o]
                                      ELSE "none"]
         /\ units' = units /\ custody' = custody
  BY DEF Collect
<1> DEFINE alive == Closed(Roots(held) \cup shown)
<1>3. Named' = Named
  BY <1>2 DEF Named
<1>4. ASSUME NEW r \in (Named \cup shown) \cap Descriptors
      PROVE  r \in index /\ r \in alive /\ Names[r] \subseteq alive
  BY <1>2, <1>4 DEF KeptHasRows, Closed, Roots
<1>5. ASSUME NEW o, o \in Kept'
      PROVE  o \in Kept /\ o \in alive
  <2>1. CASE o \in Named \/ o \in shown
    BY <1>2, <2>1, KeptCases DEF Closed, Roots
  <2>2. CASE \E l \in held : o = l[2]
    BY <1>2, <2>2, KeptCases DEF Closed, Roots
  <2>3. CASE \E h \in DOMAIN custody : custody[h] # 0 /\ o = h[2]
    BY <1>2, <2>3, KeptCases DEF Closed, Roots
  <2>4. CASE \E r \in (Named \cup shown) \cap Descriptors : o \in Names[r]
    BY <1>2, <1>4, <2>4, KeptCases
  <2>5. \/ o \in Named' \/ o \in pinned'
        \/ \E l \in leases' : o = l[2]
        \/ \E h \in DOMAIN custody' : custody'[h] # 0 /\ o = h[2]
        \/ \E r \in (Named' \cup pinned') \cap Descriptors : o \in Names[r]
    BY <1>5 DEF Kept
  <2>6. QED
    BY <1>2, <1>3, <2>1, <2>2, <2>3, <2>4, <2>5
<1>6. \A o \in Kept' : Exists(o)'
  BY <1>1, <1>2, <1>5, KeptObjects DEF KeptHasRows, Exists
<1>7. (Named' \cup pinned') \cap Descriptors \subseteq index'
  BY <1>2, <1>3, <1>4
<1>8. QED
  BY <1>6, <1>7 DEF KeptHasRows

LEMMA KeptHasRowsStep ==
  ASSUME Shape, KeptHasRows, [Next]_vars
  PROVE  KeptHasRows'
<1>1. BodiesShape /\ KeepersShape /\ RequestsShape /\ UploadsShape /\ CustodyShape
  BY DEF Shape
<1>2. CASE Collect
  BY <1>2, CollectKeeps
<1>3. SUFFICES ASSUME ~Collect PROVE KeptHasRows'
  BY <1>2
<1>4. \A o \in Objects : Exists(o) => Exists(o)'
  BY <1>3, RowsStay DEF Exists
(* Whatever is kept anew has its row, and a descriptor is indexed.         *)
<1>5. ASSUME index \subseteq index',
             \A o \in Kept' : o \in Kept \/ (o \in Objects /\ Exists(o)'),
             \A o \in (Named' \cup pinned') \cap Descriptors :
                o \in Named \cup pinned \/ o \in index'
      PROVE  KeptHasRows'
  BY <1>1, <1>4, <1>5, KeptObjects DEF KeptHasRows
<1>6. ASSUME UNCHANGED units, UNCHANGED index, pinned' \subseteq pinned,
             \A l \in leases' : l \in leases \/ (l[2] \in Objects /\ Exists(l[2])'),
             \A h \in DOMAIN custody' : custody'[h] # 0 =>
                \/ h \in DOMAIN custody /\ custody[h] # 0
                \/ h[2] \in Objects /\ Exists(h[2])'
      PROVE  KeptHasRows'
  <2>1. Named' = Named
    BY <1>6 DEF Named
  <2>2. ASSUME NEW o \in Kept'
        PROVE  o \in Kept \/ (o \in Objects /\ Exists(o)')
    <3>1. \/ o \in Named' \/ o \in pinned'
          \/ \E l \in leases' : o = l[2]
          \/ \E h \in DOMAIN custody' : custody'[h] # 0 /\ o = h[2]
          \/ \E r \in (Named' \cup pinned') \cap Descriptors : o \in Names[r]
      BY <2>2 DEF Kept
    <3>2. QED
      BY <1>6, <2>1, <3>1, KeptCases
  <2>3. QED
    BY <1>5, <1>6, <2>1, <2>2
<1>7. CASE UNCHANGED keepers /\ UNCHANGED index
  BY <1>6, <1>7 DEF keepers
<1>8. ASSUME NEW d \in Devices, NEW o \in Objects, PinObject(d, o)
      PROVE  KeptHasRows'
  <2>1. Exists(o)'
    BY <1>4, <1>8 DEF PinObject
  <2>2. QED
    BY <1>6, <1>8, <2>1 DEF PinObject, stored
<1>9. ASSUME NEW d \in Devices, NEW o \in Objects, RetainObject(d, o)
      PROVE  KeptHasRows'
  <2>1. Exists(o)'
    BY <1>4, <1>9 DEF RetainObject, Present, Exists
  <2>2. \A h \in DOMAIN custody' : h \in DOMAIN custody /\ (custody'[h] = custody[h] \/ h = <<d, o>>)
    BY <1>1, <1>9 DEF RetainObject, CustodyShape
  <2>3. QED
    BY <1>6, <1>9, <2>1, <2>2 DEF RetainObject, stored
<1>10. ASSUME NEW d \in Devices, NEW i \in issued, ReleaseRetained(d, i)
       PROVE  KeptHasRows'
  <2>1. \A h \in DOMAIN custody' : custody'[h] # 0 => h \in DOMAIN custody /\ custody[h] # 0
    BY <1>1, <1>10 DEF ReleaseRetained, CustodyShape
  <2>2. QED
    BY <1>6, <1>10, <2>1 DEF ReleaseRetained, stored
<1>11. ASSUME NEW d \in Devices, Revoke(d) \/ Forget(d)
       PROVE  KeptHasRows'
  <2>1. \A h \in DOMAIN custody' : custody'[h] # 0 => h \in DOMAIN custody /\ custody[h] # 0
    BY <1>1, <1>11 DEF Revoke, Forget, CustodyShape
  <2>2. QED
    BY <1>6, <1>11, <2>1 DEF Revoke, Forget, stored
<1>12. ASSUME NEW d \in Devices, NEW k \in UnitKeys, NEW o \in Objects \cup {Nothing},
              Push(d, k, o)
       PROVE  KeptHasRows'
  <2>1. /\ rows' = rows /\ pinned' = pinned /\ leases' = leases /\ custody' = custody
        /\ units' = [units EXCEPT ![k] = o]
        /\ index' = index \cup (IF o \in Descriptors THEN {o} ELSE {})
    BY <1>12 DEF Push
  <2>2. o \in Descriptors => \A x \in {o} \cup Names[o] : Exists(x)
    BY <1>12 DEF Push, Prepared, Present, Exists
  <2>3. o # Nothing => Exists(o)
    <3>1. CASE o \in Descriptors
      BY <2>2, <3>1
    <3>2. CASE o \notin Descriptors /\ o # Nothing
      <4>1. <<d, o>> \in leases
        BY <1>12, <3>2 DEF Push
      <4>2. QED
        BY <4>1, KeptCases DEF KeptHasRows
    <3>3. QED
      BY <3>1, <3>2
  <2>4. Named' \subseteq Named \cup ({o} \ {Nothing})
    BY <1>1, <2>1 DEF Named, KeepersShape
  <2>5. ASSUME NEW x \in Kept'
        PROVE  x \in Kept \/ (x \in Objects /\ Exists(x)')
    <3>1. \/ x \in Named' \/ x \in pinned'
          \/ \E l \in leases' : x = l[2]
          \/ \E h \in DOMAIN custody' : custody'[h] # 0 /\ x = h[2]
          \/ \E r \in (Named' \cup pinned') \cap Descriptors : x \in Names[r]
      BY <2>5 DEF Kept
    <3>2. CASE x = o /\ o # Nothing
      BY <2>1, <2>3, <3>2 DEF Exists
    <3>3. CASE o \in Descriptors /\ x \in Names[o]
      BY <2>1, <2>2, <3>3, ObjectsAssumption DEF Exists
    <3>4. QED
      BY <2>1, <2>4, <3>1, <3>2, <3>3, KeptCases
  <2>6. QED
    BY <1>5, <2>1, <2>4, <2>5
<1>13. ASSUME NEW d \in Devices, PutInline(d)
       PROVE  KeptHasRows'
  <2>1. putting[d].object \in Objects /\ rows'[putting[d].object] # "none"
    BY <1>1, <1>13, PuttingFields DEF PutInline, put_inline, Exists, BodiesShape
  <2>2. \A l \in leases' : l \in leases \/ l = <<d, putting[d].object>>
    BY <1>13 DEF PutInline
  <2>3. QED
    BY <1>6, <1>13, <2>1, <2>2 DEF PutInline, Exists
<1>14. ASSUME NEW d \in Devices, CommitFile(d)
       PROVE  KeptHasRows'
  <2>1. putting[d].object \in Objects
    BY <1>1, <1>14, PuttingFields DEF CommitFile
  <2>2. \A l \in leases' : l \in leases \/ (l[2] = putting[d].object /\ Exists(l[2])')
    BY <1>1, <1>14, <2>1 DEF CommitFile, Exists, BodiesShape
  <2>3. QED
    BY <1>6, <1>14, <2>1, <2>2 DEF CommitFile
<1>15. ASSUME NEW d \in Devices, CreateStatePin(d)
       PROVE  KeptHasRows'
  <2>1. pinned' = pinned \cup Named /\ UNCHANGED <<units, leases, custody, index, rows>>
    BY <1>15 DEF CreateStatePin, stored
  <2>2. Named' = Named
    BY <2>1 DEF Named
  <2>3. Kept' = Kept
    BY <2>1, <2>2 DEF Kept
  <2>4. QED
    BY <1>5, <2>1, <2>2, <2>3
<1>16. ASSUME NEW u \in Ids, PublishUpload(u)
       PROVE  KeptHasRows'
  <2>1. uploads[u].object \in Objects
    BY <1>1, <1>16, UploadFields
  <2>2. \A l \in leases' : l \in leases \/ (l[2] = uploads[u].object /\ Exists(l[2])')
    BY <1>1, <1>16, <2>1 DEF PublishUpload, Exists, BodiesShape
  <2>3. QED
    BY <1>6, <1>16, <2>1, <2>2 DEF PublishUpload
<1>17. CASE Restore
  BY <1>6, <1>17 DEF Restore
<1>18. QED
  BY <1>3, <1>7, <1>8, <1>9, <1>10, <1>11, <1>12, <1>13, <1>14, <1>15, <1>16, <1>17, KeepersFrame

------------------------------------------------------------------------------
(* Readers.                                                                *)

(* A row a reader saw is still there unless its object was collected.      *)
RowsReadStay ==
  reading # Nothing /\ ~reading.lost => rows[reading.object] = reading.place

LEMMA ReadingFrame ==
  ASSUME Shape, [Next]_vars
  PROVE  \/ Collect \/ reading' = reading \/ reading' = Nothing
         \/ \E o \in Objects : LookUp(o)
<1>1. CASE UNCHANGED <<putting, reading, gate>>
  BY <1>1
<1>2. ASSUME \/ \E d \in Devices, o \in Objects : BeginPut(d, o)
             \/ \E d \in Devices : PutNext(d)
             \/ Reconcile \/ DrainTrash \/ AbandonMaintenance
      PROVE  reading' = reading
  BY <1>2 DEF PutNext, BeginPut, PutInline, PublishFile, CommitFile, RefusePut, Reconcile,
              DrainTrash, AbandonMaintenance, requests
<1>3. CASE OpenBody \/ Crash \/ Restore
  BY <1>3 DEF OpenBody, Crash, Restore, Forgotten
<1>4. QED
  BY <1>1, <1>2, <1>3, RequestsFrame DEF MaintenanceNext

LEMMA RowsReadStayStep ==
  ASSUME Shape, RowsReadStay, [Next]_vars
  PROVE  RowsReadStay'
<1>1. BodiesShape /\ RequestsShape
  BY DEF Shape
<1>2. CASE Collect
  BY <1>1, <1>2 DEF Collect, RowsReadStay, RequestsShape, Reading, BodiesShape
<1>3. CASE ~Collect /\ reading' = reading
  <2>1. SUFFICES ASSUME reading # Nothing, ~reading.lost
                 PROVE  rows'[reading.object] = reading.place
    BY <1>3 DEF RowsReadStay
  <2>2. reading.object \in Objects /\ Exists(reading.object)
    BY <1>1, <2>1 DEF RequestsShape, Reading, RowsReadStay, Exists
  <2>3. QED
    BY <1>3, <2>1, <2>2, RowsStay DEF RowsReadStay
<1>4. ASSUME NEW o \in Objects, LookUp(o)
      PROVE  RowsReadStay'
  BY <1>4 DEF LookUp, stored, RowsReadStay
<1>5. CASE reading' = Nothing
  BY <1>5 DEF RowsReadStay
<1>6. QED
  BY <1>2, <1>3, <1>4, <1>5, ReadingFrame

LEMMA ReadersFind ==
  ASSUME Shape, RowsHaveBodies, RowsReadStay
  PROVE  ReadersFindWhatStays
BY DEF Shape, RequestsShape, Reading, RowsHaveBodies, RowsReadStay, Exists, Present,
       ReadersFindWhatStays

------------------------------------------------------------------------------
(* Custody.                                                                *)

LEMMA CustodyStep ==
  ASSUME Shape, CustodyStands, [Next]_vars
  PROVE  CustodyStands'
<1>1. CustodyShape
  BY DEF Shape
<1>2. \A i \in issued : i \in Retention
  BY <1>1 DEF CustodyShape
<1>3. CASE UNCHANGED <<custody, issued, asked>>
  BY <1>3 DEF CustodyStands
<1>4. ASSUME NEW d \in Devices, NEW o \in Objects, RetainObject(d, o)
      PROVE  CustodyStands'
  <2> DEFINE new == [id |-> Cardinality(issued) + 1, device |-> d, object |-> o]
  <2>1. /\ issued' = issued \cup {new} /\ asked' = asked
        /\ custody' = [custody EXCEPT ![<<d, o>>] = new.id]
    BY <1>4 DEF RetainObject
  <2>2. Cardinality(issued) \in Nat
    BY <1>1, FS_CardinalityType DEF CustodyShape
  <2>3. \A i \in issued : i.id < new.id
    BY <1>1, <1>2, <2>2 DEF CustodyShape, Retention
  <2>4. SUFFICES ASSUME NEW i \in issued', i.id \notin asked',
                        {j \in issued' : j.device = i.device /\ j.object = i.object /\ j.id > i.id} = {}
                 PROVE  custody'[<<i.device, i.object>>] = i.id
    BY DEF CustodyStands
  <2>5. CASE i = new
    BY <1>1, <2>1, <2>5 DEF CustodyShape
  <2>6. CASE i \in issued
    <3>1. <<i.device, i.object>> # <<d, o>>
      BY <2>1, <2>3, <2>4, <2>6
    <3>2. custody[<<i.device, i.object>>] = i.id
      BY <2>1, <2>4, <2>6 DEF CustodyStands
    <3>3. <<i.device, i.object>> \in Devices \X Objects
      BY <1>2, <2>6 DEF Retention
    <3>4. QED
      BY <1>1, <2>1, <3>1, <3>2, <3>3 DEF CustodyShape
  <2>7. QED
    BY <2>1, <2>4, <2>5, <2>6
<1>5. ASSUME NEW d \in Devices, NEW j \in issued, ReleaseRetained(d, j)
      PROVE  CustodyStands'
  <2>1. /\ issued' = issued /\ asked' = asked \cup {j.id}
        /\ custody' = [custody EXCEPT ![<<j.device, j.object>>] =
                         IF ReleasedBy(<<j.device, j.object>>, j.id) THEN 0 ELSE @]
    BY <1>5 DEF ReleaseRetained
  <2>2. ASSUME NEW i \in issued, custody[<<i.device, i.object>>] = i.id, i.id \notin asked'
        PROVE  custody'[<<i.device, i.object>>] = i.id
    BY <1>1, <1>2, <2>1, <2>2 DEF CustodyShape, Retention, ReleasedBy
  <2>3. QED
    BY <2>1, <2>2 DEF CustodyStands
<1>6. ASSUME NEW d \in Devices, Forget(d)
      PROVE  CustodyStands'
  <2>1. /\ issued' = issued
        /\ asked' = asked \cup {i.id : i \in {j \in issued : j.device = d}}
        /\ custody' = [h \in Devices \X Objects |-> IF h[1] = d THEN 0 ELSE custody[h]]
    BY <1>6 DEF Forget
  <2>2. ASSUME NEW i \in issued, i.id \notin asked'
        PROVE  custody'[<<i.device, i.object>>] = custody[<<i.device, i.object>>]
    BY <1>2, <2>1, <2>2 DEF Retention
  <2>3. QED
    BY <2>1, <2>2 DEF CustodyStands
<1>7. QED
  BY <1>3, <1>4, <1>5, <1>6, CustodyFrame

------------------------------------------------------------------------------
(* Uploads.                                                                *)

(* A row whose file staging_trash names was put while it did, a row or a   *)
(* file that is missing belongs to a chunk that was, and what was accepted *)
(* had its whole chunk set.                                                *)
NotedAreStale ==
  \A u \in Ids : \A n \in uploads[u].chunks : <<u, n>> \in staging_trash => <<u, n>> \in stale
ChunksHaveFiles ==
  \A u \in Ids : \A n \in uploads[u].chunks : <<u, n>> \in chunk_files \cup stale
AcceptedHaveRows ==
  \A u \in Ids : Accepted(u) =>
    \A n \in ChunkSet(u) : n \in uploads[u].chunks \/ <<u, n>> \in stale
StagingOK == NotedAreStale /\ ChunksHaveFiles /\ AcceptedHaveRows

LEMMA StagingFrame ==
  ASSUME [Next]_vars
  PROVE  \/ UNCHANGED <<transfers, revoked, stale>>
         \/ \E d \in Devices : Revoke(d)
         \/ \E d \in Devices, o \in Objects, u \in UploadIds : BeginUpload(d, o, u)
         \/ \E u \in Ids : UploadNext(u) \/ FinishNext(u)
         \/ MaintenanceNext \/ AbandonMaintenance \/ Crash \/ Restore
BY DEF Next, vars, keepers, transfers, upkeep, history, PutNext, BeginPut, PutInline, RefusePut,
       PublishFile, CommitFile, PinObject, RetainObject, ReleaseRetained, Forget, Push,
       CreateStatePin, LookUp, OpenBody

LEMMA StagingStep ==
  ASSUME Shape, StagingOK, [Next]_vars
  PROVE  StagingOK'
<1>1. UploadsShape /\ RequestsShape
  BY DEF Shape
<1> USE DEF StagingOK, NotedAreStale, ChunksHaveFiles, AcceptedHaveRows, Accepted, history
<1>2. CASE UNCHANGED <<transfers, revoked, stale>>
  BY <1>2 DEF transfers, Ids, Valid, ChunkSet
<1>3. ASSUME NEW d \in Devices, Revoke(d)
      PROVE  StagingOK'
  BY <1>3 DEF Revoke, transfers, upkeep, Ids, Valid, ChunkSet
<1>4. ASSUME NEW d \in Devices, NEW o \in Objects, NEW u \in UploadIds, BeginUpload(d, o, u)
      PROVE  StagingOK'
  BY <1>4 DEF BeginUpload, upkeep, keepers, Ids, Valid, ChunkSet
<1>5. ASSUME NEW u \in Ids, NEW n \in ChunkSet(u), PutChunk(u, n)
      PROVE  StagingOK'
  <2>1. /\ chunk_files' = chunk_files \cup {<<u, n>>}
        /\ UNCHANGED <<staging_trash, revoked>> /\ uploads[u].state = "open"
    BY <1>5 DEF PutChunk, keepers
  <2>2. CASE UNCHANGED <<uploads, stale>>
    BY <2>1, <2>2 DEF Ids, Valid, ChunkSet
  <2>3. CASE /\ uploads' = [uploads EXCEPT ![u].chunks = @ \cup {n}]
             /\ stale' = (stale \ {<<u, n>>}) \cup ({<<u, n>>} \cap staging_trash)
    <3>1. Ids' = Ids
      BY <1>1, <2>3 DEF Ids
    <3>2. \A v \in Ids : v # u => uploads'[v] = uploads[v]
      BY <1>1, <2>3 DEF UploadsShape
    <3>3. /\ uploads'[u].chunks = uploads[u].chunks \cup {n}
          /\ uploads'[u].object = uploads[u].object
          /\ uploads'[u].state = "open"
      BY <1>1, <2>1, <2>3, UploadFields DEF UploadsShape, Upload
    <3>4. NotedAreStale' /\ ChunksHaveFiles'
      BY <2>1, <2>3, <3>1, <3>2, <3>3
    <3>5. AcceptedHaveRows'
      BY <2>1, <2>3, <3>1, <3>2, <3>3 DEF Valid, ChunkSet
    <3>6. QED
      BY <3>4, <3>5
  <2>4. QED
    BY <1>5, <2>2, <2>3 DEF PutChunk
<1>6. ASSUME NEW u \in Ids, Submit(u)
      PROVE  StagingOK'
  <2>1. /\ AllVerified(u) /\ UNCHANGED <<chunk_files, staging_trash, revoked, stale>>
        /\ \/ uploads' = [uploads EXCEPT ![u].state = "finalizing"]
           \/ uploads' = [uploads EXCEPT ![u].state = "queued", ![u].job = TRUE]
    BY <1>6 DEF Submit, Begin, SetState, keepers
  <2>2. Ids' = Ids /\ \A v \in Ids : v # u => uploads'[v] = uploads[v]
    BY <1>1, <2>1 DEF Ids, UploadsShape
  <2>3. uploads'[u].chunks = uploads[u].chunks /\ uploads'[u].object = uploads[u].object
    BY <1>1, <2>1, UploadFields DEF UploadsShape, Upload
  <2>4. NotedAreStale' /\ ChunksHaveFiles'
    BY <2>1, <2>2, <2>3
  <2>5. AcceptedHaveRows'
    BY <2>1, <2>2, <2>3 DEF Valid, AllVerified, ChunkSet
  <2>6. QED
    BY <2>4, <2>5
<1>7. ASSUME NEW u \in Ids, StartJob(u)
      PROVE  StagingOK'
  BY <1>1, <1>7, UploadFields
     DEF StartJob, Begin, SetState, EndJob, upkeep, keepers, Ids, Valid, ChunkSet,
         UploadsShape, Upload
<1>8. ASSUME NEW u \in Ids, ReadChunks(u)
      PROVE  StagingOK'
  BY <1>2, <1>8 DEF ReadChunks, upkeep, keepers
<1>9. ASSUME NEW u \in Ids, PublishUpload(u)
       PROVE  StagingOK'
  <2>1. uploads[u].state = "finalizing"
    BY <1>1, <1>9 DEF PublishUpload, UploadsShape
  <2>2. QED
    BY <1>1, <1>9, <2>1, UploadFields
       DEF PublishUpload, SetState, EndJob, upkeep, Ids, Valid, ChunkSet,
           UploadsShape, Upload
<1>10. ASSUME NEW u \in Ids, FailUpload(u)
       PROVE  StagingOK'
  <2>1. uploads[u].state = "finalizing"
    BY <1>1, <1>10 DEF FailUpload, UploadsShape
  <2>2. QED
    BY <1>1, <1>10, <2>1, UploadFields
       DEF FailUpload, SetState, EndJob, upkeep, keepers, Ids, Valid, ChunkSet,
           UploadsShape, Upload
<1>11. ASSUME NEW u \in Ids, Cancel(u)
       PROVE  StagingOK'
  BY <1>1, <1>11, UploadFields
     DEF Cancel, Without, Staged, upkeep, keepers, Ids, Valid, ChunkSet
<1>12. ASSUME NEW u \in Ids, Expire(u)
       PROVE  StagingOK'
  BY <1>1, <1>12, UploadFields
     DEF Expire, upkeep, keepers, Ids, Valid, ChunkSet, UploadsShape, Upload
<1>13. CASE Collect
  <2> DEFINE done == {u \in Ids : ~Staying(u) \/ uploads[u].state = "complete"}
             staged == staging_trash \cup Staged(done)
  <2>1. /\ uploads' = [u \in {v \in Ids : Staying(v)} |->
                [uploads[u] EXCEPT !.chunks = {n \in @ : <<u, n>> \notin staged}]]
        /\ staging_trash' = staged
        /\ UNCHANGED <<chunk_files, revoked, stale>>
    BY <1>13 DEF Collect
  <2>2. \A u \in Ids : \A n \in uploads[u].chunks :
            <<u, n>> \in staged => u \in done \/ <<u, n>> \in stale
    BY <1>1 DEF Staged
  <2> HIDE DEF staged, done
  <2>3. ASSUME NEW u \in Ids'
        PROVE  /\ u \in Ids /\ Staying(u)
               /\ uploads'[u] = [uploads[u] EXCEPT !.chunks = {n \in @ : <<u, n>> \notin staged}]
    BY <2>1, <2>3 DEF Ids
  <2>4. ASSUME NEW u \in Ids'
        PROVE  /\ u \in Ids /\ Staying(u)
               /\ uploads'[u].chunks = {n \in uploads[u].chunks : <<u, n>> \notin staged}
               /\ uploads'[u].state = uploads[u].state
               /\ uploads'[u].object = uploads[u].object
               /\ uploads'[u].expired = uploads[u].expired
               /\ uploads'[u].device = uploads[u].device
    BY <1>1, <2>3, UploadFields DEF Upload
  <2>5. NotedAreStale' /\ ChunksHaveFiles'
    BY <2>1, <2>4
  <2>6. AcceptedHaveRows'
    <3>1. SUFFICES ASSUME NEW u \in Ids', Accepted(u)', NEW n \in ChunkSet(u)'
                   PROVE  n \in uploads'[u].chunks \/ <<u, n>> \in stale'
      OBVIOUS
    <3>2. u \in Ids /\ Staying(u) /\ uploads[u].state # "complete" /\ Accepted(u)
      BY <2>1, <2>4, <3>1 DEF Valid
    <3>3. u \notin done
      BY <3>2 DEF done
    <3>4. n \in uploads[u].chunks \/ <<u, n>> \in stale
      BY <2>4, <3>1, <3>2 DEF ChunkSet
    <3>5. QED
      BY <2>1, <2>2, <2>4, <3>1, <3>2, <3>3, <3>4
  <2>7. QED
    BY <2>5, <2>6
<1>14. CASE Reconcile
  BY <1>14 DEF Reconcile, Accounted, keepers, Ids, Valid, ChunkSet
<1>15. CASE DrainTrash
  <2>1. PICK left \in SUBSET (staging_trash \cap chunk_files) :
          /\ chunk_files' = chunk_files \ (staging_trash \ left)
          /\ staging_trash' = left
    BY <1>15 DEF DrainTrash
  <2>2. UNCHANGED <<uploads, revoked, stale>>
    BY <1>15 DEF DrainTrash, keepers
  <2>3. QED
    BY <2>1, <2>2 DEF Ids, Valid, ChunkSet
<1>16. CASE AbandonMaintenance
  BY <1>16 DEF AbandonMaintenance, transfers, keepers, Ids, Valid, ChunkSet
<1>17. CASE Crash
  <2>1. /\ uploads' = [u \in Ids |-> Resumed(u)] /\ Ids' = Ids
        /\ UNCHANGED <<chunk_files, staging_trash, revoked, stale>>
    BY <1>17 DEF Crash, keepers, Ids
  <2>2. ASSUME NEW u \in Ids
        PROVE  /\ uploads'[u].chunks = uploads[u].chunks
               /\ uploads'[u].object = uploads[u].object
               /\ uploads'[u].device = uploads[u].device
               /\ uploads'[u].expired = uploads[u].expired
               /\ uploads'[u].state # "finalizing"
               /\ uploads'[u].state = "queued" => uploads[u].state \in {"queued", "finalizing"}
    BY <1>1, <2>1, UploadFields DEF Resumed, Upload
  <2>3. QED
    BY <2>1, <2>2 DEF Valid, ChunkSet
<1>18. CASE Restore
  BY <1>18 DEF Restore, Ids
<1>19. QED
  BY <1>2, <1>3, <1>4, <1>5, <1>6, <1>7, <1>8, <1>9, <1>10, <1>11, <1>12, <1>13, <1>14,
     <1>15, <1>16, <1>17, <1>18, StagingFrame DEF UploadNext, FinishNext, MaintenanceNext

LEMMA StagingGivesStaleLosses ==
  ASSUME StagingOK
  PROVE  UploadsLoseOnlyStaleChunks
BY DEF StagingOK, ChunksHaveFiles, AcceptedHaveRows, UploadsLoseOnlyStaleChunks

------------------------------------------------------------------------------
(* The theorems.                                                           *)

LEMMA StoreInit == Init => RowsHaveBodies /\ KeptHasRows /\ RowsReadStay /\ CustodyStands
<1> SUFFICES ASSUME Init
             PROVE  RowsHaveBodies /\ KeptHasRows /\ RowsReadStay /\ CustodyStands
  OBVIOUS
<1>1. RowsHaveBodies /\ RowsReadStay /\ CustodyStands
  BY DEF Init, RowsHaveBodies, Exists, Published, RowsReadStay, CustodyStands
<1>2. Named = {}
  BY DEF Init, Named
<1>3. Kept = {}
  BY <1>2, KeptCases DEF Init
<1>4. QED
  BY <1>1, <1>2, <1>3 DEF Init, KeptHasRows

(* The whole invariant.                                                    *)
THEOREM StoreInvariance ==
  Spec => [](Shape /\ RowsHaveBodies /\ KeptHasRows /\ RowsReadStay /\ CustodyStands)
<1> DEFINE Inv == Shape /\ RowsHaveBodies /\ KeptHasRows /\ RowsReadStay /\ CustodyStands
<1>1. Init => Inv
  BY ShapeInit, StoreInit
<1>2. Inv /\ [Next]_vars => Inv'
  BY ShapeStep, RowsHaveBodiesStep, KeptHasRowsStep, RowsReadStayStep, CustodyStep
<1> HIDE DEF Inv
<1>3. Spec => []Inv
  BY <1>1, <1>2, PTL DEF Spec
<1>4. QED
  BY <1>3 DEF Inv

(* The tables, files and requests stay well formed whatever is put,        *)
(* uploaded, collected, interrupted and restored, and no two requests are  *)
(* between the file of a body and its row (objects_gate).                  *)
THEOREM StoreTypeCorrect == Spec => []TypeOK
<1>1. Shape => TypeOK
  BY ShapeIsTyped
<1>2. QED
  BY <1>1, StoreInvariance, PTL

(* Neither a collection between the steps of a put, nor a failure or crash *)
(* between a file and its row, nor a removal that comes late takes away a  *)
(* body that has a row, and what is kept has a row (maintain_at,           *)
(* drain_trash_locked, put_hashed_objects).                                *)
THEOREM BodiesStay == Spec => []HeldBodiesAreThere
<1>1. RowsHaveBodies /\ KeptHasRows => HeldBodiesAreThere
  BY DEF RowsHaveBodies, KeptHasRows, HeldBodiesAreThere
<1>2. QED
  BY <1>1, StoreInvariance, PTL

(* A reader that looked up a row before a put, a publication or a removal  *)
(* finds the body where it saw it (open_object, get_object).               *)
THEOREM ReadersFindBodies == Spec => []ReadersFindWhatStays
<1>1. Shape /\ RowsHaveBodies /\ RowsReadStay => ReadersFindWhatStays
  BY ReadersFind
<1>2. QED
  BY <1>1, StoreInvariance, PTL

(* A late release of an earlier retention, a release by a replacement, the *)
(* forgetting of another device and a restoration leave the custody that   *)
(* was granted last (release_retained_objects, forget_revoked_device).     *)
THEOREM CustodyHolds == Spec => []CustodyStands
<1>1. QED
  BY StoreInvariance, PTL

(* No restart, expiry, revocation, failed row or collection takes a row or *)
(* a file from an accepted upload, whatever removal fails and whichever    *)
(* maintenance is abandoned, but for a chunk that was put while            *)
(* staging_trash still named its file (submit_upload, put_upload_chunk,    *)
(* maintain_at, reconcile_orphans, drain_staging_trash).                   *)
THEOREM UploadsLoseOnlyStale == Spec => []UploadsLoseOnlyStaleChunks
<1>1. Init => StagingOK
  BY DEF Init, StagingOK, NotedAreStale, ChunksHaveFiles, AcceptedHaveRows, Ids
<1>2. Shape /\ StagingOK /\ [Next]_vars => StagingOK'
  BY StagingStep
<1>3. Spec => []Shape
  BY StoreInvariance, PTL
<1>4. StagingOK => UploadsLoseOnlyStaleChunks
  BY StagingGivesStaleLosses
<1>5. QED
  BY <1>1, <1>2, <1>3, <1>4, PTL DEF Spec
==============================================================================
