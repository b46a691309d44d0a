------------------------- MODULE WriterClaimsProofs -------------------------
(***************************************************************************)
(* Proofs about writer bindings and claims, for every number of devices,   *)
(* writers and consents and whatever else the store does in between.       *)
(***************************************************************************)
EXTENDS WriterClaims, LwwServerProofs

(* Every device that some claim names as the former one is past its active *)
(* life.  A claim revokes it in the transaction that records the claim,    *)
(* and no operation of the store brings a registration back.               *)
FormersAreRetired ==
    \A d \in DOMAIN device_writer_claims :
        device_writer_claims[d].former \in DeviceIds =>
            devices[device_writer_claims[d].former].state \in {"revoked", "purged"}

ClaimsInv ==
    /\ OneWriterPerDevice
    /\ ClaimsOwnTheirWriter
    /\ FormersAreRetired
    /\ DOMAIN device_writer_claims \subseteq DeviceIds
    /\ \A d \in DOMAIN device_writer_claims : device_writer_claims[d] \in ClaimRequest
    /\ DOMAIN devices = DeviceIds

------------------------------------------------------------------------------
(* What a step of the store keeps of the writers and registrations.        *)

(* No operation of the store takes a writer from its device.               *)
LEMMA NextKeepsWriters ==
  ASSUME [Next]_vars
  PROVE  /\ DOMAIN writers \subseteq DOMAIN writers'
         /\ \A w \in DOMAIN writers : writers'[w] = writers[w]
<1>1. CASE \E d \in DeviceIds, op \in OperationIds, r \in Requests, e \in BOOLEAN :
             AcceptPush(d, op, r, e)
  BY <1>1 DEF AcceptPush
<1>2. CASE UNCHANGED writers
  BY <1>2
<1>3. QED
  BY <1>1, <1>2, StepCases
     DEF QuietStep, RefusePush, CancelOperation, Acknowledge, CreateStatePin, ReleaseStatePin,
         AddDevice, RevokeDevice, Tick, Maintain, RotateRestoredEpoch, vars

(* A registration that was revoked or purged never becomes active again.   *)
LEMMA NextKeepsRetired ==
  ASSUME [Next]_vars, DOMAIN devices = DeviceIds
  PROVE  /\ DOMAIN devices' = DeviceIds
         /\ \A d \in DeviceIds : devices[d].state \in {"revoked", "purged"}
                                   => devices'[d].state \in {"revoked", "purged"}
<1>1. CASE \E holding : Maintain(holding)
  BY <1>1 DEF Maintain
<1>2. CASE RotateRestoredEpoch
  BY <1>2 DEF RotateRestoredEpoch
<1>3. CASE UNCHANGED devices
  BY <1>3
<1>4. CASE QuietStep
  <2>1. ASSUME NEW d \in DeviceIds, AddDevice(d) \/ RevokeDevice(d)
        PROVE  /\ DOMAIN devices' = DeviceIds
               /\ \A c \in DeviceIds : devices[c].state \in {"revoked", "purged"}
                                        => devices'[c].state \in {"revoked", "purged"}
    BY <2>1 DEF AddDevice, RevokeDevice, Registered
  <2>2. ASSUME NEW d \in DeviceIds, NEW seq \in 0 .. head.seq, Acknowledge(d, seq)
        PROVE  /\ DOMAIN devices' = DeviceIds
               /\ \A c \in DeviceIds : devices[c].state \in {"revoked", "purged"}
                                        => devices'[c].state \in {"revoked", "purged"}
    BY <2>2 DEF Acknowledge, Registered
  <2>3. \/ UNCHANGED devices
        \/ \E d \in DeviceIds : \/ AddDevice(d) \/ RevokeDevice(d)
                               \/ \E seq \in 0 .. head.seq : Acknowledge(d, seq)
    BY <1>4 DEF QuietStep, RefusePush, CancelOperation, CreateStatePin, ReleaseStatePin, Tick
  <2>4. QED
    BY <1>3, <2>1, <2>2, <2>3
<1>5. CASE \E d \in DeviceIds, op \in OperationIds, r \in Requests, e \in BOOLEAN :
             AcceptPush(d, op, r, e)
  BY <1>3, <1>5 DEF AcceptPush
<1>6. QED
  BY <1>1, <1>2, <1>3, <1>4, <1>5, StepCases DEF vars

------------------------------------------------------------------------------
(* The inductive invariant.                                                *)

LEMMA InitClaimsInv == ClaimsInit => ClaimsInv
BY DEF ClaimsInit, Init, ClaimsInv, OneWriterPerDevice, ClaimsOwnTheirWriter, FormersAreRetired

(* The store's own operations keep the claims as they found them.          *)
LEMMA StoreKeepsClaims ==
  ASSUME ClaimsInv, [Next]_vars, UNCHANGED device_writer_claims
  PROVE  ClaimsInv'
<1>1. OneWriterPerDevice'
  BY NextKeepsOneWriter DEF ClaimsInv
<1>2. ClaimsOwnTheirWriter'
  BY NextKeepsWriters DEF ClaimsInv, ClaimsOwnTheirWriter
<1>3. FormersAreRetired'
  BY NextKeepsRetired DEF ClaimsInv, FormersAreRetired
<1>4. QED
  BY <1>1, <1>2, <1>3, NextKeepsRetired DEF ClaimsInv

(* A new writer goes to a device that has none.                            *)
LEMMA GivenWriters ==
  ASSUME OneWriterPerDevice, NEW d, NEW w, w \notin DOMAIN writers, ~RegistrationUsed(d), GiveWriter(w, d)
  PROVE  /\ OneWriterPerDevice'
         /\ DOMAIN writers' = DOMAIN writers \cup {w}
         /\ writers'[w] = d
         /\ \A v \in DOMAIN writers : writers'[v] = writers[v]
<1>1. writers' = [v \in DOMAIN writers \cup {w} |-> IF v = w THEN d ELSE writers[v]]
  BY DEF GiveWriter
<1>2. \A v \in DOMAIN writers : writers[v] # d
  BY DEF RegistrationUsed
<1>3. QED
  BY <1>1, <1>2 DEF OneWriterPerDevice

(* bind_device_writer gives the writer of no claim away.                   *)
LEMMA BindingKeepsClaims ==
  ASSUME ClaimsInv, NEW d \in DeviceIds, NEW w \in Writers, BindDeviceWriter(d, w)
  PROVE  ClaimsInv'
<1>1. /\ w \notin DOMAIN writers /\ ~RegistrationUsed(d) /\ GiveWriter(w, d)
      /\ UNCHANGED <<devices, device_writer_claims>>
  BY DEF BindDeviceWriter
<1>2. /\ OneWriterPerDevice'
      /\ DOMAIN writers' = DOMAIN writers \cup {w}
      /\ \A v \in DOMAIN writers : writers'[v] = writers[v]
  BY <1>1, GivenWriters DEF ClaimsInv
<1>3. ClaimsOwnTheirWriter'
  BY <1>1, <1>2 DEF ClaimsInv, ClaimsOwnTheirWriter
<1>4. FormersAreRetired'
  BY <1>1 DEF ClaimsInv, FormersAreRetired
<1>5. QED
  BY <1>1, <1>2, <1>3, <1>4 DEF ClaimsInv

(* claim_new_device_writer takes a writer nobody has and a consent nobody  *)
(* used, and leaves the former registration revoked.                       *)
LEMMA ClaimingKeepsClaims ==
  ASSUME ClaimsInv, NEW d \in DeviceIds, NEW request \in ClaimRequest,
         ClaimNewDeviceWriter(d, request),
         devices \in [DeviceIds -> Registration]
  PROVE  ClaimsInv'
<1>1. /\ request.former \in DeviceIds => devices[request.former].state # "unused"
      /\ d \notin DOMAIN device_writer_claims
      /\ ~RegistrationUsed(d)
      /\ \A c \in DOMAIN device_writer_claims :
           device_writer_claims[c].authorization # request.authorization
      /\ request.writer \notin DOMAIN writers
      /\ GiveWriter(request.writer, d)
      /\ device_writer_claims' = [c \in DOMAIN device_writer_claims \cup {d} |->
                                    IF c = d THEN request ELSE device_writer_claims[c]]
      /\ RevokeFormer(request.former)
  BY DEF ClaimNewDeviceWriter, WriterKnown
<1>2. /\ OneWriterPerDevice'
      /\ DOMAIN writers' = DOMAIN writers \cup {request.writer}
      /\ writers'[request.writer] = d
      /\ \A v \in DOMAIN writers : writers'[v] = writers[v]
  BY <1>1, GivenWriters DEF ClaimsInv
<1>3. /\ DOMAIN device_writer_claims' = DOMAIN device_writer_claims \cup {d}
      /\ device_writer_claims'[d] = request
      /\ \A c \in DOMAIN device_writer_claims : device_writer_claims'[c] = device_writer_claims[c]
  BY <1>1
<1>4. ClaimsOwnTheirWriter'
  <2>1. \A c \in DOMAIN device_writer_claims' :
          /\ device_writer_claims'[c].writer \in DOMAIN writers'
          /\ writers'[device_writer_claims'[c].writer] = c
    BY <1>2, <1>3 DEF ClaimsInv, ClaimsOwnTheirWriter
  <2>2. \A b, c \in DOMAIN device_writer_claims' :
          device_writer_claims'[b].authorization = device_writer_claims'[c].authorization => b = c
    BY <1>1, <1>3 DEF ClaimsInv, ClaimsOwnTheirWriter
  <2>3. QED
    BY <2>1, <2>2 DEF ClaimsOwnTheirWriter
<1>5. FormersAreRetired'
  <2>1. devices' = [c \in DeviceIds |->
          IF c = request.former /\ devices[c].state = "active"
          THEN [devices[c] EXCEPT !.state = "revoked"] ELSE devices[c]]
    BY <1>1 DEF RevokeFormer
  <2>2. \A c \in DeviceIds : devices[c].state \in {"revoked", "purged"}
                             => devices'[c].state \in {"revoked", "purged"}
    BY <2>1
  <2>3. request.former \in DeviceIds => devices'[request.former].state \in {"revoked", "purged"}
    BY <1>1, <2>1 DEF Registration
  <2>4. QED
    BY <1>3, <2>2, <2>3 DEF ClaimsInv, FormersAreRetired
<1>6. DOMAIN devices' = DeviceIds
  BY <1>1 DEF RevokeFormer
<1>7. QED
  BY <1>2, <1>3, <1>4, <1>5, <1>6 DEF ClaimsInv

------------------------------------------------------------------------------
(* Types.                                                                  *)

LEMMA GiveWriterTypes ==
  ASSUME IsTable(writers, Writers, DeviceIds), NEW d \in DeviceIds, NEW w \in Writers,
         GiveWriter(w, d)
  PROVE  IsTable(writers, Writers, DeviceIds)'
BY DEF GiveWriter, IsTable

LEMMA ClaimStepTypes ==
  ASSUME ClaimsTypeOK, NEW d \in DeviceIds,
         \/ \E w \in Writers : BindDeviceWriter(d, w)
         \/ \E request \in ClaimRequest : ClaimNewDeviceWriter(d, request)
  PROVE  ClaimsTypeOK'
<1>1. CASE \E w \in Writers : BindDeviceWriter(d, w)
  <2>1. PICK w \in Writers : BindDeviceWriter(d, w)
    BY <1>1
  <2>2. IsTable(writers, Writers, DeviceIds)'
    BY <2>1, GiveWriterTypes DEF BindDeviceWriter, ClaimsTypeOK, TypeOK
  <2>3. QED
    BY <2>1, <2>2 DEF BindDeviceWriter, ClaimsTypeOK, TypeOK, contents
<1>2. CASE \E request \in ClaimRequest : ClaimNewDeviceWriter(d, request)
  <2>1. PICK request \in ClaimRequest : ClaimNewDeviceWriter(d, request)
    BY <1>2
  <2>2. IsTable(writers, Writers, DeviceIds)'
    <3>1. request.writer \in Writers
      BY DEF ClaimRequest
    <3>2. QED
      BY <2>1, <3>1, GiveWriterTypes DEF ClaimNewDeviceWriter, ClaimsTypeOK, TypeOK
  <2>3. (devices \in [DeviceIds -> Registration])'
    BY <2>1 DEF ClaimNewDeviceWriter, RevokeFormer, Registration, ClaimsTypeOK, TypeOK
  <2>4. IsTable(device_writer_claims, DeviceIds, ClaimRequest)'
    BY <2>1 DEF ClaimNewDeviceWriter, ClaimsTypeOK, IsTable
  <2>5. TypeOK'
    BY <2>1, <2>2, <2>3 DEF ClaimNewDeviceWriter, ClaimsTypeOK, TypeOK, contents
  <2>6. QED
    BY <2>4, <2>5 DEF ClaimsTypeOK
<1>3. QED
  BY <1>1, <1>2

(* Every table, the claims among them, holds rows of its shape.            *)
THEOREM ClaimsTypeCorrect == ClaimsSpec => []ClaimsTypeOK
<1>1. ClaimsInit => ClaimsTypeOK
  BY InitTypes DEF ClaimsInit, ClaimsTypeOK, IsTable
<1>2. ClaimsTypeOK /\ [ClaimsNext]_claimVars => ClaimsTypeOK'
  <2> SUFFICES ASSUME ClaimsTypeOK, [ClaimsNext]_claimVars PROVE ClaimsTypeOK'
    OBVIOUS
  <2>1. CASE [Next]_vars /\ UNCHANGED device_writer_claims
    BY <2>1, NextTypes DEF ClaimsTypeOK, IsTable
  <2>2. QED
    BY <2>1, ClaimStepTypes DEF ClaimsNext, claimVars
<1>3. QED
  BY <1>1, <1>2, PTL DEF ClaimsSpec

------------------------------------------------------------------------------
(* Safety.                                                                 *)

LEMMA NextClaimsInv == ClaimsTypeOK /\ ClaimsInv /\ [ClaimsNext]_claimVars => ClaimsInv'
<1> SUFFICES ASSUME ClaimsTypeOK, ClaimsInv, [ClaimsNext]_claimVars PROVE ClaimsInv'
  OBVIOUS
<1>1. CASE [Next]_vars /\ UNCHANGED device_writer_claims
  BY <1>1, StoreKeepsClaims
<1>2. CASE \E d \in DeviceIds, w \in Writers : BindDeviceWriter(d, w)
  BY <1>2, BindingKeepsClaims
<1>3. CASE \E d \in DeviceIds, request \in ClaimRequest : ClaimNewDeviceWriter(d, request)
  BY <1>3, ClaimingKeepsClaims DEF ClaimsTypeOK, TypeOK
<1>4. QED
  BY <1>1, <1>2, <1>3 DEF ClaimsNext, claimVars

THEOREM ClaimsAreKept == ClaimsSpec => []ClaimsInv
BY InitClaimsInv, NextClaimsInv, ClaimsTypeCorrect, PTL DEF ClaimsSpec

(* The writer a claim's receipt names is that device's, and its consent    *)
(* nobody else's, for as long as the store lives.                          *)
THEOREM ClaimsAreExclusive == ClaimsSpec => []ClaimsOwnTheirWriter
BY ClaimsAreKept, PTL DEF ClaimsInv

(* Pushing, binding and claiming together still leave a registration with  *)
(* one writer.                                                             *)
THEOREM ClaimantsHaveOneWriter == ClaimsSpec => []OneWriterPerDevice
BY ClaimsAreKept, PTL DEF ClaimsInv

(* Only a registered device gets an answer.                                *)
LEMMA NewAnswersAreOfRegistered ==
  ASSUME Next, NEW id \in DOMAIN operations' \ DOMAIN operations
  PROVE  id[1] \in DeviceIds /\ Registered(id[1])
<1>1. CASE \E d \in DeviceIds, op \in OperationIds, r \in Requests :
             \/ \E e \in BOOLEAN : \/ AcceptPush(d, op, r, e)
                                  \/ \E sound \in BOOLEAN : RefusePush(d, op, r, e, sound)
             \/ CancelOperation(d, op, r)
  <2>1. PICK d \in DeviceIds, op \in OperationIds :
            /\ Registered(d)
            /\ \E receipt : SaveOperation(d, op, receipt)
    BY <1>1 DEF AcceptPush, RefusePush, CancelOperation, CanPush
  <2>2. id = <<d, op>>
    BY <2>1 DEF SaveOperation
  <2>3. QED
    BY <2>1, <2>2
<1>2. CASE \E holding : Maintain(holding)
  BY <1>2 DEF Maintain
<1>3. CASE UNCHANGED operations
  BY <1>3
<1>4. QED
  BY <1>1, <1>2, <1>3, StepCases
     DEF QuietStep, Acknowledge, CreateStatePin, ReleaseStatePin, AddDevice, RevokeDevice,
         Tick, RotateRestoredEpoch

(* Once a claim has replaced a registration, no step ever answers an       *)
(* operation in its name.                                                  *)
THEOREM FormersAreSilent == ClaimsSpec => FormerDevicesAreSilent
<1> DEFINE Silent ==
      \A id \in DOMAIN operations' \ DOMAIN operations :
        \A d \in DOMAIN device_writer_claims : device_writer_claims[d].former # id[1]
<1>1. ClaimsInv /\ [ClaimsNext]_claimVars => [Silent]_claimVars
  <2> SUFFICES ASSUME ClaimsInv, ClaimsNext PROVE Silent
    OBVIOUS
  <2>1. CASE Next
    <3>1. ASSUME NEW id \in DOMAIN operations' \ DOMAIN operations,
                 NEW d \in DOMAIN device_writer_claims, device_writer_claims[d].former = id[1]
          PROVE  FALSE
      BY <2>1, <3>1, NewAnswersAreOfRegistered DEF ClaimsInv, FormersAreRetired, Registered
    <3>2. QED
      BY <3>1
  <2>2. CASE UNCHANGED operations
    BY <2>2
  <2>3. QED
    BY <2>1, <2>2 DEF ClaimsNext, BindDeviceWriter, ClaimNewDeviceWriter
<1>2. QED
  BY <1>1, ClaimsAreKept, PTL DEF ClaimsSpec, FormerDevicesAreSilent
=============================================================================
