---------------------------- MODULE WriterClaims ----------------------------
(***************************************************************************)
(* How a registration comes by its writer before it publishes: it binds    *)
(* the writer its installation already has, or claims a new one and        *)
(* retires the registration it replaces in the same transaction.           *)
(***************************************************************************)
EXTENDS LwwServer

CONSTANTS
    Authorizations,   \* the identities of the user's consents to a claim
    NoDevice          \* a claim without a former registration

ASSUME NoDeviceAssumption == NoDevice \notin DeviceIds

(* A claim names the former registration by its secret token, which exists *)
(* from that registration on.                                              *)
ClaimRequest == [authorization : Authorizations, writer : Writers,
                 former : DeviceIds \cup {NoDevice}]

VARIABLE device_writer_claims   \* the claim of every device that made one
claimVars == <<vars, device_writer_claims>>

ClaimsInit == Init /\ device_writer_claims = << >>

UsedByOperation(d) == \E id \in DOMAIN operations : id[1] = d      \* mutant: binding forgotten
RegistrationUsed(d) ==
    \/ \E w \in DOMAIN writers : writers[w] = d
    \/ \E id \in DOMAIN operations : id[1] = d

WriterHasVersions(w) == \E id \in DOMAIN writer_versions : id[2].writer = w   \* mutant
WriterKnown(w) ==
    \/ w \in DOMAIN writers
    \/ \E id \in DOMAIN writer_versions : id[2].writer = w

(* INSERT INTO writers.                                                    *)
GiveWriter(w, d) ==
    writers' = [v \in DOMAIN writers \cup {w} |-> IF v = w THEN d ELSE writers[v]]

(* bind_device_writer; binding the own writer again changes nothing.       *)
BindDeviceWriter(d, w) ==
    /\ Registered(d)
    /\ w \notin DOMAIN writers
    /\ ~RegistrationUsed(d)
    /\ GiveWriter(w, d)
    /\ UNCHANGED <<now, head, contents, journal, operations, writer_versions, devices,
                   state_pins, next_pin, device_writer_claims>>

RevokeNobody(former) == UNCHANGED devices      \* mutant
RevokeFormer(former) ==
    devices' = [d \in DeviceIds |->
        IF d = former /\ devices[d].state = "active"
        THEN [devices[d] EXCEPT !.state = "revoked"] ELSE devices[d]]

(* claim_new_device_writer; a repeated claim is answered from its row.     *)
ClaimNewDeviceWriter(d, request) ==
    /\ Registered(d)
    /\ request.former \in DeviceIds => devices[request.former].state # "unused"
    /\ d \notin DOMAIN device_writer_claims
    /\ ~RegistrationUsed(d)
    /\ \A c \in DOMAIN device_writer_claims :
         device_writer_claims[c].authorization # request.authorization
    /\ ~WriterKnown(request.writer)
    /\ request.former # d
    /\ GiveWriter(request.writer, d)
    /\ device_writer_claims' = [c \in DOMAIN device_writer_claims \cup {d} |->
                                  IF c = d THEN request ELSE device_writer_claims[c]]
    /\ RevokeFormer(request.former)
    /\ UNCHANGED <<now, head, contents, journal, operations, writer_versions,
                   state_pins, next_pin>>

ClaimsNext ==
    \/ Next /\ UNCHANGED device_writer_claims
    \/ \E d \in DeviceIds :
         \/ \E w \in Writers : BindDeviceWriter(d, w)
         \/ \E request \in ClaimRequest : ClaimNewDeviceWriter(d, request)

ClaimsSpec == ClaimsInit /\ [][ClaimsNext]_claimVars

------------------------------------------------------------------------------
(* Properties.                                                             *)

ClaimsTypeOK ==
    /\ TypeOK
    /\ IsTable(device_writer_claims, DeviceIds, ClaimRequest)

(* The writer in a claim's receipt stays the writer of that device: no     *)
(* push, binding or other claim takes it over, and no device gets two      *)
(* claims by one consent.                                                  *)
ClaimsOwnTheirWriter ==
    /\ \A d \in DOMAIN device_writer_claims :
         /\ device_writer_claims[d].writer \in DOMAIN writers
         /\ writers[device_writer_claims[d].writer] = d
    /\ \A c, d \in DOMAIN device_writer_claims :
         device_writer_claims[c].authorization = device_writer_claims[d].authorization => c = d

(* After a claim that replaces a registration, nothing more is published,  *)
(* refused or cancelled in the name of the one it replaced.                *)
FormerDevicesAreSilent ==
    [][\A id \in DOMAIN operations' \ DOMAIN operations :
         \A d \in DOMAIN device_writer_claims : device_writer_claims[d].former # id[1]]_claimVars
=============================================================================
