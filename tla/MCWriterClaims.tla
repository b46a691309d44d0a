--------------------------- MODULE MCWriterClaims ---------------------------
(* Three registrations and two writers: joins, replacements and pushes of  *)
(* versions that either writer stamped.                                    *)
EXTENDS WriterClaims, TLC

CONSTANTS v1, del

plugin == <<"plugin-local", "p", "local", "k">>
Put(t, w) == [key |-> plugin, stamp |-> [physical |-> t, logical |-> 0, writer |-> w], value |-> v1]

ClaimKeys == {plugin}
PushedRequests ==
    {[writer |-> 1, changes |-> <<Put(0, 1)>>], [writer |-> 2, changes |-> <<Put(0, 2)>>],
     [writer |-> 1, changes |-> <<Put(0, 2)>>]}
Withdrawn == [writer |-> 1, changes |-> <<Put(0, 1)>>]

(* The steps that touch writers, claims, registrations and answers.         *)
JoinNext ==
    \/ /\ \/ \E d \in DeviceIds, op \in OperationIds, r \in Requests :
                AcceptPush(d, op, r, FALSE) \/ RefusePush(d, op, r, FALSE, TRUE)
          \/ \E d \in DeviceIds, op \in OperationIds : CancelOperation(d, op, Withdrawn)
          \/ \E d \in DeviceIds : AddDevice(d) \/ RevokeDevice(d) \/ CreateStatePin(d)
          \/ RotateRestoredEpoch
          \/ \E holding \in SUBSET DeviceIds : Maintain(holding)
       /\ UNCHANGED device_writer_claims
    \/ \E d \in DeviceIds :
         \/ \E w \in Writers : BindDeviceWriter(d, w)
         \/ \E request \in ClaimRequest : ClaimNewDeviceWriter(d, request)
JoinSpec == ClaimsInit /\ [][JoinNext]_claimVars

Perms == Permutations(DeviceIds) \cup Permutations(Authorizations)
=============================================================================
