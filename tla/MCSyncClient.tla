---------------------------- MODULE MCSyncClient ----------------------------
(* Small systems of devices, their commits and what others push.           *)
EXTENDS SyncClient, TLC

CONSTANTS v1, v2, del

plugin == <<"plugin-local", "p", "local", "k">>

OneKey == {plugin}
OneKeyOrder == <<plugin>>
OneKeyCommits == {[k \in {plugin} |-> v] : v \in {v1, v2}}
OneCommit == {[k \in {plugin} |-> v1]}
OneWriter == [d \in {1} |-> d]

Put(key, value, t) ==
    [key |-> key, value |-> value, stamp |-> [physical |-> t, logical |-> 0, writer |-> 2]]
Push(changes) == [writer |-> 2, changes |-> changes]

OneKeyRequests == {Push(<<Put(plugin, v1, 0)>>), Push(<<Put(plugin, v2, 1)>>)}
OneRequest == {Push(<<Put(plugin, v2, 0)>>)}

(* All devices have joined and nothing else has happened.                   *)
JoinedIn(epoch) ==
    /\ now = 0
    /\ head = [epoch |-> epoch, seq |-> 0, min_retained_seq |-> 0]
    /\ units = << >> /\ retired = {} /\ unit_parents = {}
    /\ journal = << >> /\ operations = << >>
    /\ writers = << >> /\ writer_versions = << >>
    /\ devices = [d \in DeviceIds |-> [state |-> "active", ack |-> 0, last_ack |-> Never]]
    /\ state_pins = {} /\ next_pin = 1
    /\ LanesInit
JoinedInit == JoinedIn(0)

JoinedSpec == JoinedInit /\ [][SystemNext]_systemVars
JoinedInterruptedSpec == JoinedInit /\ [][InterruptedNext]_systemVars
JoinedFairSpec == JoinedSpec /\ WF_systemVars(LaneStep)
=============================================================================
