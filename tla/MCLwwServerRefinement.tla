----------------------- MODULE MCLwwServerRefinement -----------------------
(* Three scenes.  "join": a character with one conversation, and plugin      *)
(* storage with and without byte parts beside the switch of the level,     *)
(* pushed in every order by two devices, with maintenance in between.      *)
(* "tree": a character, one conversation of it and its messages, written   *)
(* and deleted in pushes of one or two changes.  "retention": all that a   *)
(* store can do with two versions of one unit, one of them ahead of the     *)
(* clock at first, until its answers are forgotten and it is restored.      *)
EXTENDS LwwServerRefinement, TLC

CONSTANTS v1, v2, del

existence    == <<"exists", "character", "a">>
conversation == <<"exists", "conversation", "a", "x">>
messages     == <<"messages", "a", "x">>
plugin       == <<"plugin-local", "p", "local", "k">>

Put(key, t, w, v) ==
    [key |-> key, stamp |-> [physical |-> t, logical |-> 0, writer |-> w], value |-> v]

JoinKeys == {existence, conversation, messages, plugin, FormatKey}
JoinRequests ==
    {[writer |-> 1, changes |-> b] : b \in {
        <<Put(existence, 1, 1, v1), Put(messages, 1, 1, v1)>>,
        <<Put(existence, 0, 1, del)>>,
        <<Put(conversation, 1, 1, del), Put(messages, 2, 1, v2)>>,
        <<Put(FormatKey, 1, 1, 2), Put(plugin, 1, 1, v2)>>}}
    \cup
    {[writer |-> 2, changes |-> b] : b \in {
        <<Put(existence, 1, 2, v2), Put(conversation, 1, 2, v1)>>,
        <<Put(existence, 1, 2, del), Put(conversation, 0, 2, del)>>,
        <<Put(FormatKey, 0, 2, 2)>>,
        <<Put(plugin, 0, 2, v2)>>}}

(* One change, or two in either order, published by one of two writers.    *)
Bodies(changes) ==
    {<<c>> : c \in changes} \cup {p \in changes \X changes : p[1].key # p[2].key}
TreeChanges ==
    {Put(existence, 1, 1, del), Put(existence, 2, 1, v1), Put(existence, 2, 2, del),
     Put(conversation, 1, 1, v1), Put(conversation, 2, 2, del),
     Put(messages, 1, 1, v1)}
TreeRequests == {[writer |-> 1, changes |-> b] : b \in Bodies(TreeChanges)}
RetentionRequests ==
    {[writer |-> 1, changes |-> <<Put(plugin, 0, 1, v1)>>],
     [writer |-> 2, changes |-> <<Put(plugin, 3, 2, v1)>>]}
SceneRequests == JoinRequests \cup TreeRequests \cup RetentionRequests

VARIABLE scene

(* Two devices, each with two operations, and maintenance: the steps that   *)
(* touch units or the versions seen, without the refusals.                  *)
JoinNext ==
    \/ \E d \in DeviceIds : AddDevice(d)
    \/ \E d \in DeviceIds, op \in OperationIds, r \in JoinRequests :
         /\ Cardinality({id[2] : id \in DOMAIN operations} \cup {op}) <= 2
         /\ AcceptPush(d, op, r, FALSE)
    \/ Maintain({})
    \/ Tick

(* One device with three pushes, and full reads begun in between.           *)
TreeNext ==
    \E d \in DeviceIds :
        \/ Active = {} /\ AddDevice(d)
        \/ CreateStatePin(d)
        \/ \E op \in OperationIds, r \in TreeRequests : AcceptPush(d, op, r, FALSE)

(* Each device with one operation.                                          *)
RetentionNext ==
    \/ \E d \in DeviceIds, r \in RetentionRequests, op \in OperationIds :
         /\ Cardinality({id[2] : id \in DOMAIN operations} \cup {op}) <= 1
         /\ \/ \E e \in BOOLEAN :
                  \/ AcceptPush(d, op, r, e)
                  \/ \E sound \in BOOLEAN : RefusePush(d, op, r, e, sound)
            \/ CancelOperation(d, op, r)
    \/ \E d \in DeviceIds :
         \/ \E seq \in 0 .. head.seq : Acknowledge(d, seq)
         \/ next_pin = 1 /\ CreateStatePin(d)
         \/ \E pin \in state_pins : ReleaseStatePin(d, pin)
         \/ AddDevice(d) \/ RevokeDevice(d)
    \/ \E holding \in SUBSET {d \in DeviceIds : devices[d].state = "revoked"} : Maintain(holding)
    \/ RotateRestoredEpoch
    \/ Tick

SceneInit == HistoryInit /\ scene \in {"join", "tree", "retention"}
SceneNext ==
    /\ \/ scene = "join" /\ JoinNext
       \/ scene = "tree" /\ TreeNext
       \/ scene = "retention" /\ RetentionNext
    /\ RecordAccepted
    /\ UNCHANGED scene
SceneSpec == SceneInit /\ [][SceneNext]_<<vars, accepted, scene>>

Perms == Permutations(OperationIds) \cup Permutations(DeviceIds)
=============================================================================
