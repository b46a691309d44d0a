------------------------- MODULE MCSyncClientScenes -------------------------
(* Two scenes, told apart by the epoch of the library.  In epoch 0 two      *)
(* devices with clocks that differ edit one unit and publish it, twice      *)
(* each.  In epoch 1 one device reads a conversation that is pushed in      *)
(* pieces, deleted and maintained, and edits it, with one publication at a  *)
(* time.                                                                   *)
EXTENDS MCSyncClient

CONSTANTS w1, w2

exists == <<"exists", "character", "c">>
conversation == <<"exists", "conversation", "c", "x">>
messages == <<"messages", "c", "x">>

ConversationKeys == {exists, conversation, messages}
ConversationOrder == <<exists, conversation, messages>>
ConversationCommits ==
    {[k \in {messages} |-> w2], [k \in {messages} |-> del], [k \in {conversation} |-> w2]}
OneMessages == {messages}

SceneKeys == OneKey \cup ConversationKeys
SceneOrder == OneKeyOrder \o ConversationOrder
SceneCommits == OneKeyCommits \cup ConversationCommits

TwoWriters == [d \in {1, 2} |-> d]

ConversationRequests ==
    {Push(<<Put(exists, w1, 1)>>), Push(<<Put(conversation, w1, 0)>>),
     Push(<<Put(messages, w1, 0)>>), Push(<<Put(exists, del, 0)>>)}

Reading == head.epoch = 1

EditOnce(d) ==
    \E commit \in OneKeyCommits, wall \in 0 .. MaxWall :
        /\ IssueStamp(wall, WriterOf[d], Seen(store[d])).logical = 0
        /\ Edit(d, commit, wall)
(* Device 1 may stop between the stamp of an edit and the edit.              *)
StopOnce ==
    \E commit \in OneKeyCommits, wall \in 0 .. MaxWall :
        /\ IssueStamp(wall, WriterOf[1], Seen(store[1])).logical = 0
        /\ InterruptEdit(1, commit, wall)

(* One publication at a time, with the whole set of operation ids.         *)
SendAlone(d) == SendStep(d) /\ (publication[d] # None \/ Unused(d) = OperationIds)

SceneNext ==
    \/ ReceiveStep(1)
    \/ \E m \in in_flight : DeliverPush(m)
    \/ /\ ~Reading
       /\ ReceiveStep(2) \/ \E d \in Clients : EditOnce(d) \/ SendStep(d)
    \/ /\ ~Reading
       /\ StopOnce \/ RecoverIntents(1)
    \/ /\ Reading
       /\ \/ \E commit \in ConversationCommits : Edit(1, commit, 0)
          \/ SendAlone(1)
          \/ \E r \in ConversationRequests : PushElsewhere(2, 1, r)
          \/ ServerStep
SceneSpec == (\E epoch \in {0, 1} : JoinedIn(epoch)) /\ [][SceneNext]_systemVars

(* Values are only compared.                                               *)
Perms == Permutations({v1, v2})
=============================================================================
