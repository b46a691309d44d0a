-------------------------- MODULE MCStorageSegments --------------------------
(* The runs of StorageSegments: a character and its name, whose value may  *)
(* have a body of its own.                                                 *)
EXTENDS StorageSegments, TLC

CONSTANTS a, v, c

exists == <<"exists", "character", c>>
name   == <<"character", c, "name">>
SegmentKeys == {exists, name}

(* One device names the same body again and again for a character that     *)
(* another one has deleted, compacts and cleans up.                        *)
Revival ==
    [changes |-> <<{<<name, a>>}, {<<exists, Deleted>>}>>, segments |-> <<3, 1>>,
     maintainers |-> {2}, readers |-> {}, names |-> {1, 2}, failures |-> 0, time |-> 2]

(* A device names a body it received; the first one has replaced it.       *)
Borrowing ==
    [changes |-> <<{<<name, a>>, <<name, v>>}, {<<name, a>>}>>, segments |-> <<2, 1>>,
     maintainers |-> {1}, readers |-> {2}, names |-> {1}, failures |-> 0, time |-> 2]

(* A device receives what another one compacted and deleted.               *)
Catching ==
    [changes |-> <<{}, {<<name, v>>, <<exists, Deleted>>}>>, segments |-> <<0, 3>>,
     maintainers |-> {2}, readers |-> {1}, names |-> {1, 2}, failures |-> 0, time |-> 2]

(* Two devices compact at once what one of them compacted and cleaned up.  *)
Meeting ==
    [changes |-> <<{<<name, v>>}, {<<exists, Deleted>>}>>, segments |-> <<1, 1>>,
     maintainers |-> {1, 2}, readers |-> {}, names |-> {1, 2, 3}, failures |-> 0, time |-> 2]

(* A character is deleted on one device and written again on the other.    *)
Undoing ==
    [changes |-> <<{<<exists, Deleted>>}, {<<name, v>>, <<exists, v>>}>>, segments |-> <<1, 2>>,
     maintainers |-> {1, 2}, readers |-> {}, names |-> {1, 2}, failures |-> 1, time |-> 0]

SegmentWorks == {Revival, Borrowing, Catching, Meeting, Undoing}

(* A publisher learns late that its segment landed.                        *)
Settling ==
    [changes |-> <<{<<name, a>>}, {<<name, v>>}>>, segments |-> <<2, 1>>,
     maintainers |-> {2}, readers |-> {}, names |-> {1}, failures |-> 0, time |-> 2]
SettlingWorks == {Settling}
==============================================================================
