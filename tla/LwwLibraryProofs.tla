--------------------------- MODULE LwwLibraryProofs ---------------------------
(***************************************************************************)
(* The server's store implements the promise of LwwLibrary, for every set  *)
(* of keys, devices, operations and requests: the stored units are the     *)
(* join of the changes that were accepted.  What repeated requests and     *)
(* readers of pins rely on follows from that.                              *)
(***************************************************************************)
EXTENDS LwwServerRefinement, LwwServerProofs

------------------------------------------------------------------------------
(* The invariant.                                                          *)

(* A change that counts for its key: over a retirement only retirements.   *)
Counts(c, k) == c.key = k /\ (k \in retired => IsRetirement(c))

NotOutweighed(k, d) ==
  IF k = FormatKey THEN d.value <= units[k].value ELSE ~StampLess(units[k].stamp, d.stamp)

AcceptedShape ==
  /\ accepted \subseteq Change
  /\ \A c \in accepted : c.key = FormatKey => c.value \in Levels

(* LwwLibrary's IsJoin, with the retired of the store for those of the     *)
(* accepted changes, which they are.                                       *)
RetiredAreAccepted == \A k : k \in retired <=> \E c \in accepted : c.key = k /\ IsRetirement(c)
StoredAreAccepted ==
  \A k : k \in DOMAIN units <=>
           /\ \E c \in accepted : c.key = k
           /\ k \in retired \/ Parents(k) \cap retired = {}
VersionsAreAccepted ==
  \A k \in DOMAIN units : \E c \in accepted : Counts(c, k) /\ units[k] = VersionOf(c)
VersionsAreLatest ==
  \A k \in DOMAIN units : \A d \in accepted : Counts(d, k) => NotOutweighed(k, d)

JoinInv ==
  /\ AcceptedShape /\ RetiredAreAccepted /\ StoredAreAccepted
  /\ VersionsAreAccepted /\ VersionsAreLatest

Joined == Library!IsJoin(accepted, units)

LEMMA JoinIsLibrary ==
  ASSUME JoinInv
  PROVE  Joined
(* The promise speaks of units in the same words.                          *)
<1>1. /\ \A c : Library!IsRetirement(c) <=> IsRetirement(c)
      /\ \A c : Library!VersionOf(c) = VersionOf(c)
      /\ \A s, t : Library!StampLess(s, t) <=> StampLess(s, t)
      /\ Library!FormatKey = FormatKey
  BY DEF Library!IsRetirement, IsRetirement, Library!VersionOf, VersionOf,
         Library!StampLess, StampLess, Library!FormatKey, FormatKey
<1>2. \A k : Library!Parents(k) = Parents(k)
  BY DEF Library!Parents, Parents
<1>3. Library!RetiredBy(accepted) = retired
  BY <1>1 DEF JoinInv, RetiredAreAccepted, Library!RetiredBy
<1>4. DOMAIN units = Library!Present(accepted)
  BY <1>2, <1>3 DEF JoinInv, StoredAreAccepted, Library!Present
<1>5. ASSUME NEW k
      PROVE  Library!Candidates(accepted, k) = {c \in accepted : Counts(c, k)}
  BY <1>1, <1>3 DEF Library!Candidates, Counts
<1>6. ASSUME NEW k \in DOMAIN units
      PROVE  \E c \in Library!Candidates(accepted, k) :
               /\ units[k] = Library!VersionOf(c)
               /\ \A d \in Library!Candidates(accepted, k) : Library!Outweighs(c, d)
  <2>1. PICK c \in accepted : Counts(c, k) /\ units[k] = VersionOf(c)
    BY <1>6 DEF JoinInv, VersionsAreAccepted
  <2>2. units[k].stamp = c.stamp /\ units[k].value = c.value /\ c.key = k
    BY <2>1 DEF VersionOf, Counts
  <2>3. ASSUME NEW d \in accepted, Counts(d, k)
        PROVE  Library!Outweighs(c, d)
    BY <1>1, <1>6, <2>2, <2>3
       DEF JoinInv, VersionsAreLatest, NotOutweighed, Library!Outweighs
  <2>4. QED
    BY <1>1, <1>5, <2>1, <2>3
<1>7. QED
  BY <1>4, <1>6 DEF Joined, Library!IsJoin

------------------------------------------------------------------------------
(* A push that is accepted.                                                *)

(* What is stored came in accepted changes.                                *)
LEMMA StoredShape ==
  ASSUME StoreInv, JoinInv
  PROVE  /\ \A k \in DOMAIN units : units[k].stamp \in Stamp
         /\ FormatKey \in DOMAIN units => units[FormatKey].value \in Levels
         /\ \A c \in accepted : c.stamp \in Stamp
<1>1. ASSUME NEW k \in DOMAIN units
      PROVE  units[k].stamp \in Stamp
  BY <1>1 DEF StoreInv, TypeOK, IsTable, Version
<1>2. ASSUME FormatKey \in DOMAIN units
      PROVE  units[FormatKey].value \in Levels
  BY <1>2 DEF JoinInv, AcceptedShape, VersionsAreAccepted, Counts, VersionOf
<1>3. QED
  BY <1>1, <1>2 DEF JoinInv, AcceptedShape, Change

(* A change that does not win has nothing to add to what is stored.        *)
LEMMA LosersAreSpent ==
  ASSUME StoreInv, StoreInv', JoinInv, NEW request \in Request,
         NEW d, NEW op, NEW e, AcceptPush(d, op, request, e),
         NEW c \in ChangesOf(request), c.key \notin WonKeys(request)
  PROVE  /\ c.key = FormatKey => c.key \in DOMAIN units /\ c.value <= units[c.key].value
         /\ c.key # FormatKey =>
              \/ ~IsRetirement(c) /\ (c.key \in retired \/ Parents(c.key) \cap retired' # {})
              \/ /\ c.key \in DOMAIN units
                 /\ ~StampLess(units[c.key].stamp, c.stamp)
                 /\ IsRetirement(c) => c.key \in retired
<1>1. ~Wins(request, c)
  BY ChangeEffect
<1>2. CASE c.key = FormatKey
  <2>1. c.value \in Levels /\ ~(c.value > Level)
    BY <1>1, <1>2, ChangeEffect DEF Wins
  <2>2. FormatKey \in DOMAIN units
    BY <2>1 DEF Level, Levels, LIBRARY_FORMAT_MAX_LEVEL
  <2>3. units[FormatKey].value \in Levels
    BY <2>2, StoredShape
  <2>4. QED
    BY <1>2, <2>1, <2>2, <2>3 DEF Level, Levels, LIBRARY_FORMAT_MAX_LEVEL
<1>3. CASE c.key # FormatKey
  BY <1>3, LosersAreOutweighed
<1>4. QED
  BY <1>2, <1>3

LEMMA PushKeepsShape ==
  ASSUME StoreInv, StoreInv', JoinInv, NEW request \in Request,
         NEW d, NEW op, NEW e, AcceptPush(d, op, request, e),
         accepted' = accepted \cup ChangesOf(request)
  PROVE  AcceptedShape' /\ RetiredAreAccepted'
<1>1. AcceptedShape'
  BY ChangeEffect DEF JoinInv, AcceptedShape
<1>2. ASSUME NEW k, k \in retired'
      PROVE  \E c \in accepted' : c.key = k /\ IsRetirement(c)
  BY <1>2, KeptUnits DEF JoinInv, RetiredAreAccepted, Retiring
<1>3. ASSUME NEW c \in accepted', IsRetirement(c)
      PROVE  c.key \in retired'
  <2>1. CASE c \in accepted
    BY <1>3, <2>1, KeptUnits DEF JoinInv, RetiredAreAccepted
  <2>2. CASE c \in ChangesOf(request)
    BY <1>3, <2>2, ChangeEffect
  <2>3. QED
    BY <2>1, <2>2
<1>4. QED
  BY <1>1, <1>2, <1>3 DEF RetiredAreAccepted

LEMMA PushKeepsStored ==
  ASSUME StoreInv, StoreInv', JoinInv, NEW request \in Request,
         NEW d, NEW op, NEW e, AcceptPush(d, op, request, e),
         accepted' = accepted \cup ChangesOf(request)
  PROVE  StoredAreAccepted'
<1>1. ASSUME NEW k \in DOMAIN units'
      PROVE  /\ \E c \in accepted' : c.key = k
             /\ k \in retired' \/ Parents(k) \cap retired' = {}
  <2>1. k \in DOMAIN units \/ k \in WonKeys(request)
    BY <1>1, KeptUnits
  <2>2. k \in WonKeys(request) => \E c \in ChangesOf(request) : c.key = k
    BY DEF WonKeys, Winners, ChangesOf
  <2>3. k \in DOMAIN units => \E c \in accepted : c.key = k
    BY DEF JoinInv, StoredAreAccepted
  <2>4. k \in retired' \/ Parents(k) \cap retired' = {}
    BY <1>1, KeptUnits
  <2>5. QED
    BY <2>1, <2>2, <2>3, <2>4
<1>2. ASSUME NEW c \in accepted', c.key \in retired' \/ Parents(c.key) \cap retired' = {}
      PROVE  c.key \in DOMAIN units'
  <2>1. CASE c.key \in retired' \/ c.key \in WonKeys(request)
    BY <2>1, KeptUnits
  <2>2. CASE c.key \notin retired' /\ c \in accepted
    <3>1. Parents(c.key) \cap retired = {} /\ c.key \in DOMAIN units
      BY <1>2, <2>2, KeptUnits DEF JoinInv, StoredAreAccepted
    <3>2. QED
      BY <1>2, <2>2, <3>1, KeptUnits
  <2>3. CASE c.key \notin retired' /\ c \in ChangesOf(request) /\ c.key \notin WonKeys(request)
    <3>1. Parents(c.key) \cap retired' = {} /\ c.key \notin retired
      BY <1>2, <2>3, KeptUnits
    <3>2. c.key \in DOMAIN units
      BY <2>3, <3>1, LosersAreSpent
    <3>3. QED
      BY <3>1, <3>2, <2>3, KeptUnits
  <2>4. QED
    BY <2>1, <2>2, <2>3
<1>3. QED
  BY <1>1, <1>2 DEF StoredAreAccepted

(* The version of a unit that was pushed.                                  *)
LEMMA PushedIsLatest ==
  ASSUME StoreInv, StoreInv', JoinInv, NEW request \in Request,
         NEW d, NEW op, NEW e, AcceptPush(d, op, request, e),
         accepted' = accepted \cup ChangesOf(request), NEW k \in WonKeys(request)
  PROVE  /\ \E c \in accepted' : Counts(c, k)' /\ units'[k] = VersionOf(c)
         /\ \A x \in accepted' : Counts(x, k)' => NotOutweighed(k, x)'
<1>1. PICK c \in ChangesOf(request) : c.key = k
  BY DEF WonKeys, Winners, ChangesOf
<1>2. /\ units'[k] = VersionOf(c) /\ Wins(request, c) /\ c \in Change
      /\ k = FormatKey => c.value \in Levels
      /\ IsRetirement(c) => k \in retired'
  BY <1>1, ChangeEffect
<1>3. WellFormed(request)
  BY AcceptedIsWellFormed
<1>4. \A x \in ChangesOf(request) : x.key = k => x = c
  BY <1>1, <1>3, WinnerIsTheChange
<1>5. units'[k].stamp = c.stamp /\ units'[k].value = c.value /\ c.stamp \in Stamp
  BY <1>2 DEF VersionOf, Change
<1>6. k \in retired' => IsRetirement(c)
  <2>1. CASE k \in retired
    BY <1>1, <1>2, <2>1, FormatKeyFacts DEF Wins, Suppressed
  <2>2. CASE k \notin retired
    BY <1>4, <2>2, KeptUnits DEF Retiring
  <2>3. QED
    BY <2>1, <2>2
<1>7. ASSUME NEW x \in accepted', Counts(x, k)'
      PROVE  NotOutweighed(k, x)'
  <2>1. x.key = k /\ (k \in retired' => IsRetirement(x))
    BY <1>7 DEF Counts
  <2>2. CASE x \in ChangesOf(request)
    <3>1. x = c
      BY <1>4, <2>1, <2>2
    <3>2. QED
      BY <1>2, <1>5, <3>1, StampOrder DEF NotOutweighed, Levels, LIBRARY_FORMAT_MAX_LEVEL
  <2>3. CASE x \in accepted /\ k = FormatKey
    <3>1. FormatKey \in DOMAIN units /\ FormatKey \notin retired
      BY <2>1, <2>3, FormatKeyFacts DEF JoinInv, StoredAreAccepted
    <3>2. x.value \in Levels /\ x.value <= units[FormatKey].value
      BY <2>1, <2>3, <3>1
         DEF JoinInv, AcceptedShape, VersionsAreLatest, Counts, NotOutweighed
    <3>3. c.value > units[FormatKey].value
      BY <1>1, <1>2, <2>3, <3>1 DEF Wins, Level
    <3>4. units[FormatKey].value \in Levels /\ c.value \in Levels
      BY <1>2, <2>3, <3>1, StoredShape
    <3>5. QED
      BY <1>5, <2>3, <3>2, <3>3, <3>4 DEF NotOutweighed, Levels, LIBRARY_FORMAT_MAX_LEVEL
  <2>4. CASE x \in accepted /\ k # FormatKey
    <3>1. k \in retired' => k \in retired
      BY <2>1, <2>4 DEF JoinInv, RetiredAreAccepted
    <3>2. k \in DOMAIN units
      <4>1. CASE k \in retired
        BY <4>1, KeptUnits
      <4>2. CASE k \notin retired
        <5>1. ~IsRetirement(c)
          BY <1>2, <3>1, <4>2
        <5>2. Parents(k) \cap retired = {}
          BY <1>1, <1>2, <2>4, <5>1 DEF Wins, Suppressed
        <5>3. QED
          BY <2>1, <2>4, <5>2 DEF JoinInv, StoredAreAccepted
      <4>3. QED
        BY <4>1, <4>2
    <3>3. StampLess(units[k].stamp, c.stamp)
      BY <1>1, <1>2, <2>4, <3>1, <3>2 DEF Wins, ApplyRemote
    <3>4. ~StampLess(units[k].stamp, x.stamp)
      BY <2>1, <2>4, <3>2, KeptUnits DEF JoinInv, VersionsAreLatest, Counts, NotOutweighed
    <3>5. units[k].stamp \in Stamp /\ x.stamp \in Stamp
      BY <2>4, <3>2, StoredShape
    <3>6. ~StampLess(c.stamp, x.stamp)
      BY <1>5, <3>3, <3>4, <3>5, StampOrder
    <3>7. QED
      BY <1>5, <2>4, <3>6 DEF NotOutweighed
  <2>5. QED
    BY <2>2, <2>3, <2>4
<1>8. QED
  BY <1>1, <1>2, <1>6, <1>7 DEF Counts

(* The version of a unit that was not.                                     *)
LEMMA OthersStayLatest ==
  ASSUME StoreInv, StoreInv', JoinInv, NEW request \in Request,
         NEW d, NEW op, NEW e, AcceptPush(d, op, request, e),
         accepted' = accepted \cup ChangesOf(request),
         NEW k \in DOMAIN units', k \notin WonKeys(request)
  PROVE  /\ \E c \in accepted' : Counts(c, k)' /\ units'[k] = VersionOf(c)
         /\ \A x \in accepted' : Counts(x, k)' => NotOutweighed(k, x)'
<1>1. /\ k \in DOMAIN units /\ units'[k] = units[k]
      /\ k \in retired' <=> k \in retired
  BY KeptUnits
<1>2. \E c \in accepted' : Counts(c, k)' /\ units'[k] = VersionOf(c)
  BY <1>1 DEF JoinInv, VersionsAreAccepted, Counts
<1>3. ASSUME NEW x \in accepted', Counts(x, k)'
      PROVE  NotOutweighed(k, x)'
  <2>1. x.key = k /\ (k \in retired => IsRetirement(x))
    BY <1>1, <1>3 DEF Counts
  <2>2. CASE x \in accepted
    <3>1. NotOutweighed(k, x)
      BY <1>1, <2>1, <2>2 DEF JoinInv, VersionsAreLatest, Counts
    <3>2. QED
      BY <1>1, <3>1 DEF NotOutweighed
  <2>3. CASE x \in ChangesOf(request)
    <3>1. ~IsRetirement(x) => k \notin retired /\ Parents(k) \cap retired' = {}
      BY <1>1, <2>1, KeptUnits
    <3>2. NotOutweighed(k, x)
      BY <2>1, <2>3, <3>1, LosersAreSpent DEF NotOutweighed
    <3>3. QED
      BY <1>1, <3>2 DEF NotOutweighed
  <2>4. QED
    BY <2>2, <2>3
<1>4. QED
  BY <1>2, <1>3

LEMMA PushKeepsJoin ==
  ASSUME StoreInv, StoreInv', JoinInv, NEW request \in Request,
         NEW d, NEW op, NEW e, AcceptPush(d, op, request, e),
         accepted' = accepted \cup ChangesOf(request)
  PROVE  JoinInv'
<1>1. AcceptedShape' /\ RetiredAreAccepted' /\ StoredAreAccepted'
  BY PushKeepsShape, PushKeepsStored
<1>2. VersionsAreAccepted' /\ VersionsAreLatest'
  BY PushedIsLatest, OthersStayLatest DEF VersionsAreAccepted, VersionsAreLatest
<1>3. QED
  BY <1>1, <1>2 DEF JoinInv

------------------------------------------------------------------------------
(* The history, and the store under it.                                    *)

(* What was said in accepted operations is among the accepted changes.     *)
AnswersAreRecorded ==
  \A id \in DOMAIN operations :
    operations[id].outcome = "accepted" => ChangesOf(operations[id].digest) \subseteq accepted

HistoryInv == StoreInv /\ JoinInv /\ AnswersAreRecorded

LEMMA PushIsRecorded ==
  ASSUME NEW d, NEW op, NEW request, NEW e, AcceptPush(d, op, request, e), RecordAccepted,
         AnswersAreRecorded
  PROVE  accepted' = accepted \cup ChangesOf(request) /\ AnswersAreRecorded'
<1>1. /\ <<d, op>> \notin DOMAIN operations
      /\ DOMAIN operations' = DOMAIN operations \cup {<<d, op>>}
      /\ operations'[<<d, op>>].outcome = "accepted"
      /\ operations'[<<d, op>>].digest = request
      /\ \A id \in DOMAIN operations : operations'[id] = operations[id]
  BY DEF AcceptPush, CanPush, Answered, SaveOperation
<1>2. NewlyAccepted = {<<d, op>>}
  BY <1>1 DEF NewlyAccepted
<1>3. accepted' = accepted \cup ChangesOf(request)
  BY <1>1, <1>2 DEF RecordAccepted
<1>4. QED
  BY <1>1, <1>3 DEF AnswersAreRecorded

(* Every step is an accepted push, or leaves the library and the history.  *)
LEMMA HistoryFrame ==
  ASSUME AnswersAreRecorded, [HistoryNext]_<<vars, accepted>>
  PROVE  \/ \E d \in DeviceIds, op \in OperationIds, r \in Requests, e \in BOOLEAN :
               /\ AcceptPush(d, op, r, e)
               /\ accepted' = accepted \cup ChangesOf(r) /\ AnswersAreRecorded'
         \/ UNCHANGED <<contents, accepted>> /\ AnswersAreRecorded'
<1>1. CASE UNCHANGED <<vars, accepted>>
  BY <1>1 DEF vars, AnswersAreRecorded
<1>2. ASSUME NEW d \in DeviceIds, NEW op \in OperationIds, NEW r \in Requests, NEW e \in BOOLEAN,
             AcceptPush(d, op, r, e), RecordAccepted
      PROVE  accepted' = accepted \cup ChangesOf(r) /\ AnswersAreRecorded'
  BY <1>2, PushIsRecorded
<1>3. ASSUME RecordAccepted, NewlyAccepted = {}, UNCHANGED contents,
             \A id \in DOMAIN operations' \cap DOMAIN operations : operations'[id] = operations[id]
      PROVE  UNCHANGED <<contents, accepted>> /\ AnswersAreRecorded'
  BY <1>3 DEF RecordAccepted, NewlyAccepted, AnswersAreRecorded
<1>4. ASSUME RecordAccepted, UNCHANGED contents, UNCHANGED operations
      PROVE  UNCHANGED <<contents, accepted>> /\ AnswersAreRecorded'
  BY <1>3, <1>4 DEF NewlyAccepted
<1>5. ASSUME NEW holding, Maintain(holding), RecordAccepted
      PROVE  UNCHANGED <<contents, accepted>> /\ AnswersAreRecorded'
  BY <1>3, <1>5 DEF Maintain, NewlyAccepted
<1>6. ASSUME NEW d, NEW op, NEW r, NEW e, NEW sound, RecordAccepted,
             RefusePush(d, op, r, e, sound) \/ CancelOperation(d, op, r)
      PROVE  UNCHANGED <<contents, accepted>> /\ AnswersAreRecorded'
  <2>1. /\ UNCHANGED contents
        /\ <<d, op>> \notin DOMAIN operations
        /\ DOMAIN operations' = DOMAIN operations \cup {<<d, op>>}
        /\ operations'[<<d, op>>].outcome # "accepted"
        /\ \A id \in DOMAIN operations : operations'[id] = operations[id]
    BY <1>6 DEF RefusePush, CanPush, CancelOperation, Answered, SaveOperation
  <2>2. QED
    BY <1>3, <1>6, <2>1 DEF NewlyAccepted
<1>7. ASSUME RecordAccepted,
             \/ \E d \in DeviceIds :
                  \/ \E seq \in 0 .. head.seq : Acknowledge(d, seq)
                  \/ CreateStatePin(d)
                  \/ \E pin \in state_pins : ReleaseStatePin(d, pin)
                  \/ AddDevice(d) \/ RevokeDevice(d)
             \/ RotateRestoredEpoch \/ Tick
      PROVE  UNCHANGED <<contents, accepted>> /\ AnswersAreRecorded'
  BY <1>4, <1>7 DEF Acknowledge, CreateStatePin, ReleaseStatePin, AddDevice, RevokeDevice,
                    RotateRestoredEpoch, Tick
<1>8. QED
  BY <1>1, <1>2, <1>5, <1>6, <1>7, StepCases DEF HistoryNext, QuietStep

LEMMA HistoryStart == HistoryInit => HistoryInv
<1> SUFFICES ASSUME HistoryInit PROVE HistoryInv
  OBVIOUS
<1>1. StoreInv
  BY InitStoreInv DEF HistoryInit
<1>2. accepted = {} /\ retired = {} /\ DOMAIN units = {} /\ DOMAIN operations = {}
  BY DEF HistoryInit, Init
<1>3. JoinInv
  BY <1>2 DEF JoinInv, AcceptedShape, RetiredAreAccepted, StoredAreAccepted,
              VersionsAreAccepted, VersionsAreLatest
<1>4. QED
  BY <1>1, <1>2, <1>3 DEF HistoryInv, AnswersAreRecorded

LEMMA HistoryStep ==
  ASSUME HistoryInv, [HistoryNext]_<<vars, accepted>>
  PROVE  HistoryInv'
<1>1. [Next]_vars
  BY DEF HistoryNext, vars
<1>2. StoreInv'
  BY <1>1, NextStoreInv DEF HistoryInv
<1>3. CASE UNCHANGED <<contents, accepted>> /\ AnswersAreRecorded'
  <2>1. UNCHANGED <<units, retired, accepted>>
    BY <1>3 DEF contents
  <2>2. JoinInv'
    BY <2>1 DEF HistoryInv, JoinInv, AcceptedShape, RetiredAreAccepted, StoredAreAccepted,
                VersionsAreAccepted, VersionsAreLatest, Counts, NotOutweighed
  <2>3. QED
    BY <1>2, <1>3, <2>2 DEF HistoryInv
<1>4. ASSUME NEW d \in DeviceIds, NEW op \in OperationIds, NEW r \in Requests, NEW e \in BOOLEAN,
             AcceptPush(d, op, r, e), accepted' = accepted \cup ChangesOf(r), AnswersAreRecorded'
      PROVE  HistoryInv'
  <2>1. r \in Request
    BY RequestsAssumption
  <2>2. JoinInv'
    BY <1>2, <1>4, <2>1, PushKeepsJoin DEF HistoryInv
  <2>3. QED
    BY <1>2, <1>4, <2>2 DEF HistoryInv
<1>5. QED
  BY <1>3, <1>4, HistoryFrame DEF HistoryInv

------------------------------------------------------------------------------
(* The theorems.                                                           *)

(* The stored units are the join of the accepted changes, whatever comes   *)
(* in between.                                                             *)
THEOREM LibraryInvariance == HistorySpec => []HistoryInv
<1>1. HistoryInit => HistoryInv
  BY HistoryStart
<1>2. HistoryInv /\ [HistoryNext]_<<vars, accepted>> => HistoryInv'
  BY HistoryStep
<1>3. QED
  BY <1>1, <1>2, PTL DEF HistorySpec

(* The server implements the promise: the library is a function of the set *)
(* of changes it accepted, in whatever order, groups or repetitions they   *)
(* were pushed, and maintenance and restorations do not change it (push,   *)
(* apply_changes, maintain, rotate_restored_epoch).                        *)
THEOREM LibraryIsTheJoin == HistorySpec => ImplementsLibrary
<1>1. HistoryInit => Library!LibraryInit
  BY DEF HistoryInit, Init, Library!LibraryInit
<1>2. HistoryInv => Joined
  BY JoinIsLibrary DEF HistoryInv, Joined
<1>3. HistoryInv /\ Joined' /\ [HistoryNext]_<<vars, accepted>>
        => [Library!Accept]_Library!libraryVars
  <2>1. SUFFICES ASSUME HistoryInv, Joined', [HistoryNext]_<<vars, accepted>>
                 PROVE  Library!Accept \/ UNCHANGED Library!libraryVars
    OBVIOUS
  <2>2. accepted \subseteq accepted'
    BY <2>1, HistoryFrame DEF HistoryInv
  <2>3. Library!IsJoin(accepted', units')
    BY <2>1 DEF Joined, Library!IsJoin, Library!Present, Library!Candidates, Library!RetiredBy
  <2>4. QED
    BY <2>2, <2>3 DEF Library!Accept, Library!libraryVars
<1>4. QED
  BY <1>1, <1>2, <1>3, LibraryInvariance, PTL
     DEF HistorySpec, ImplementsLibrary, Library!LibrarySpec

LEMMA RecordedIsSpent ==
  ASSUME StoreInv, JoinInv, NEW request, ChangesOf(request) \subseteq accepted
  PROVE  Winners(request) = {}
<1>1. SUFFICES ASSUME NEW c \in ChangesOf(request), Wins(request, c)
               PROVE  FALSE
  BY DEF Winners, ChangesOf
<1>2. c \in accepted /\ c.stamp \in Stamp
  BY StoredShape
<1>3. CASE c.key = FormatKey
  <2>1. FormatKey \in DOMAIN units /\ FormatKey \notin retired
    BY <1>2, <1>3, FormatKeyFacts DEF JoinInv, StoredAreAccepted
  <2>2. c.value <= units[FormatKey].value
    BY <1>2, <1>3, <2>1 DEF JoinInv, VersionsAreLatest, Counts, NotOutweighed
  <2>3. c.value \in Levels /\ units[FormatKey].value \in Levels
    BY <1>2, <1>3, <2>1, StoredShape DEF JoinInv, AcceptedShape
  <2>4. QED
    BY <1>1, <1>3, <2>1, <2>2, <2>3 DEF Wins, Level, Levels, LIBRARY_FORMAT_MAX_LEVEL
<1>4. CASE c.key # FormatKey
  <2>1. IsRetirement(c) => c.key \in retired
    BY <1>2 DEF JoinInv, RetiredAreAccepted
  <2>2. ~Suppressed(request, c)
    BY <1>1, <1>4 DEF Wins
  <2>3. c.key \in retired \/ Parents(c.key) \cap retired = {}
    BY <2>1, <2>2 DEF Suppressed
  <2>4. c.key \in DOMAIN units
    BY <1>2, <2>3 DEF JoinInv, StoredAreAccepted
  <2>5. c.key \in retired => IsRetirement(c)
    BY <2>2 DEF Suppressed
  <2>6. ~StampLess(units[c.key].stamp, c.stamp)
    BY <1>2, <1>4, <2>4, <2>5 DEF JoinInv, VersionsAreLatest, Counts, NotOutweighed
  <2>7. QED
    BY <1>1, <1>4, <2>1, <2>4, <2>6 DEF Wins, ApplyRemote
<1>5. QED
  BY <1>3, <1>4

(* Whatever was accepted once would win nothing if its answer were lost    *)
(* and it were pushed again, also after maintenance has let its receipt    *)
(* and the versions it recorded expire (push_at, maintain_at).             *)
THEOREM RequestsAreSpent == HistorySpec => []AcceptedRequestsAreSpent
<1>1. HistoryInv => AcceptedRequestsAreSpent
  BY RecordedIsSpent DEF HistoryInv, AcceptedRequestsAreSpent
<1>2. QED
  BY <1>1, LibraryInvariance, PTL

------------------------------------------------------------------------------
(* Content for level 2 in a library of level 1.                            *)

HasNoParts(state) ==
  \A k \in DOMAIN state : ~(k[1] = "plugin-local" /\ state[k].value \in PartedValues)

LEMMA PushKeepsLevelOne ==
  ASSUME HistoryInv, HistoryInv', LevelOneHoldsNoParts, NEW request \in Request,
         NEW d, NEW op, NEW e, AcceptPush(d, op, request, e)
  PROVE  LevelOneHoldsNoParts'
<1>1. StoreInv /\ StoreInv' /\ JoinInv
  BY DEF HistoryInv
<1>2. FormatKey \in DOMAIN units' => units'[FormatKey].value \in Levels
  BY DEF HistoryInv, JoinInv, AcceptedShape, VersionsAreAccepted, Counts, VersionOf
<1>3. SUFFICES ASSUME FormatKey \notin DOMAIN units' PROVE LevelOneHoldsNoParts'
  BY <1>2 DEF LevelOneHoldsNoParts, Level, Levels, LIBRARY_FORMAT_MAX_LEVEL
<1>4. FormatKey \notin DOMAIN units
  BY <1>1, <1>3, KeptUnits, FormatKeyFacts
<1>5. Level = 1 /\ HasNoParts(units) /\ \A p \in state_pins : HasNoParts(p.units)
  BY <1>4 DEF Level, LevelOneHoldsNoParts, HasNoParts
<1>6. ASSUME NEW k \in WonKeys(request)
      PROVE  ~(k[1] = "plugin-local" /\ units'[k].value \in PartedValues)
  <2>1. PICK c \in ChangesOf(request) : c.key = k
    BY DEF WonKeys, Winners, ChangesOf
  <2>2. units'[k] = VersionOf(c)
    BY <1>1, <2>1, ChangeEffect
  <2>3. ~NeedsLevelTwo(c)
    BY <1>5, <2>1 DEF AcceptPush, Refused, RefusedChange
  <2>4. QED
    BY <2>1, <2>2, <2>3 DEF NeedsLevelTwo, VersionOf
<1>7. HasNoParts(units')
  BY <1>1, <1>5, <1>6, KeptUnits DEF HasNoParts
<1>8. state_pins' = state_pins
  BY DEF AcceptPush
<1>9. QED
  BY <1>5, <1>7, <1>8 DEF LevelOneHoldsNoParts, HasNoParts

(* The pins a step leaves are old ones, or one with the units there are.   *)
LEMMA PinFrame ==
  ASSUME TypeOK, [Next]_vars
  PROVE  \/ \E d \in DeviceIds, op \in OperationIds, r \in Requests, e \in BOOLEAN :
               AcceptPush(d, op, r, e)
         \/ \E holding : Maintain(holding)
         \/ RotateRestoredEpoch
         \/ /\ UNCHANGED <<head, contents, journal>>
            /\ \A p \in state_pins' :
              p \in state_pins \/ (p.start_seq = head.seq /\ p.units = units)
<1>1. CASE UNCHANGED vars
  BY <1>1 DEF vars
<1>2. CASE QuietStep
  <2>1. UNCHANGED <<head, contents, journal>>
    BY <1>2, QuietSteps
  <2>2. \A p \in state_pins' : p \in state_pins \/ (p.start_seq = head.seq /\ p.units = units)
    <3>1. ASSUME NEW d, CreateStatePin(d)
          PROVE  \A p \in state_pins' :
                   p \in state_pins \/ (p.start_seq = head.seq /\ p.units = units)
      BY <3>1 DEF CreateStatePin
    <3>2. CASE state_pins' \subseteq state_pins
      BY <3>2
    <3>3. (\E d : CreateStatePin(d)) \/ state_pins' \subseteq state_pins
      BY <1>2 DEF QuietStep, RefusePush, CancelOperation, Acknowledge,
                  ReleaseStatePin, AddDevice, RevokeDevice, Tick
    <3>4. QED
      BY <3>1, <3>2, <3>3
  <2>3. QED
    BY <2>1, <2>2
<1>3. QED
  BY <1>1, <1>2, StepCases

LEMMA LevelOneStep ==
  ASSUME HistoryInv, HistoryInv', LevelOneHoldsNoParts, [Next]_vars
  PROVE  LevelOneHoldsNoParts'
<1>1. ASSUME NEW d \in DeviceIds, NEW op \in OperationIds, NEW r \in Requests, NEW e \in BOOLEAN,
             AcceptPush(d, op, r, e)
      PROVE  LevelOneHoldsNoParts'
  BY <1>1, PushKeepsLevelOne, RequestsAssumption
<1>2. ASSUME UNCHANGED units, \A p \in state_pins' : p \in state_pins \/ p.units = units
      PROVE  LevelOneHoldsNoParts'
  BY <1>2 DEF LevelOneHoldsNoParts, Level
<1>3. ASSUME NEW holding, Maintain(holding)
      PROVE  LevelOneHoldsNoParts'
  BY <1>2, <1>3 DEF Maintain, contents, RemainingPins
<1>4. CASE RotateRestoredEpoch
  BY <1>2, <1>4 DEF RotateRestoredEpoch, contents
<1>5. QED
  BY <1>1, <1>2, <1>3, <1>4, PinFrame DEF contents, HistoryInv, StoreInv

------------------------------------------------------------------------------
(* Pins, and the journal from where they start.                            *)

(* What writers owe: one version to a stamp.  The store enforces it while  *)
(* it remembers the versions it saw, which it does not for ever.           *)
StampsNameVersions ==
  \A r, s \in Requests : \A c \in ChangesOf(r), x \in ChangesOf(s) :
    c.key = x.key /\ c.stamp = x.stamp => c.value = x.value

AcceptedArePushed == \A c \in accepted : \E r \in Requests : c \in ChangesOf(r)

Row(p, k) == k \in DOMAIN journal /\ journal[k].seq > p.start_seq

(* What a row after a pin has over the version the pin holds.              *)
Supersedes(p, k) ==
  /\ k # FormatKey
  /\ \/ StampLess(p.units[k].stamp, units[k].stamp)
     \/ k \in retired /\ p.units[k].value # Deleted

PinnedIsReadable(p) == p.start_seq \in head.min_retained_seq .. head.seq
PinnedOrRow(p) ==
  \A k \in DOMAIN units : Row(p, k) \/ (k \in DOMAIN p.units /\ p.units[k] = units[k])
PinnedIsThereOrBelow(p) ==
  \A k \in DOMAIN p.units \ DOMAIN units : Parents(k) \cap retired # {}
RowsSupersede(p) == \A k \in DOMAIN p.units : Row(p, k) => Supersedes(p, k)
PinnedRetirementsStay(p) ==
  \A k \in DOMAIN p.units : k[1] = "exists" /\ p.units[k].value = Deleted => k \in retired
PinnedIsAccepted(p) ==
  \A k \in DOMAIN p.units : \E c \in accepted : c.key = k /\ p.units[k] = VersionOf(c)

PinOK(p) ==
  /\ PinnedIsReadable(p) /\ PinnedOrRow(p) /\ PinnedIsThereOrBelow(p)
  /\ RowsSupersede(p) /\ PinnedRetirementsStay(p) /\ PinnedIsAccepted(p)

PinsInv == \A p \in state_pins : PinOK(p)

(* What a push does to the journal, for a reader of a pin.                 *)
LEMMA PushRows ==
  ASSUME HistoryInv, HistoryInv', NEW request \in Request,
         NEW d, NEW op, NEW e, AcceptPush(d, op, request, e), NEW p, PinnedIsReadable(p)
  PROVE  /\ \A k \in WonKeys(request) : Row(p, k)'
         /\ \A k \in DOMAIN units' \ WonKeys(request) : Row(p, k)' <=> Row(p, k)
         /\ \A k \in DOMAIN journal' : k \in DOMAIN units'
         /\ PinnedIsReadable(p)'
<1>1. ApplyWinners(request)
  BY AcceptedIsWellFormed
<1>2. head.seq \in Nat /\ head.min_retained_seq \in Nat /\ Cardinality(Winners(request)) \in Nat
  BY WinnerFacts DEF HistoryInv, StoreInv, TypeOK
<1>3. p.start_seq \in Nat /\ p.start_seq <= head.seq /\ head.min_retained_seq <= p.start_seq
  BY <1>2 DEF PinnedIsReadable
<1>4. \A k \in WonKeys(request) : SeqOf(request, k) > p.start_seq
  BY <1>2, <1>3, SeqFacts
<1>5. \A k \in WonKeys(request) : Row(p, k)'
  BY <1>1, <1>4 DEF ApplyWinners, Row
<1>6. \A k \in DOMAIN units' \ WonKeys(request) : Row(p, k)' <=> Row(p, k)
  <2>1. ASSUME NEW k \in DOMAIN units' \ WonKeys(request)
        PROVE  k \notin Orphans(request)
    BY <1>1 DEF ApplyWinners
  <2>2. QED
    BY <1>1, <2>1 DEF ApplyWinners, Row
<1>7. \A k \in DOMAIN journal' : k \in DOMAIN units'
  BY DEF HistoryInv, StoreInv, JournalMirrorsLibrary
<1>8. PinnedIsReadable(p)'
  <2>1. head'.seq = head.seq + Cardinality(Winners(request))
        /\ head'.min_retained_seq = head.min_retained_seq
    BY <1>1, <1>2 DEF ApplyWinners, HistoryInv, StoreInv, TypeOK
  <2>2. QED
    BY <1>2, <1>3, <2>1 DEF PinnedIsReadable
<1>9. QED
  BY <1>5, <1>6, <1>7, <1>8

(* A change that wins over what a pin holds supersedes it.                 *)
LEMMA WinnersSupersede ==
  ASSUME HistoryInv, HistoryInv', NEW request \in Request,
         NEW d, NEW op, NEW e, AcceptPush(d, op, request, e), NEW p, PinOK(p),
         NEW k \in DOMAIN p.units, k \in WonKeys(request)
  PROVE  Supersedes(p, k)'
<1>1. StoreInv /\ StoreInv' /\ JoinInv
  BY DEF HistoryInv
<1>2. PICK c \in ChangesOf(request) : c.key = k
  BY DEF WonKeys, Winners, ChangesOf
<1>3. /\ units'[k] = VersionOf(c) /\ Wins(request, c) /\ c \in Change
      /\ k = FormatKey => c.value \in Levels
      /\ IsRetirement(c) => k \in retired'
  BY <1>1, <1>2, ChangeEffect
<1>4. units'[k].stamp = c.stamp /\ c.stamp \in Stamp
  BY <1>3 DEF VersionOf, Change
<1>5. p.units[k].stamp \in Stamp
  <2>1. PICK x \in accepted : p.units[k] = VersionOf(x)
    BY DEF PinOK, PinnedIsAccepted
  <2>2. x \in Change
    BY <1>1 DEF JoinInv, AcceptedShape
  <2>3. QED
    BY <2>1, <2>2 DEF Change, VersionOf
<1>6. k # FormatKey
  <2>1. SUFFICES ASSUME k = FormatKey PROVE FALSE
    OBVIOUS
  <2>2. FormatKey \in DOMAIN units
    BY <1>1, <2>1, FormatKeyFacts DEF PinOK, PinnedIsThereOrBelow
  <2>3. units[FormatKey].value \in Levels /\ c.value \in Levels /\ c.value > units[FormatKey].value
    BY <1>1, <1>2, <1>3, <2>1, <2>2, StoredShape DEF Wins, Level
  <2>4. QED
    BY <2>3 DEF Levels, LIBRARY_FORMAT_MAX_LEVEL
<1>7. ASSUME IsRetirement(c), k \notin retired
      PROVE  k \in retired' /\ p.units[k].value # Deleted
  BY <1>2, <1>3, <1>7 DEF PinOK, PinnedRetirementsStay, IsRetirement
<1>8. CASE k \notin DOMAIN units
  <2>1. Parents(k) \cap retired # {} /\ k \notin retired
    BY <1>1, <1>8, KeptUnits DEF PinOK, PinnedIsThereOrBelow
  <2>2. IsRetirement(c)
    BY <1>2, <1>3, <1>6, <2>1 DEF Wins, Suppressed
  <2>3. QED
    BY <1>6, <1>7, <2>1, <2>2 DEF Supersedes
<1>9. CASE k \in DOMAIN units /\ StampLess(units[k].stamp, c.stamp)
  <2>1. units[k].stamp \in Stamp
    BY <1>1, <1>9, StoredShape
  <2>2. CASE p.units[k] = units[k]
    BY <1>4, <1>6, <1>9, <2>2 DEF Supersedes
  <2>3. CASE Row(p, k)
    <3>1. Supersedes(p, k)
      BY <2>3 DEF PinOK, RowsSupersede
    <3>2. CASE StampLess(p.units[k].stamp, units[k].stamp)
      BY <1>4, <1>5, <1>6, <1>9, <2>1, <3>2, StampOrder DEF Supersedes
    <3>3. CASE k \in retired /\ p.units[k].value # Deleted
      BY <1>1, <1>6, <3>3, KeptUnits DEF Supersedes
    <3>4. QED
      BY <3>1, <3>2, <3>3 DEF Supersedes
  <2>4. QED
    BY <1>9, <2>2, <2>3 DEF PinOK, PinnedOrRow
<1>10. CASE k \in DOMAIN units /\ IsRetirement(c) /\ k \notin retired
  BY <1>6, <1>7, <1>10 DEF Supersedes
<1>11. QED
  BY <1>2, <1>3, <1>6, <1>8, <1>9, <1>10 DEF Wins, ApplyRemote

LEMMA PushKeepsPins ==
  ASSUME HistoryInv, HistoryInv', accepted \subseteq accepted', NEW request \in Request,
         NEW d, NEW op, NEW e, AcceptPush(d, op, request, e), NEW p, PinOK(p)
  PROVE  PinOK(p)'
<1>1. StoreInv /\ StoreInv'
  BY DEF HistoryInv
<1>2. PinnedIsReadable(p)
  BY DEF PinOK
<1>3. PinnedOrRow(p)'
  BY <1>1, <1>2, PushRows, KeptUnits DEF PinOK, PinnedOrRow
<1>4. PinnedIsThereOrBelow(p)'
  BY <1>1, KeptUnits DEF PinOK, PinnedIsThereOrBelow
<1>5. RowsSupersede(p)'
  <2>1. ASSUME NEW k \in DOMAIN p.units, Row(p, k)', k \notin WonKeys(request)
        PROVE  Supersedes(p, k)'
    <3>1. k \in DOMAIN units'
      BY <1>2, <2>1, PushRows DEF Row
    <3>2. Supersedes(p, k)
      BY <1>2, <2>1, <3>1, PushRows DEF PinOK, RowsSupersede
    <3>3. units'[k] = units[k] /\ retired \subseteq retired'
      BY <1>1, <2>1, <3>1, KeptUnits
    <3>4. QED
      BY <3>2, <3>3 DEF Supersedes
  <2>2. QED
    BY <2>1, WinnersSupersede DEF RowsSupersede
<1>6. PinnedRetirementsStay(p)' /\ PinnedIsAccepted(p)'
  BY <1>1, KeptUnits DEF PinOK, PinnedRetirementsStay, PinnedIsAccepted
<1>7. QED
  BY <1>2, <1>3, <1>4, <1>5, <1>6, PushRows DEF PinOK

(* A new pin holds the library, and no row is after it.                    *)
LEMMA NewPinOK ==
  ASSUME HistoryInv, NEW p, p.start_seq = head.seq, p.units = units
  PROVE  PinOK(p)
<1>1. head.seq \in Nat /\ head.min_retained_seq \in Nat /\ head.min_retained_seq <= head.seq
  BY DEF HistoryInv, StoreInv, TypeOK, JournalMirrorsLibrary
<1>2. PinnedIsReadable(p)
  BY <1>1 DEF PinnedIsReadable
<1>3. \A k : ~Row(p, k)
  BY <1>1 DEF Row, HistoryInv, StoreInv, JournalMirrorsLibrary
<1>4. PinnedRetirementsStay(p)
  BY DEF PinnedRetirementsStay, HistoryInv, StoreInv, RetiredAreTombstones
<1>5. PinnedIsAccepted(p)
  BY DEF PinnedIsAccepted, HistoryInv, JoinInv, VersionsAreAccepted, Counts
<1>6. QED
  BY <1>2, <1>3, <1>4, <1>5 DEF PinOK, PinnedOrRow, PinnedIsThereOrBelow, RowsSupersede

(* Maintenance stops short of the start of every pin it leaves.            *)
LEMMA MaintainKeepsPins ==
  ASSUME HistoryInv, NEW holding, Maintain(holding), accepted' = accepted,
         NEW p \in state_pins', PinOK(p)
  PROVE  PinOK(p)'
<1>1. /\ p \in RemainingPins /\ UNCHANGED <<units, retired>>
      /\ head'.seq = head.seq /\ head'.min_retained_seq = NewFloor
      /\ journal' = [k \in {x \in DOMAIN journal : journal[x].seq > NewFloor} |-> journal[k]]
  BY DEF Maintain, contents, HistoryInv, StoreInv, TypeOK
<1>2. p.start_seq \in HeldPositions
  BY <1>1 DEF HeldPositions
<1>3. /\ NewFloor \in Nat /\ HeldPositions \subseteq Nat
      /\ head.min_retained_seq \in Nat /\ head.seq \in Nat
      /\ NewFloor <= p.start_seq \/ NewFloor = head.min_retained_seq
  BY <1>2, FloorFacts DEF HistoryInv, StoreInv, TypeOK
<1>4. NewFloor <= p.start_seq /\ p.start_seq <= head.seq /\ p.start_seq \in Nat
  BY <1>2, <1>3 DEF PinOK, PinnedIsReadable
<1>5. \A k \in DOMAIN journal : journal[k].seq \in Nat
  BY <1>3 DEF HistoryInv, StoreInv, JournalMirrorsLibrary
<1>6. \A k : Row(p, k)' <=> Row(p, k)
  BY <1>1, <1>3, <1>4, <1>5 DEF Row
<1>7. PinnedIsReadable(p)'
  BY <1>1, <1>3, <1>4 DEF PinnedIsReadable
<1>8. QED
  BY <1>1, <1>6, <1>7 DEF PinOK, PinnedOrRow, PinnedIsThereOrBelow, RowsSupersede, Supersedes,
                          PinnedRetirementsStay, PinnedIsAccepted

LEMMA PinsStep ==
  ASSUME HistoryInv, HistoryInv', PinsInv, [HistoryNext]_<<vars, accepted>>
  PROVE  PinsInv'
<1>1. [Next]_vars /\ TypeOK
  BY DEF HistoryNext, vars, HistoryInv, StoreInv
<1>2. accepted \subseteq accepted'
  BY HistoryFrame DEF HistoryInv
<1>3. ASSUME NEW d \in DeviceIds, NEW op \in OperationIds, NEW r \in Requests, NEW e \in BOOLEAN,
             AcceptPush(d, op, r, e)
      PROVE  PinsInv'
  <2>1. state_pins' = state_pins /\ r \in Request
    BY <1>3, RequestsAssumption DEF AcceptPush
  <2>2. QED
    BY <1>2, <1>3, <2>1, PushKeepsPins DEF PinsInv
<1>4. ASSUME NEW holding, Maintain(holding)
      PROVE  PinsInv'
  <2>1. NewlyAccepted = {} /\ ~(\E d \in DeviceIds, op \in OperationIds, r \in Requests,
                                   e \in BOOLEAN : AcceptPush(d, op, r, e))
    <3>1. DOMAIN operations' \subseteq DOMAIN operations
      BY <1>4 DEF Maintain
    <3>2. ASSUME NEW d, NEW op, NEW r, NEW e, AcceptPush(d, op, r, e)
          PROVE  FALSE
      BY <3>1, <3>2 DEF AcceptPush, CanPush, Answered, SaveOperation
    <3>3. QED
      BY <3>1, <3>2 DEF NewlyAccepted
  <2>2. accepted' = accepted
    BY <2>1, HistoryFrame DEF HistoryInv
  <2>3. state_pins' \subseteq state_pins
    BY <1>4 DEF Maintain, RemainingPins
  <2>4. QED
    BY <1>4, <2>2, <2>3, MaintainKeepsPins DEF PinsInv
<1>5. CASE RotateRestoredEpoch
  BY <1>5 DEF RotateRestoredEpoch, PinsInv
<1>6. CASE /\ UNCHANGED <<head, contents, journal>>
           /\ \A p \in state_pins' : p \in state_pins \/ (p.start_seq = head.seq /\ p.units = units)
  <2>1. ASSUME NEW p \in state_pins'
        PROVE  PinOK(p)
    BY <1>6, NewPinOK DEF PinsInv
  <2>2. ASSUME NEW p \in state_pins'
        PROVE  PinOK(p)'
    BY <1>2, <1>6, <2>1
       DEF contents, PinOK, PinnedIsReadable, PinnedOrRow, PinnedIsThereOrBelow, RowsSupersede,
           Supersedes, Row, PinnedRetirementsStay, PinnedIsAccepted
  <2>3. QED
    BY <2>2 DEF PinsInv
<1>7. QED
  BY <1>1, <1>3, <1>4, <1>5, <1>6, PinFrame

(* What a full read makes of a pin and the rows after it.                  *)
LEMMA PinMakesLibrary ==
  ASSUME StampsNameVersions, AcceptedArePushed, HistoryInv, NEW p, PinOK(p)
  PROVE  LET tail == ChangesAfter(p.start_seq) IN
         /\ Readable(p.start_seq)
         /\ \A k \in DOMAIN tail \cap DOMAIN p.units : ~EqualStampConflict(p.units[k], tail[k])
         /\ Applied(MergeTail(p.units, tail)) = units
<1> DEFINE tail == ChangesAfter(p.start_seq)
           M == MergeTail(p.units, tail)
<1>1. \A k : k \in DOMAIN tail <=> Row(p, k)
  BY DEF ChangesAfter, Row
<1>2. ASSUME NEW k \in DOMAIN tail
      PROVE  /\ k \in DOMAIN units /\ units[k] = VersionOf(tail[k]) /\ tail[k].key = k
             /\ tail[k].stamp = units[k].stamp /\ tail[k].value = units[k].value
  <2>1. k \in DOMAIN journal /\ tail[k] = journal[k]
    BY <1>2 DEF ChangesAfter
  <2>2. k \in DOMAIN units /\ units[k] = VersionOf(journal[k]) /\ journal[k].key = k
    BY <2>1 DEF HistoryInv, StoreInv, JournalMirrorsLibrary
  <2>3. QED
    BY <2>1, <2>2 DEF VersionOf
<1>3. ASSUME NEW k \in DOMAIN units, NEW j \in DOMAIN p.units, k = j,
             units[k].stamp = p.units[k].stamp
      PROVE  units[k].value = p.units[k].value
  <2>1. PICK c \in accepted : c.key = k /\ units[k] = VersionOf(c)
    BY DEF HistoryInv, JoinInv, VersionsAreAccepted, Counts
  <2>2. PICK x \in accepted : x.key = k /\ p.units[k] = VersionOf(x)
    BY <1>3 DEF PinOK, PinnedIsAccepted
  <2>3. PICK r \in Requests, s \in Requests : c \in ChangesOf(r) /\ x \in ChangesOf(s)
    BY DEF AcceptedArePushed
  <2>4. c.stamp = x.stamp
    BY <1>3, <2>1, <2>2 DEF VersionOf
  <2>5. c.value = x.value
    BY <2>1, <2>2, <2>3, <2>4 DEF StampsNameVersions
  <2>6. QED
    BY <2>1, <2>2, <2>5 DEF VersionOf
<1>4. ASSUME NEW k \in DOMAIN tail, k \in DOMAIN p.units
      PROVE  TailReplaces(p.units[k], tail[k]) /\ ~EqualStampConflict(p.units[k], tail[k])
  <2>1. Supersedes(p, k)
    BY <1>1, <1>4 DEF PinOK, RowsSupersede
  <2>2. ~EqualStampConflict(p.units[k], tail[k])
    BY <1>2, <1>3, <1>4 DEF EqualStampConflict
  <2>3. CASE StampLess(p.units[k].stamp, units[k].stamp)
    BY <1>2, <2>2, <2>3 DEF TailReplaces, ApplyRemote
  <2>4. CASE k \in retired /\ p.units[k].value # Deleted
    <3>1. k[1] = "exists" /\ units[k].value = Deleted
      BY <2>4 DEF HistoryInv, StoreInv, RetiredAreTombstones
    <3>2. IsRetirement(tail[k])
      BY <1>2, <3>1 DEF IsRetirement
    <3>3. QED
      BY <2>2, <2>4, <3>2 DEF TailReplaces
  <2>5. QED
    BY <2>1, <2>3, <2>4 DEF Supersedes
<1>5. \A k \in DOMAIN tail : k \in DOMAIN M /\ M[k] = units[k]
  BY <1>2, <1>4 DEF MergeTail
<1>6. \A k \in DOMAIN p.units \ DOMAIN tail : k \in DOMAIN M /\ M[k] = p.units[k]
  BY DEF MergeTail
<1>7. DOMAIN M = DOMAIN p.units \cup DOMAIN tail
  BY DEF MergeTail
<1>8. \A k \in DOMAIN units : k \in DOMAIN M /\ M[k] = units[k]
  BY <1>1, <1>5, <1>6 DEF PinOK, PinnedOrRow
<1>9. \A k \in DOMAIN M \ DOMAIN units :
         /\ k \in DOMAIN p.units /\ M[k] = p.units[k]
         /\ k \notin retired /\ Parents(k) \cap retired # {}
  <2>1. retired \subseteq DOMAIN units
    BY DEF HistoryInv, StoreInv, RetiredAreTombstones
  <2>2. QED
    BY <1>2, <1>6, <1>7, <2>1 DEF PinOK, PinnedIsThereOrBelow
<1>10. RetiredIn(M) = retired
  <2>1. ASSUME NEW k \in RetiredIn(M)
        PROVE  k \in retired
    <3>1. k \in DOMAIN M /\ k[1] = "exists" /\ M[k].value = Deleted
      BY <2>1 DEF RetiredIn
    <3>2. CASE k \in DOMAIN units
      BY <1>8, <3>1, <3>2 DEF HistoryInv, StoreInv, RetiredAreTombstones
    <3>3. CASE k \notin DOMAIN units
      BY <1>9, <3>1, <3>3 DEF PinOK, PinnedRetirementsStay
    <3>4. QED
      BY <3>2, <3>3
  <2>2. \A k \in retired : k \in RetiredIn(M)
    BY <1>8 DEF RetiredIn, HistoryInv, StoreInv, RetiredAreTombstones
  <2>3. QED
    BY <2>1, <2>2
<1>11. \A k \in DOMAIN units : k \in retired \/ Parents(k) \cap retired = {}
  BY DEF HistoryInv, JoinInv, StoredAreAccepted
<1>12. DOMAIN Applied(M) = DOMAIN units /\ \A k \in DOMAIN units : Applied(M)[k] = units[k]
  <2>1. Applied(M) = [k \in {x \in DOMAIN M : x \in retired \/ Parents(x) \cap retired = {}}
                     |-> M[k]]
    BY <1>10 DEF Applied
  <2>2. {x \in DOMAIN M : x \in retired \/ Parents(x) \cap retired = {}} = DOMAIN units
    BY <1>8, <1>9, <1>11
  <2>3. QED
    BY <1>8, <2>1, <2>2
<1>13. Applied(M) = units
  <2>1. Applied(M) = [k \in DOMAIN Applied(M) |-> Applied(M)[k]]
    BY DEF Applied
  <2>2. units = [k \in DOMAIN units |-> units[k]]
    BY DEF HistoryInv, StoreInv, TypeOK, IsTable
  <2>3. QED
    BY <1>12, <2>1, <2>2
<1>14. Readable(p.start_seq)
  BY DEF PinOK, PinnedIsReadable, Readable
<1>15. QED
  BY <1>4, <1>13, <1>14

LEMMA AcceptedArePushedStep ==
  ASSUME HistoryInv, AcceptedArePushed, [HistoryNext]_<<vars, accepted>>
  PROVE  AcceptedArePushed'
BY HistoryFrame DEF HistoryInv, AcceptedArePushed

------------------------------------------------------------------------------
(* Readers.                                                                *)

(* Content that a level 1 client rejects never reaches a level 1 library,  *)
(* nor a pin such a client reads (push, create_state_pin): while there is  *)
(* no format unit there never was one, and no push brought such content.   *)
THEOREM LevelOneIsKept == HistorySpec => []LevelOneHoldsNoParts
<1>1. HistoryInit => LevelOneHoldsNoParts
  BY DEF HistoryInit, Init, LevelOneHoldsNoParts
<1>2. HistoryInv /\ HistoryInv' /\ LevelOneHoldsNoParts /\ [HistoryNext]_<<vars, accepted>>
        => LevelOneHoldsNoParts'
  <2>1. [HistoryNext]_<<vars, accepted>> => [Next]_vars
    BY DEF HistoryNext, vars
  <2>2. QED
    BY <2>1, LevelOneStep
<1>3. QED
  BY <1>1, <1>2, LibraryInvariance, PTL DEF HistorySpec

(* A device that reads a pin and then the journal from where the pin       *)
(* starts ends with the library of that moment, for every pin that is held *)
(* (create_state_pin, state_page, changes): provided that writers give a   *)
(* stamp to one version of a key.                                          *)
THEOREM PinsReachLibrary ==
  ASSUME StampsNameVersions
  PROVE  HistorySpec => []PinTailReachesLibrary
<1>1. HistoryInit => PinsInv /\ AcceptedArePushed
  BY DEF HistoryInit, Init, PinsInv, AcceptedArePushed
<1>2. HistoryInv /\ HistoryInv' /\ PinsInv /\ AcceptedArePushed /\ [HistoryNext]_<<vars, accepted>>
        => PinsInv' /\ AcceptedArePushed'
  BY PinsStep, AcceptedArePushedStep
<1>3. HistoryInv /\ PinsInv /\ AcceptedArePushed => PinTailReachesLibrary
  <2>1. SUFFICES ASSUME HistoryInv, PinsInv, AcceptedArePushed, NEW p \in state_pins
                 PROVE  LET tail == ChangesAfter(p.start_seq) IN
                        /\ Readable(p.start_seq)
                        /\ \A k \in DOMAIN tail \cap DOMAIN p.units :
                              ~EqualStampConflict(p.units[k], tail[k])
                        /\ Applied(MergeTail(p.units, tail)) = units
    BY DEF PinTailReachesLibrary
  <2>2. PinOK(p)
    BY <2>1 DEF PinsInv
  <2>3. QED
    BY <2>1, <2>2, PinMakesLibrary
<1>4. QED
  BY <1>1, <1>2, <1>3, LibraryInvariance, PTL DEF HistorySpec
==============================================================================
