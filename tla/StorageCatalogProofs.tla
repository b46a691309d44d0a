------------------------- MODULE StorageCatalogProofs -------------------------
(***************************************************************************)
(* Publishing and what comes of it, for any number of devices, changes,    *)
(* checkpoints and failures.  An external storage has no server that could *)
(* refuse a sequence which was used before, so the devices themselves      *)
(* never use one twice.  What the storage holds is the merge of everything *)
(* that was ever published, however it was compacted and cleaned up; and   *)
(* what a device counts as received is in what it shows.                   *)
(***************************************************************************)
EXTENDS StorageSegments, FiniteSetTheorems, WellFoundedInduction, TLAPS

------------------------------------------------------------------------------
(* Publishing: the names of segments.                                      *)

(* What a device publishes, and what it lands, is of its shape.            *)
WorkOK ==
  /\ {"changes", "failures", "names"} \subseteq DOMAIN work /\ work.names \subseteq Nat
  /\ \A d \in Writers : work.changes[d] \subseteq Keys \X (Values \cup {Deleted})

ProofsOK ==
  /\ DOMAIN proofs = Writers
  /\ \A d \in Writers :
       /\ DOMAIN proofs[d] = Bodies
       /\ \A b \in Bodies : proofs[d][b] \in AssetProof \cup {NoProof}

PublishedShape ==
  /\ time \in Nat
  /\ WorkOK /\ ProofsOK
  /\ segments \subseteq landed /\ landed \subseteq Segment
  /\ pending \in [Writers -> Publication \cup {NoPublication}]
  /\ next \in [Writers -> Nat \ {0}]

(* A sequence is taken once its publication is finished, and from then on  *)
(* the next one is later; until then only the publication that is pending  *)
(* may have landed under it, and it is known to have been sent.            *)
PendingIsNext ==
  \A d \in Writers : pending[d] # NoPublication => pending[d].seq = next[d]
LandedIsSent(s) ==
  /\ pending[s.writer] # NoPublication /\ ~Unsent(s.writer)
  /\ s = SegmentOf(s.writer)
LandedIsTaken ==
  \A s \in landed : s.seq < next[s.writer] \/ (s.seq = next[s.writer] /\ LandedIsSent(s))

PublicationInv ==
  /\ PublishedShape /\ PendingIsNext /\ LandedIsTaken /\ SequencesAreUnique

------------------------------------------------------------------------------
LEMMA PublicationInit == Init => PublicationInv
<1> SUFFICES ASSUME Init PROVE PublicationInv
  OBVIOUS
<1>1. WorkOK
  BY LimitsAssumption DEF Init, WorkOK
<1>2. PublishedShape
  BY <1>1 DEF Init, PublishedShape, ProofsOK
<1>3. QED
  BY <1>2 DEF Init, PublicationInv, PendingIsNext, LandedIsTaken, SequencesAreUnique

(* A proof that is taken, kept or renewed is a proof.                      *)
LEMMA WithProofOK ==
  ASSUME ProofsOK, NEW d \in Writers, NEW s \in Segment, NEW rooted \in Nat,
         proofs' = WithProof(d, s, rooted)
  PROVE  ProofsOK'
<1>1. CASE s.body = NoBody
  BY <1>1 DEF WithProof, ProofsOK
<1>2. CASE s.body # NoBody
  <2>1. s.body \in Object /\ s.body.content \in Bodies
    BY <1>2 DEF Segment, Object
  <2>2. proofs' = [proofs EXCEPT ![d][s.body.content] =
                     Proof(proofs[d][s.body.content], s.body, rooted)]
    BY <1>2 DEF WithProof
  <2>3. Proof(proofs[d][s.body.content], s.body, rooted) \in AssetProof
    <3>1. proofs[d][s.body.content] \in AssetProof \cup {NoProof}
      BY <2>1 DEF ProofsOK
    <3>2. proofs[d][s.body.content] # NoProof => proofs[d][s.body.content].rooted \in Nat
      BY <3>1 DEF AssetProof
    <3>3. QED
      BY <2>1, <3>2 DEF Proof, Larger, AssetProof
  <2>4. QED
    BY <2>1, <2>2, <2>3 DEF ProofsOK
<1>3. QED
  BY <1>1, <1>2

(* The segment of a publication is a segment.                              *)
LEMMA SegmentShape ==
  ASSUME PublishedShape, NEW d \in Writers, pending[d] # NoPublication
  PROVE  pending[d] \in Publication /\ SegmentOf(d) \in Segment
BY DEF PublishedShape, Publication, SegmentOf, Segment

LEMMA FailKeepsWork ==
  ASSUME WorkOK, Fail
  PROVE  WorkOK'
BY DEF Fail, WorkOK

------------------------------------------------------------------------------
(* The steps of a publication.                                             *)

(* What is captured takes the next sequence, into its stamp too.           *)
LEMMA CaptureTakesNext ==
  ASSUME PublicationInv, NEW d \in Writers, Capture(d)
  PROVE  \E p \in Publication :
           /\ pending' = [pending EXCEPT ![d] = p]
           /\ p.seq = next[d]
           /\ p.change.stamp.logical = p.seq /\ p.change.stamp.writer = d
<1>1. PublishedShape
  BY DEF PublicationInv
<1>2. PICK written, p :
        /\ written \in work.changes[d]
        /\ pending' = [pending EXCEPT ![d] = p]
        /\ LET change == [key |-> written[1], value |-> written[2],
                          stamp |-> [physical |-> time, logical |-> next[d], writer |-> d]]
               large == change.value \in Bodies
               reuse == large /\ Reusable(d, change.value)
           IN  p = [seq |-> next[d], change |-> change, reused |-> reuse, captured |-> time,
                    dispatched |-> -1,
                    rooted |-> IF reuse THEN proofs[d][change.value].rooted ELSE 0,
                    body |-> IF reuse THEN proofs[d][change.value].object
                             ELSE IF large
                             THEN [content |-> change.value, writer |-> d, seq |-> next[d]]
                             ELSE NoBody]
  BY DEF Capture
<1> DEFINE change == [key |-> written[1], value |-> written[2],
                      stamp |-> [physical |-> time, logical |-> next[d], writer |-> d]]
           large == change.value \in Bodies
           reuse == large /\ Reusable(d, change.value)
<1>3. written[1] \in Keys /\ written[2] \in Values \cup {Deleted}
  BY <1>1, <1>2 DEF PublishedShape, WorkOK
<1>4. time \in Nat /\ next[d] \in Nat \ {0}
  BY <1>1 DEF PublishedShape
<1>5. change \in Change
  BY <1>3, <1>4 DEF Change, Stamp, Value
<1>6. reuse => proofs[d][change.value] \in AssetProof
  BY <1>1 DEF PublishedShape, ProofsOK, Reusable
<1>7. p.rooted \in Nat /\ p.body \in Object \cup {NoBody} /\ p.reused \in BOOLEAN
  <2>1. CASE reuse
    BY <1>2, <1>6, <2>1 DEF AssetProof
  <2>2. CASE ~reuse
    BY <1>2, <1>4, <2>2 DEF Object
  <2>3. QED
    BY <2>1, <2>2
<1>8. p \in Publication
  BY <1>2, <1>4, <1>5, <1>7 DEF Publication
<1>9. QED
  BY <1>2, <1>8

LEMMA CapturePublishes ==
  ASSUME PublicationInv, NEW d \in Writers, Capture(d)
  PROVE  PublicationInv'
<1>1. PublishedShape
  BY DEF PublicationInv
<1>2. /\ pending[d] = NoPublication
      /\ UNCHANGED <<time, segments, next, proofs, landed, work>>
  BY DEF Capture
<1>3. PICK p \in Publication : pending' = [pending EXCEPT ![d] = p] /\ p.seq = next[d]
  BY CaptureTakesNext
<1>4. PublishedShape'
  BY <1>1, <1>2, <1>3 DEF PublishedShape, WorkOK, ProofsOK
<1>5. \A w \in Writers : w # d => pending'[w] = pending[w]
  BY <1>1, <1>3 DEF PublishedShape
<1>6. PendingIsNext'
  BY <1>1, <1>2, <1>3 DEF PublicationInv, PublishedShape, PendingIsNext
<1>7. LandedIsTaken'
  <2>1. \A s \in landed : s.writer \in Writers
    BY <1>1 DEF PublishedShape, Segment
  <2>2. ASSUME NEW s \in landed
        PROVE  s.seq < next[s.writer] \/ (s.seq = next[s.writer] /\ LandedIsSent(s)')
    BY <1>2, <1>5, <2>1 DEF PublicationInv, LandedIsTaken, LandedIsSent, Unsent, SegmentOf
  <2>3. QED
    BY <1>2, <2>2 DEF LandedIsTaken
<1>8. QED
  BY <1>2, <1>4, <1>6, <1>7 DEF PublicationInv, SequencesAreUnique

LEMMA AbandonPublishes ==
  ASSUME PublicationInv, NEW d \in Writers, AbandonUnsent(d)
  PROVE  PublicationInv'
<1>1. PublishedShape
  BY DEF PublicationInv
<1>2. /\ pending' = [pending EXCEPT ![d] = NoPublication] /\ Unsent(d)
      /\ UNCHANGED <<time, segments, next, proofs, landed>> /\ Fail
  BY DEF AbandonUnsent
<1>3. PublishedShape'
  BY <1>1, <1>2, FailKeepsWork DEF PublishedShape, ProofsOK
<1>4. PendingIsNext'
  BY <1>1, <1>2 DEF PublicationInv, PublishedShape, PendingIsNext
<1>5. LandedIsTaken'
  <2>1. ASSUME NEW s \in landed
        PROVE  s.seq < next[s.writer] \/ (s.seq = next[s.writer] /\ LandedIsSent(s)')
    <3>1. s.writer \in Writers
      BY <1>1 DEF PublishedShape, Segment
    <3>2. LandedIsSent(s) => s.writer # d
      BY <1>2 DEF LandedIsSent
    <3>3. s.writer # d => pending'[s.writer] = pending[s.writer]
      BY <1>1, <1>2, <3>1 DEF PublishedShape
    <3>4. QED
      BY <3>2, <3>3 DEF PublicationInv, LandedIsTaken, LandedIsSent, Unsent, SegmentOf
  <2>2. QED
    BY <1>2, <2>1 DEF LandedIsTaken
<1>6. QED
  BY <1>2, <1>3, <1>4, <1>5 DEF PublicationInv, SequencesAreUnique

LEMMA DispatchPublishes ==
  ASSUME PublicationInv, NEW d \in Writers, Dispatch(d)
  PROVE  PublicationInv'
<1>1. PICK s : s = SegmentOf(d)
  OBVIOUS
<1>2. PublishedShape
  BY DEF PublicationInv
<1>3. /\ pending[d] # NoPublication
      /\ pending' = [pending EXCEPT ![d] = [pending[d] EXCEPT !.dispatched = time]]
      /\ UNCHANGED <<time, next, proofs>>
      /\ \/ Fail /\ UNCHANGED <<segments, landed>>
         \/ UNCHANGED work /\ segments' = segments \cup {s} /\ landed' = landed \cup {s}
  BY <1>1 DEF Dispatch
<1>4. pending[d] \in Publication /\ s \in Segment /\ pending[d].seq = next[d]
  BY <1>1, <1>2, <1>3, SegmentShape DEF PublicationInv, PendingIsNext
<1>5. /\ pending'[d] \in Publication /\ SegmentOf(d)' = s /\ ~Unsent(d)'
      /\ pending'[d].seq = pending[d].seq
  BY <1>1, <1>2, <1>3, <1>4 DEF PublishedShape, Publication, SegmentOf, Unsent
<1>6. \A w \in Writers : w # d => pending'[w] = pending[w]
  BY <1>2, <1>3 DEF PublishedShape
<1>7. pending'[d] # NoPublication
  BY <1>5, NoneAssumption
<1>8. WorkOK'
  BY <1>2, <1>3, FailKeepsWork DEF PublishedShape, WorkOK
<1>9. PublishedShape'
  BY <1>2, <1>3, <1>4, <1>5, <1>6, <1>8 DEF PublishedShape, ProofsOK
<1>10. PendingIsNext'
  BY <1>3, <1>4, <1>5, <1>6 DEF PublicationInv, PendingIsNext
<1>11. s.writer = d /\ s.seq = next[d] /\ s.seq \in Nat
  BY <1>1, <1>4 DEF SegmentOf, Segment
<1>12. ASSUME NEW x \in landed
       PROVE  x.seq < next[x.writer] \/ (x.seq = next[x.writer] /\ LandedIsSent(x)')
  <2>1. x.writer \in Writers
    BY <1>2 DEF PublishedShape, Segment
  <2>2. CASE x.writer = d
    BY <1>1, <1>5, <1>7, <2>2 DEF PublicationInv, LandedIsTaken, LandedIsSent
  <2>3. CASE x.writer # d
    BY <1>6, <2>1, <2>3 DEF PublicationInv, LandedIsTaken, LandedIsSent, Unsent, SegmentOf
  <2>4. QED
    BY <2>2, <2>3
<1>13. LandedIsSent(s)'
  BY <1>5, <1>7, <1>11 DEF LandedIsSent
<1>14. LandedIsTaken'
  BY <1>3, <1>11, <1>12, <1>13 DEF LandedIsTaken
<1>15. \A x \in landed : x.writer = s.writer /\ x.seq = s.seq => x = s
  BY <1>1, <1>2, <1>11 DEF PublicationInv, PublishedShape, LandedIsTaken, LandedIsSent
<1>16. SequencesAreUnique'
  BY <1>3, <1>15 DEF PublicationInv, SequencesAreUnique
<1>17. QED
  BY <1>9, <1>10, <1>14, <1>16 DEF PublicationInv

LEMMA FinishPublishes ==
  ASSUME PublicationInv, NEW d \in Writers, Finish(d)
  PROVE  PublicationInv'
<1>1. PublishedShape
  BY DEF PublicationInv
<1>2. /\ pending[d] # NoPublication
      /\ proofs' = WithProof(d, SegmentOf(d), time)
      /\ next' = [next EXCEPT ![d] = pending[d].seq + 1]
      /\ pending' = [pending EXCEPT ![d] = NoPublication]
      /\ UNCHANGED <<time, segments, landed, work>>
  BY DEF Finish
<1>3. pending[d] \in Publication /\ SegmentOf(d) \in Segment /\ pending[d].seq = next[d]
  BY <1>1, <1>2, SegmentShape DEF PublicationInv, PendingIsNext
<1>4. ProofsOK'
  BY <1>1, <1>2, <1>3, WithProofOK DEF PublishedShape
<1>5. next[d] \in Nat \ {0} /\ next'[d] = next[d] + 1 /\ pending'[d] = NoPublication
  BY <1>1, <1>2, <1>3 DEF PublishedShape
<1>6. \A w \in Writers : w # d => pending'[w] = pending[w] /\ next'[w] = next[w]
  BY <1>1, <1>2 DEF PublishedShape
<1>7. PublishedShape'
  BY <1>1, <1>2, <1>4, <1>5, <1>6 DEF PublishedShape, WorkOK
<1>8. PendingIsNext'
  BY <1>5, <1>6 DEF PublicationInv, PendingIsNext
<1>9. ASSUME NEW x \in landed
      PROVE  x.seq < next'[x.writer] \/ (x.seq = next'[x.writer] /\ LandedIsSent(x)')
  <2>1. x.writer \in Writers /\ x.seq \in Nat
    BY <1>1 DEF PublishedShape, Segment
  <2>2. CASE x.writer = d
    BY <1>5, <2>1, <2>2 DEF PublicationInv, LandedIsTaken
  <2>3. CASE x.writer # d
    BY <1>6, <2>1, <2>3 DEF PublicationInv, LandedIsTaken, LandedIsSent, Unsent, SegmentOf
  <2>4. QED
    BY <2>2, <2>3
<1>10. QED
  BY <1>2, <1>7, <1>8, <1>9 DEF PublicationInv, LandedIsTaken, SequencesAreUnique

------------------------------------------------------------------------------
(* The other steps leave publications alone.                               *)

LEMMA ReceiveSegmentPublishes ==
  ASSUME PublicationInv, NEW d \in Writers, NEW s \in segments, ReceiveSegment(d, s)
  PROVE  PublicationInv'
<1>1. PublishedShape
  BY DEF PublicationInv
<1>2. /\ proofs' = WithProof(d, s, s.change.stamp.physical)
      /\ UNCHANGED <<time, segments, pending, next, landed, work>>
  BY DEF ReceiveSegment
<1>3. s \in Segment
  BY <1>1 DEF PublishedShape
<1>4. s.change.stamp.physical \in Nat
  BY <1>3 DEF Segment, Change, Stamp
<1>5. ProofsOK'
  BY <1>1, <1>2, <1>3, <1>4, WithProofOK DEF PublishedShape
<1>6. QED
  BY <1>1, <1>2, <1>5
     DEF PublicationInv, PublishedShape, WorkOK, PendingIsNext, LandedIsTaken, LandedIsSent,
         Unsent, SegmentOf, SequencesAreUnique

LEMMA OthersPublish ==
  ASSUME PublicationInv, time' \in Nat, segments' \subseteq segments,
         UNCHANGED <<pending, next, proofs, landed>>, UNCHANGED work \/ Fail
  PROVE  PublicationInv'
<1>1. WorkOK'
  BY FailKeepsWork DEF PublicationInv, PublishedShape, WorkOK
<1>2. QED
  BY <1>1 DEF PublicationInv, PublishedShape, ProofsOK, PendingIsNext, LandedIsTaken,
              LandedIsSent, Unsent, SegmentOf, SequencesAreUnique

LEMMA PublicationStep == PublicationInv /\ [Next]_vars => PublicationInv'
<1> SUFFICES ASSUME PublicationInv, [Next]_vars PROVE PublicationInv'
  OBVIOUS
<1>1. time \in Nat
  BY DEF PublicationInv, PublishedShape
<1>2. CASE UNCHANGED vars
  BY <1>1, <1>2, OthersPublish DEF vars
<1>3. CASE Tick
  BY <1>1, <1>3, OthersPublish DEF Tick
<1>4. ASSUME NEW d \in Writers, Publish(d)
      PROVE  PublicationInv'
  BY <1>4, CapturePublishes, AbandonPublishes, DispatchPublishes, FinishPublishes DEF Publish
<1>5. ASSUME NEW d \in Writers, Receive(d)
      PROVE  PublicationInv'
  <2>1. CASE ReceivePublished(d)
    BY <1>1, <2>1, OthersPublish DEF ReceivePublished
  <2>2. QED
    BY <1>5, <2>1, ReceiveSegmentPublishes DEF Receive
<1>6. ASSUME NEW d \in Writers, Compact(d)
      PROVE  PublicationInv'
  BY <1>1, <1>6, OthersPublish DEF Compact, ReadSegments, PublishCheckpoint, AbandonJob
<1>7. ASSUME NEW d \in Writers, Clean(d)
      PROVE  PublicationInv'
  <2>1. /\ segments' \subseteq segments
        /\ UNCHANGED work \/ Fail
        /\ UNCHANGED <<time, pending, next, proofs, landed>>
    BY <1>7 DEF Clean
  <2>2. QED
    BY <1>1, <2>1, OthersPublish
<1>8. ASSUME NEW d \in Writers, NEW use, BeginRead(d, use)
      PROVE  PublicationInv'
  BY <1>1, <1>8, OthersPublish DEF BeginRead
<1>9. QED
  BY <1>2, <1>3, <1>4, <1>5, <1>6, <1>7, <1>8 DEF Next

------------------------------------------------------------------------------
(* The theorems.                                                           *)

(* The inductive invariant of publications: publish_segments takes the     *)
(* next sequence, repair_unsent gives it back only before the first        *)
(* dispatch, and reconcile_publication advances it.                        *)
THEOREM PublicationInvariance == Spec => []PublicationInv
BY PublicationInit, PublicationStep, PTL DEF Spec

(* No two segments of a device ever have the same sequence, whichever      *)
(* requests failed, were repeated or were abandoned, and whatever was      *)
(* compacted and deleted meanwhile: what a device counts by sequences is   *)
(* what was published under them.                                          *)
THEOREM SequencesAreNotReused == Spec => []SequencesAreUnique
<1>1. PublicationInv => SequencesAreUnique
  BY DEF PublicationInv
<1>2. QED
  BY <1>1, PublicationInvariance, PTL

------------------------------------------------------------------------------
(* Numbers and orders.                                                     *)

LEMMA LeastNumber ==
  ASSUME NEW N \in SUBSET Nat, N # {}
  PROVE  \E n \in N : \A m \in N : n <= m
<1> DEFINE R == OpToRel(<, Nat)
<1>1. IsWellFoundedOn(R, Nat)
  BY NatLessThanWellFounded
<1>2. \A x, y \in Nat : x < y => <<x, y>> \in R
  BY DEF OpToRel
<1> HIDE DEF R
<1>3. PICK n \in N : \A m \in N : <<m, n>> \notin R
  BY <1>1, WFMin
<1>4. \A m \in N : ~(m < n)
  BY <1>2, <1>3
<1>5. QED
  BY <1>3, <1>4

(* A bounded set of numbers has a largest one.                             *)
LEMMA LargestOf ==
  ASSUME NEW N \in SUBSET Nat, N # {}, NEW bound \in Nat, \A n \in N : n <= bound
  PROVE  Largest(N) \in N /\ \A n \in N : n <= Largest(N)
<1> DEFINE Bounds == {b \in Nat : \A n \in N : n <= b}
<1>1. PICK b \in Bounds : \A m \in Bounds : b <= m
  BY LeastNumber
<1>2. b \in N
  <2>1. SUFFICES ASSUME b \notin N PROVE FALSE
    OBVIOUS
  <2>2. \A n \in N : n < b
    BY <1>1, <2>1
  <2>3. b \in Nat /\ b # 0
    <3>1. PICK n \in N : n < b
      BY <2>2
    <3>2. n \in Nat /\ b \in Nat
      OBVIOUS
    <3>3. QED
      BY <3>1, <3>2
  <2>4. b - 1 \in Nat /\ \A n \in N : n <= b - 1
    <3>1. ASSUME NEW n \in N
          PROVE  n <= b - 1
      <4>1. n \in Nat /\ n < b
        BY <2>2
      <4>2. QED
        BY <2>3, <4>1
    <3>2. QED
      BY <2>3, <3>1
  <2>5. b <= b - 1
    BY <1>1, <2>4
  <2>6. QED
    BY <2>3, <2>5
<1>3. QED
  BY <1>1, <1>2 DEF Largest

(* A strict order has a maximal element in every finite set.               *)
LEMMA MaximalOf ==
  ASSUME NEW S, IsFiniteSet(S), S # {}, NEW R,
         \A x \in S : <<x, x>> \notin R,
         \A x, y, z \in S : <<x, y>> \in R /\ <<y, z>> \in R => <<x, z>> \in R
  PROVE  \E x \in S : \A y \in S : <<x, y>> \notin R
<1> DEFINE Above(x) == {y \in S : <<x, y>> \in R}
           Counts == {Cardinality(Above(x)) : x \in S}
<1>1. ASSUME NEW x \in S
      PROVE  IsFiniteSet(Above(x)) /\ Cardinality(Above(x)) \in Nat
  <2>1. Above(x) \in SUBSET S
    OBVIOUS
  <2>2. QED
    BY <2>1, FS_Subset, FS_CardinalityType
<1>2. ASSUME NEW x \in S, NEW y \in S, <<x, y>> \in R
      PROVE  Cardinality(Above(y)) < Cardinality(Above(x))
  <2>1. Above(y) \in SUBSET Above(x) /\ y \in Above(x) /\ y \notin Above(y)
    BY <1>2
  <2>2. Above(x) # Above(y)
    BY <2>1
  <2> HIDE DEF Above
  <2>3. /\ Cardinality(Above(y)) <= Cardinality(Above(x))
        /\ Cardinality(Above(x)) # Cardinality(Above(y))
    BY <1>1, <2>1, <2>2, FS_Subset
  <2>4. QED
    BY <1>1, <2>3
<1> HIDE DEF Above
<1>3. PICK n \in Counts : \A m \in Counts : n <= m
  <2>1. Counts \in SUBSET Nat
    BY <1>1
  <2>2. Counts # {}
    OBVIOUS
  <2>3. QED
    BY <2>1, <2>2, LeastNumber
<1>4. PICK x \in S : n = Cardinality(Above(x))
  BY <1>3
<1>5. SUFFICES ASSUME NEW y \in S, <<x, y>> \in R PROVE FALSE
  BY <1>4
<1>6. Cardinality(Above(x)) <= Cardinality(Above(y))
  BY <1>3, <1>4
<1>7. QED
  BY <1>1, <1>2, <1>5, <1>6

LEMMA StampsAreOrdered ==
  ASSUME NEW s \in Stamp, NEW t \in Stamp, NEW u \in Stamp
  PROVE  /\ ~StampLess(s, s)
         /\ StampLess(s, t) /\ StampLess(t, u) => StampLess(s, u)
         /\ StampLess(s, t) \/ StampLess(t, s) \/ s = t
<1>1. /\ s.physical \in Nat /\ s.logical \in Nat /\ s.writer \in Nat
      /\ t.physical \in Nat /\ t.logical \in Nat /\ t.writer \in Nat
      /\ u.physical \in Nat /\ u.logical \in Nat /\ u.writer \in Nat
  BY WritersAssumption DEF Stamp
<1>2. s.physical = t.physical /\ s.logical = t.logical /\ s.writer = t.writer => s = t
  BY DEF Stamp
<1>3. ~StampLess(s, s)
  BY <1>1 DEF StampLess
<1>4. StampLess(s, t) /\ StampLess(t, u) => StampLess(s, u)
  BY <1>1 DEF StampLess
<1>5. StampLess(s, t) \/ StampLess(t, s) \/ s = t
  BY <1>1, <1>2 DEF StampLess
<1>6. QED
  BY <1>3, <1>4, <1>5

------------------------------------------------------------------------------
(* Merging.                                                                *)

RetiredKeys(S) == {c.key : c \in {x \in S : IsRetirement(x)}}
Shown(S, k) == k \in RetiredKeys(S) \/ Parents(k) \cap RetiredKeys(S) = {}

(* The changes that decide about a key.                                    *)
Candidate(S, k) == {c \in S : c.key = k /\ (k \in RetiredKeys(S) => IsRetirement(c))}
NewestOf(S, k, c) ==
  c \in Candidate(S, k) /\ \A d \in Candidate(S, k) : ~StampLess(c.stamp, d.stamp)

(* Changes that can be merged: no two have one stamp.                      *)
Consistent(S) ==
  /\ S \subseteq Change /\ IsFiniteSet(S)
  /\ \A c, d \in S : c.stamp = d.stamp => c = d

LEMMA SubsetsAreConsistent ==
  ASSUME NEW S, Consistent(S), NEW B \in SUBSET S
  PROVE  Consistent(B)
BY FS_Subset DEF Consistent

LEMMA CandidatesExist ==
  ASSUME NEW S, NEW c \in S
  PROVE  Candidate(S, c.key) # {}
BY DEF Candidate, RetiredKeys

LEMMA NewestIsThere ==
  ASSUME NEW C, Consistent(C), C # {}
  PROVE  Newest(C) \in C /\ \A d \in C : ~StampLess(Newest(C).stamp, d.stamp)
<1> DEFINE R == {p \in C \X C : StampLess(p[1].stamp, p[2].stamp)}
<1>1. \A c \in C : c.stamp \in Stamp
  BY DEF Consistent, Change
<1>2. \A c \in C : <<c, c>> \notin R
  BY <1>1, StampsAreOrdered
<1>3. \A x, y, z \in C : <<x, y>> \in R /\ <<y, z>> \in R => <<x, z>> \in R
  BY <1>1, StampsAreOrdered
<1>4. \A x, y \in C : <<x, y>> \in R <=> StampLess(x.stamp, y.stamp)
  OBVIOUS
<1> HIDE DEF R
<1>5. PICK c \in C : \A d \in C : <<c, d>> \notin R
  BY <1>2, <1>3, MaximalOf DEF Consistent
<1>6. \A d \in C : ~StampLess(c.stamp, d.stamp)
  BY <1>4, <1>5
<1>7. QED
  BY <1>6 DEF Newest

(* There is one newest candidate.                                          *)
LEMMA OneIsNewest ==
  ASSUME NEW S, Consistent(S), NEW k, NEW c, NEW d, NewestOf(S, k, c), NewestOf(S, k, d)
  PROVE  c = d
<1>1. c \in S /\ d \in S /\ ~StampLess(c.stamp, d.stamp) /\ ~StampLess(d.stamp, c.stamp)
  BY DEF NewestOf, Candidate
<1>2. c.stamp \in Stamp /\ d.stamp \in Stamp
  BY <1>1 DEF Consistent, Change
<1>3. QED
  BY <1>1, <1>2, StampsAreOrdered DEF Consistent

LEMMA MergedMembers ==
  ASSUME NEW S, Consistent(S)
  PROVE  /\ \A c \in Merged(S) : NewestOf(S, c.key, c) /\ Shown(S, c.key) /\ c \in S
         /\ \A k, c : NewestOf(S, k, c) /\ Shown(S, k) => c \in Merged(S)
         /\ \A c \in S : \E n \in S : NewestOf(S, c.key, n)
<1> DEFINE retirements == {c \in S : IsRetirement(c)}
           retired == {c.key : c \in retirements}
           shown == {k \in {c.key : c \in S} : k \in retired \/ Parents(k) \cap retired = {}}
           Deciding(k) == Of(IF k \in retired THEN retirements ELSE S, k)
<1>1. retired = RetiredKeys(S)
  BY DEF RetiredKeys
<1>2. \A k : Deciding(k) = Candidate(S, k)
  BY <1>1 DEF Of, Candidate
<1>3. Merged(S) = {Newest(Deciding(k)) : k \in shown}
  BY DEF Merged
<1>4. ASSUME NEW c \in S
      PROVE  NewestOf(S, c.key, Newest(Candidate(S, c.key)))
  <2>1. Candidate(S, c.key) # {} /\ Candidate(S, c.key) \in SUBSET S
    BY CandidatesExist DEF Candidate
  <2>2. Consistent(Candidate(S, c.key))
    BY <2>1, SubsetsAreConsistent
  <2>3. QED
    BY <2>1, <2>2, NewestIsThere DEF NewestOf
<1>5. ASSUME NEW c \in Merged(S)
      PROVE  NewestOf(S, c.key, c) /\ Shown(S, c.key) /\ c \in S
  <2>1. PICK k \in shown : c = Newest(Deciding(k))
    BY <1>3
  <2>2. PICK e \in S : e.key = k
    OBVIOUS
  <2>3. NewestOf(S, k, c)
    BY <1>2, <1>4, <2>1, <2>2
  <2>4. c.key = k /\ c \in S
    BY <2>3 DEF NewestOf, Candidate
  <2>5. Shown(S, k)
    BY <1>1 DEF Shown
  <2>6. QED
    BY <2>3, <2>4, <2>5
<1>6. ASSUME NEW k, NEW c, NewestOf(S, k, c), Shown(S, k)
      PROVE  c \in Merged(S)
  <2>1. c \in S /\ c.key = k
    BY <1>6 DEF NewestOf, Candidate
  <2>2. k \in shown
    BY <1>1, <1>6, <2>1 DEF Shown
  <2>3. c = Newest(Deciding(k))
    BY <1>2, <1>4, <1>6, <2>1, OneIsNewest
  <2>4. QED
    BY <1>3, <2>2, <2>3
<1>7. ASSUME NEW c \in S
      PROVE  \E n \in S : NewestOf(S, c.key, n)
  BY <1>4 DEF NewestOf, Candidate
<1>8. QED
  BY <1>5, <1>6, <1>7

(* visit_changes merges segments and checkpoints as they are listed, and    *)
(* what it merges may have been merged by another device, in another order, *)
(* with other parts.  The outcome is that of one merge of everything: no    *)
(* grouping keeps a version another would drop or brings one back below a   *)
(* deletion, as long as no two changes bear one stamp.                     *)
THEOREM MergeAbsorbs ==
  ASSUME NEW S, Consistent(S), NEW X \in SUBSET S,
         \A d \in S : \E B \in SUBSET S : d \in B /\ Merged(B) \subseteq X
  PROVE  Merged(X) = Merged(S)
<1>1. Consistent(X) /\ \A B \in SUBSET S : Consistent(B) /\ RetiredKeys(B) \subseteq RetiredKeys(S)
  BY SubsetsAreConsistent DEF RetiredKeys
<1>2. RetiredKeys(X) = RetiredKeys(S)
  <2>1. ASSUME NEW d \in S, IsRetirement(d)
        PROVE  d.key \in RetiredKeys(X)
    <3>1. PICK B \in SUBSET S : d \in B /\ Merged(B) \subseteq X
      OBVIOUS
    <3>2. PICK n \in B : NewestOf(B, d.key, n)
      BY <1>1, <3>1, MergedMembers
    <3>3. d.key \in RetiredKeys(B)
      BY <2>1, <3>1 DEF RetiredKeys
    <3>4. n \in Merged(B)
      BY <1>1, <3>2, <3>3, MergedMembers DEF Shown
    <3>5. n \in X /\ n.key = d.key /\ IsRetirement(n)
      BY <3>1, <3>2, <3>3, <3>4 DEF NewestOf, Candidate
    <3>6. QED
      BY <3>5 DEF RetiredKeys
  <2>2. QED
    BY <1>1, <2>1 DEF RetiredKeys
<1>3. \A k : Candidate(X, k) \subseteq Candidate(S, k) /\ (Shown(X, k) <=> Shown(S, k))
  BY <1>2 DEF Candidate, Shown
<1>4. ASSUME NEW k, NEW c, NewestOf(S, k, c), Shown(S, k)
      PROVE  NewestOf(X, k, c)
  <2>1. c \in S /\ c.key = k /\ c \in Candidate(S, k)
    BY <1>4 DEF NewestOf, Candidate
  <2>2. PICK B \in SUBSET S : c \in B /\ Merged(B) \subseteq X
    BY <2>1
  <2>3. PICK n \in B : NewestOf(B, k, n)
    BY <1>1, <2>1, <2>2, MergedMembers
  <2>4. k \in RetiredKeys(B) <=> k \in RetiredKeys(S)
    BY <1>1, <2>1, <2>2 DEF Candidate, RetiredKeys
  <2>5. Shown(B, k)
    BY <1>1, <1>4, <2>2, <2>4 DEF Shown
  <2>6. n \in Merged(B)
    BY <1>1, <2>2, <2>3, <2>5, MergedMembers
  <2>7. n \in Candidate(S, k) /\ c \in Candidate(B, k)
    BY <2>1, <2>2, <2>3, <2>4 DEF NewestOf, Candidate
  <2>8. n = c
    <3>1. ~StampLess(n.stamp, c.stamp) /\ ~StampLess(c.stamp, n.stamp)
      BY <1>4, <2>3, <2>7 DEF NewestOf
    <3>2. n \in S /\ c \in S /\ n.stamp \in Stamp /\ c.stamp \in Stamp
      BY <2>1, <2>7 DEF Candidate, Consistent, Change
    <3>3. QED
      BY <3>1, <3>2, StampsAreOrdered DEF Consistent
  <2>9. c \in Candidate(X, k)
    BY <1>2, <2>1, <2>2, <2>6, <2>8 DEF Candidate
  <2>10. QED
    BY <1>3, <1>4, <2>9 DEF NewestOf
<1>5. Merged(S) \subseteq Merged(X)
  BY <1>1, <1>3, <1>4, MergedMembers
<1>6. ASSUME NEW c \in Merged(X)
      PROVE  c \in Merged(S)
  <2>1. NewestOf(X, c.key, c) /\ Shown(S, c.key) /\ c \in S
    BY <1>1, <1>3, MergedMembers
  <2>2. PICK n \in S : NewestOf(S, c.key, n)
    BY <2>1, MergedMembers
  <2>3. n = c
    BY <1>1, <1>4, <2>1, <2>2, OneIsNewest
  <2>4. QED
    BY <2>1, <2>2, <2>3, MergedMembers
<1>7. QED
  BY <1>5, <1>6

LEMMA MergedAreMembers ==
  ASSUME NEW S, Consistent(S)
  PROVE  Merged(S) \subseteq S
BY MergedMembers

------------------------------------------------------------------------------
(* What has landed.                                                        *)

ChangesIn(found) == {s.change : s \in found}
CoveredBy(coverage) == {s \in landed : Covered(coverage, s)}

(* A stamp names one segment: it holds its sequence and its writer.        *)
Stamped(change, writer, seq) == change.stamp.logical = seq /\ change.stamp.writer = writer

HasLanded(w, n) == \E s \in landed : s.writer = w /\ s.seq = n

LandedInv ==
  /\ IsFiniteSet(landed)
  /\ \A s \in landed : Stamped(s.change, s.writer, s.seq)
  /\ \A d \in Writers : pending[d] # NoPublication => Stamped(pending[d].change, d, pending[d].seq)
  /\ \A d \in Writers : \A n \in Nat \ {0} : n < next[d] => HasLanded(d, n)

LEMMA LandedInit == Init => LandedInv
BY FS_EmptySet DEF Init, LandedInv

LEMMA LandedStep ==
  ASSUME PublicationInv, LandedInv, [Next]_vars
  PROVE  LandedInv'
<1>1. PublishedShape
  BY DEF PublicationInv
<1>2. CASE UNCHANGED <<pending, next, landed>>
  BY <1>2 DEF LandedInv, HasLanded
<1>3. ASSUME NEW d \in Writers, Capture(d)
      PROVE  LandedInv'
  <2>1. PICK p : /\ pending' = [pending EXCEPT ![d] = p]
                 /\ Stamped(p.change, d, p.seq)
    BY <1>3, CaptureTakesNext DEF Stamped
  <2>2. UNCHANGED <<next, landed>>
    BY <1>3 DEF Capture
  <2>3. \A w \in Writers : pending'[w] = IF w = d THEN p ELSE pending[w]
    BY <1>1, <2>1 DEF PublishedShape
  <2>4. QED
    BY <2>1, <2>2, <2>3 DEF LandedInv, HasLanded
<1>4. ASSUME NEW d \in Writers, AbandonUnsent(d)
      PROVE  LandedInv'
  <2>1. pending' = [pending EXCEPT ![d] = NoPublication] /\ UNCHANGED <<next, landed>>
    BY <1>4 DEF AbandonUnsent
  <2>2. \A w \in Writers : pending'[w] = IF w = d THEN NoPublication ELSE pending[w]
    BY <1>1, <2>1 DEF PublishedShape
  <2>3. QED
    BY <2>1, <2>2 DEF LandedInv, HasLanded
<1>5. ASSUME NEW d \in Writers, Dispatch(d)
      PROVE  LandedInv'
  <2>1. /\ pending[d] # NoPublication /\ UNCHANGED next
        /\ pending' = [pending EXCEPT ![d] = [pending[d] EXCEPT !.dispatched = time]]
        /\ landed' \in {landed, landed \cup {SegmentOf(d)}}
    BY <1>5 DEF Dispatch
  <2>2. pending[d] \in Publication
    BY <1>1, <2>1, SegmentShape
  <2>3. pending'[d].change = pending[d].change /\ pending'[d].seq = pending[d].seq
    BY <1>1, <2>1, <2>2 DEF PublishedShape, Publication
  <2>4. \A w \in Writers : w # d => pending'[w] = pending[w]
    BY <1>1, <2>1 DEF PublishedShape
  <2>5. Stamped(SegmentOf(d).change, SegmentOf(d).writer, SegmentOf(d).seq)
    BY <2>1 DEF LandedInv, SegmentOf, Stamped
  <2>6. IsFiniteSet(landed')
    BY <2>1, FS_AddElement DEF LandedInv
  <2>7. \A s \in landed' : Stamped(s.change, s.writer, s.seq)
    BY <2>1, <2>5 DEF LandedInv
  <2>8. \A w \in Writers : \A n \in Nat \ {0} : n < next'[w] => HasLanded(w, n)'
    BY <2>1 DEF LandedInv, HasLanded
  <2>9. \A w \in Writers : pending'[w] # NoPublication
                              => Stamped(pending'[w].change, w, pending'[w].seq)
    BY <2>1, <2>3, <2>4 DEF LandedInv, Stamped
  <2>10. QED
    BY <2>6, <2>7, <2>8, <2>9 DEF LandedInv
<1>6. ASSUME NEW d \in Writers, Finish(d)
      PROVE  LandedInv'
  <2>1. /\ pending[d] # NoPublication /\ SegmentOf(d) \in segments /\ UNCHANGED landed
        /\ next' = [next EXCEPT ![d] = pending[d].seq + 1]
        /\ pending' = [pending EXCEPT ![d] = NoPublication]
    BY <1>6 DEF Finish
  <2>2. /\ \A w \in Writers : pending'[w] = IF w = d THEN NoPublication ELSE pending[w]
        /\ \A w \in Writers : next'[w] = IF w = d THEN next[d] + 1 ELSE next[w]
        /\ next[d] \in Nat
    BY <1>1, <2>1 DEF PublishedShape, PublicationInv, PendingIsNext
  <2>3. HasLanded(d, next[d])
    BY <1>1, <2>1 DEF PublishedShape, PublicationInv, PendingIsNext, HasLanded, SegmentOf
  <2>4. ASSUME NEW w \in Writers, NEW n \in Nat \ {0}, n < next'[w]
        PROVE  HasLanded(w, n)
    <3>1. CASE w = d
      <4>1. n < next[d] \/ n = next[d]
        BY <2>2, <2>4, <3>1
      <4>2. QED
        BY <2>3, <3>1, <4>1 DEF LandedInv
    <3>2. CASE w # d
      BY <2>2, <2>4, <3>2 DEF LandedInv
    <3>3. QED
      BY <3>1, <3>2
  <2>5. QED
    BY <2>1, <2>2, <2>4 DEF LandedInv, HasLanded
<1>7. QED
  BY <1>2, <1>3, <1>4, <1>5, <1>6
     DEF Next, vars, Publish, Receive, Compact, Tick, ReceivePublished,
         ReceiveSegment, ReadSegments,
         PublishCheckpoint, AbandonJob, Clean, BeginRead

(* Segments that landed can be merged.                                     *)
LEMMA LandedAreConsistent ==
  ASSUME PublicationInv, LandedInv, NEW T \in SUBSET landed
  PROVE  Consistent(ChangesIn(T))
<1>1. T \subseteq Segment
  BY DEF PublicationInv, PublishedShape
<1>2. ChangesIn(T) \subseteq Change
  BY <1>1 DEF ChangesIn, Segment
<1>3. IsFiniteSet(ChangesIn(T))
  <2>1. IsFiniteSet(T)
    BY FS_Subset DEF LandedInv
  <2> DEFINE f == [s \in T |-> s.change]
  <2>2. f \in Surjection(T, ChangesIn(T))
    BY DEF Surjection, ChangesIn
  <2>3. QED
    BY <2>1, <2>2, FS_Surjection
<1>4. ASSUME NEW s \in T, NEW t \in T, s.change.stamp = t.change.stamp
      PROVE  s = t
  <2>1. s.writer = t.writer /\ s.seq = t.seq
    BY <1>4 DEF LandedInv, Stamped
  <2>2. QED
    BY <2>1 DEF PublicationInv, SequencesAreUnique
<1>5. QED
  BY <1>2, <1>3, <1>4 DEF Consistent, ChangesIn

(* Before a segment that landed all of its writer's have.                  *)
LEMMA LandedFromTheFirst ==
  ASSUME PublicationInv, LandedInv, NEW s \in landed, NEW n \in Nat \ {0}, n <= s.seq
  PROVE  HasLanded(s.writer, n)
<1>1. s.seq \in Nat /\ s.writer \in Writers /\ next[s.writer] \in Nat /\ s.seq <= next[s.writer]
  BY DEF PublicationInv, PublishedShape, LandedIsTaken, Segment
<1>2. CASE n = s.seq
  BY <1>2 DEF HasLanded
<1>3. CASE n # s.seq
  BY <1>1, <1>3 DEF LandedInv
<1>4. QED
  BY <1>2, <1>3

------------------------------------------------------------------------------
(* What has landed up to a coverage.                                       *)

(* Everything a coverage covers has landed, so that nothing lands there.   *)
Published(coverage) ==
  /\ coverage \in Coverage
  /\ \A w \in Writers : \A n \in Nat \ {0} : n <= coverage[w] => HasLanded(w, n)

(* Changes that account for all that a coverage covers.                    *)
Accounted(coverage, changes) ==
  Published(coverage) /\ changes = Merged(ChangesIn(CoveredBy(coverage)))

LEMMA CoverageIsBounded ==
  ASSUME PublicationInv, NEW coverage, Published(coverage), NEW w \in Writers
  PROVE  coverage[w] \in Nat /\ next[w] \in Nat /\ coverage[w] <= next[w]
<1>1. coverage[w] \in Nat /\ next[w] \in Nat
  BY DEF Published, Coverage, PublicationInv, PublishedShape
<1>2. ASSUME coverage[w] # 0
      PROVE  coverage[w] <= next[w]
  <2>1. PICK s \in landed : s.writer = w /\ s.seq = coverage[w]
    BY <1>1, <1>2 DEF Published, HasLanded
  <2>2. QED
    BY <1>1, <2>1 DEF PublicationInv, LandedIsTaken
<1>3. QED
  BY <1>1, <1>2

(* What lands is what has landed, or one more.                             *)
LEMMA LandedFrame ==
  ASSUME [Next]_vars
  PROVE  landed' = landed \/ \E d \in Writers : Dispatch(d) /\ landed' = landed \cup {SegmentOf(d)}
<1>1. ASSUME NEW d \in Writers, Dispatch(d)
      PROVE  landed' = landed \/ (Dispatch(d) /\ landed' = landed \cup {SegmentOf(d)})
  BY <1>1 DEF Dispatch
<1>2. QED
  BY <1>1
     DEF Next, vars, Publish, Receive, Compact, Tick, ReceivePublished,
         ReceiveSegment, ReadSegments,
         PublishCheckpoint, AbandonJob, Clean, BeginRead, Capture, AbandonUnsent, Finish

LEMMA CoverageStays ==
  ASSUME PublicationInv, LandedInv, [Next]_vars, NEW coverage, Published(coverage)
  PROVE  /\ Published(coverage)' /\ CoveredBy(coverage)' = CoveredBy(coverage)
         /\ landed \subseteq landed'
<1>1. landed \subseteq landed'
  BY LandedFrame
<1>2. Published(coverage)'
  BY <1>1 DEF Published, HasLanded
<1>3. ASSUME NEW s \in landed', Covered(coverage, s)
      PROVE  s \in landed
  <2>1. SUFFICES ASSUME s \notin landed PROVE FALSE
    OBVIOUS
  <2>2. PICK d \in Writers : Dispatch(d) /\ s = SegmentOf(d)
    BY <1>3, <2>1, LandedFrame
  <2>3. pending[d] # NoPublication
    BY <2>2 DEF Dispatch
  <2>4. s \in Segment /\ s.writer = d /\ s.seq = next[d]
    BY <2>2, <2>3, SegmentShape DEF PublicationInv, SegmentOf, PendingIsNext
  <2>5. PICK t \in landed : t.writer = d /\ t.seq = s.seq
    BY <1>3, <2>4 DEF Published, HasLanded, Covered, Segment
  <2>6. t = SegmentOf(d)
    BY <2>4, <2>5 DEF PublicationInv, PublishedShape, LandedIsTaken, LandedIsSent
  <2>7. QED
    BY <2>1, <2>2, <2>5, <2>6
<1>4. QED
  BY <1>1, <1>2, <1>3 DEF CoveredBy

LEMMA AccountedStays ==
  ASSUME PublicationInv, LandedInv, [Next]_vars, NEW coverage, NEW changes,
         Accounted(coverage, changes)
  PROVE  Accounted(coverage, changes)'
BY CoverageStays DEF Accounted

(* One segment alone merges to itself.                                     *)
LEMMA OneMerges ==
  ASSUME PublicationInv, LandedInv, NEW s \in landed
  PROVE  Merged({s.change}) \subseteq {s.change}
<1>1. {s.change} = ChangesIn({s}) /\ {s} \in SUBSET landed
  BY DEF ChangesIn
<1>2. QED
  BY <1>1, LandedAreConsistent, MergedAreMembers

(* Two merged parts merge to the merge of the whole.                       *)
LEMMA MergeTwo ==
  ASSUME PublicationInv, LandedInv, NEW A \in SUBSET landed, NEW B \in SUBSET landed,
         NEW changes, Merged(ChangesIn(B)) \subseteq changes, changes \subseteq ChangesIn(B)
  PROVE  Merged(Merged(ChangesIn(A)) \cup changes) = Merged(ChangesIn(A \cup B))
<1> DEFINE S == ChangesIn(A \cup B)
           X == Merged(ChangesIn(A)) \cup changes
<1>1. Consistent(S) /\ Consistent(ChangesIn(A)) /\ Consistent(ChangesIn(B))
  BY LandedAreConsistent
<1>2. /\ ChangesIn(A) \subseteq S /\ ChangesIn(B) \subseteq S
      /\ S \subseteq ChangesIn(A) \cup ChangesIn(B)
  BY DEF ChangesIn
<1>3. X \in SUBSET S
  BY <1>1, <1>2, MergedAreMembers
<1>4. Merged(ChangesIn(A)) \subseteq X /\ Merged(ChangesIn(B)) \subseteq X
  OBVIOUS
<1> HIDE DEF S, X
<1>5. \A c \in S : \E D \in SUBSET S : c \in D /\ Merged(D) \subseteq X
  BY <1>2, <1>4
<1>6. Merged(X) = Merged(S)
  BY <1>1, <1>3, <1>5, MergeAbsorbs
<1>7. QED
  BY <1>6 DEF S, X

------------------------------------------------------------------------------
(* Listings of checkpoints.                                                *)

CheckpointsOK(found) ==
  /\ IsFiniteSet(found)
  /\ \A c \in found : c.id \in Nat /\ Accounted(c.coverage, c.changes)
  /\ \A c, e \in found : c.id = e.id => c = e

(* Something that is retained covers every checkpoint.                     *)
LEMMA RetainedCover ==
  ASSUME NEW found, CheckpointsOK(found), NEW c \in found
  PROVE  \E k \in retained(found) : covers(k.coverage, c.coverage)
<1> DEFINE Beats(x, y) == /\ y # x /\ covers(y.coverage, x.coverage)
                          /\ covers(x.coverage, y.coverage) => ~(x.id < y.id)
           R == {p \in found \X found : Beats(p[1], p[2])}
           S == {x \in found : x = c \/ <<c, x>> \in R}
<1>1. \A x \in found : x.id \in Nat /\ \A w \in Writers : x.coverage[w] \in Nat
  BY DEF CheckpointsOK, Accounted, Published, Coverage
<1>2. \A x \in found : <<x, x>> \notin R
  OBVIOUS
<1>3. \A x, y \in found : <<x, y>> \in R <=> Beats(x, y)
  OBVIOUS
<1>4. ASSUME NEW x \in found, NEW y \in found, NEW z \in found, Beats(x, y), Beats(y, z)
      PROVE  Beats(x, z)
  <2>1. covers(z.coverage, x.coverage)
    BY <1>1, <1>4 DEF covers
  <2>2. ASSUME covers(x.coverage, z.coverage)
        PROVE  ~(x.id < z.id) /\ z # x
    <3>1. covers(x.coverage, y.coverage) /\ covers(y.coverage, z.coverage)
      BY <1>1, <1>4, <2>2 DEF covers
    <3>2. x.id # y.id /\ y.id # z.id /\ ~(x.id < y.id) /\ ~(y.id < z.id)
      BY <1>4, <3>1 DEF CheckpointsOK
    <3>3. QED
      BY <1>1, <3>2
  <2>3. x = z => covers(x.coverage, z.coverage)
    BY <1>1 DEF covers
  <2>4. QED
    BY <2>1, <2>2, <2>3
<1>5. S \subseteq found /\ c \in S /\ IsFiniteSet(S)
  BY FS_Subset DEF CheckpointsOK
<1>6. \A x, y, z \in S : <<x, y>> \in R /\ <<y, z>> \in R => <<x, z>> \in R
  <2> HIDE DEF Beats, R
  <2>1. QED
    BY <1>3, <1>4, <1>5
<1>7. \A y \in found : y \in S <=> y = c \/ Beats(c, y)
  BY <1>3
<1> HIDE DEF Beats, R, S
<1>8. PICK k \in S : \A y \in S : <<k, y>> \notin R
  <2>1. S # {} /\ \A x \in S : <<x, x>> \notin R
    BY <1>2, <1>5
  <2>2. QED
    BY <1>5, <1>6, <2>1, MaximalOf
<1>9. \A y \in found : ~Beats(k, y)
  <2>1. ASSUME NEW y \in found, Beats(k, y)
        PROVE  FALSE
    <3>1. k = c \/ Beats(c, k)
      BY <1>5, <1>7, <1>8
    <3>2. y \in S
      BY <1>4, <1>5, <1>7, <1>8, <2>1, <3>1
    <3>3. QED
      BY <1>3, <1>5, <1>8, <2>1, <3>2
  <2>2. QED
    BY <2>1
<1>10. k \in retained(found)
  BY <1>5, <1>8, <1>9 DEF retained, Beats
<1>11. covers(k.coverage, c.coverage)
  BY <1>1, <1>5, <1>7, <1>8 DEF Beats, covers
<1>12. QED
  BY <1>10, <1>11

(* The coverage of a listing is that of its retained checkpoints, and of   *)
(* all.                                                                    *)
LEMMA MergedCoverageOf ==
  ASSUME PublicationInv, NEW found, CheckpointsOK(found)
  PROVE  /\ MergedCoverage(found) \in Coverage
         /\ \A w \in Writers :
              \/ MergedCoverage(found)[w] = 0
              \/ \E k \in retained(found) : k.coverage[w] = MergedCoverage(found)[w]
         /\ \A c \in found, w \in Writers : c.coverage[w] <= MergedCoverage(found)[w]
         /\ retained(found) \subseteq found
<1>1. retained(found) \subseteq found
  BY DEF retained
<1>2. ASSUME NEW w \in Writers
      PROVE  /\ MergedCoverage(found)[w] \in Nat
             /\ MergedCoverage(found)[w] = 0 \/
                \E k \in retained(found) : k.coverage[w] = MergedCoverage(found)[w]
             /\ \A c \in found : c.coverage[w] <= MergedCoverage(found)[w]
  <2> DEFINE N == {c.coverage[w] : c \in retained(found)} \cup {0}
  <2>1. \A c \in found : c.coverage[w] \in Nat /\ c.coverage[w] <= next[w]
    BY CoverageIsBounded DEF CheckpointsOK, Accounted
  <2>2. next[w] \in Nat
    BY DEF PublicationInv, PublishedShape
  <2>3. N \in SUBSET Nat /\ N # {} /\ \A n \in N : n <= next[w]
    BY <1>1, <2>1, <2>2
  <2>4. MergedCoverage(found)[w] = Largest(N)
    BY DEF MergedCoverage
  <2>5. Largest(N) \in N /\ \A n \in N : n <= Largest(N)
    BY <2>2, <2>3, LargestOf
  <2>6. ASSUME NEW c \in found
        PROVE  c.coverage[w] <= Largest(N)
    <3>1. PICK k \in retained(found) : covers(k.coverage, c.coverage)
      BY RetainedCover
    <3>2. c.coverage[w] <= k.coverage[w] /\ k.coverage[w] \in N
      BY <3>1 DEF covers
    <3>3. k.coverage[w] <= Largest(N) /\ k.coverage[w] \in Nat /\ Largest(N) \in Nat
      BY <2>3, <2>5, <3>2
    <3>4. QED
      BY <2>1, <3>2, <3>3
  <2>7. QED
    BY <2>3, <2>4, <2>5, <2>6
<1>3. MergedCoverage(found) \in Coverage
  <2>1. MergedCoverage(found) = [w \in Writers |-> MergedCoverage(found)[w]]
    BY DEF MergedCoverage
  <2>2. QED
    BY <1>2, <2>1 DEF Coverage
<1>4. QED
  BY <1>1, <1>2, <1>3

(* The merged coverage covers what a retained checkpoint covers.           *)
LEMMA MergedCoverageIsPublished ==
  ASSUME PublicationInv, NEW found, CheckpointsOK(found)
  PROVE  /\ Published(MergedCoverage(found))
         /\ \A s \in landed : Covered(MergedCoverage(found), s)
              <=> \E k \in retained(found) : Covered(k.coverage, s)
<1> DEFINE coverage == MergedCoverage(found)
<1>1. \A s \in landed : s.writer \in Writers /\ s.seq \in Nat \ {0}
  BY DEF PublicationInv, PublishedShape, Segment
<1>2. /\ coverage \in Coverage
      /\ \A w \in Writers : \/ coverage[w] = 0
                            \/ \E k \in retained(found) : k.coverage[w] = coverage[w]
      /\ \A k \in retained(found), w \in Writers : k.coverage[w] <= coverage[w]
      /\ \A k \in retained(found) : Published(k.coverage)
  BY MergedCoverageOf DEF CheckpointsOK, Accounted
<1>3. \A w \in Writers : coverage[w] \in Nat
  BY <1>2 DEF Coverage
<1> HIDE DEF coverage
<1>4. Published(coverage)
  <2>1. ASSUME NEW w \in Writers, NEW n \in Nat \ {0}, n <= coverage[w]
        PROVE  HasLanded(w, n)
    <3>1. coverage[w] # 0
      BY <1>3, <2>1
    <3>2. PICK k \in retained(found) : k.coverage[w] = coverage[w]
      BY <1>2, <3>1
    <3>3. QED
      BY <1>2, <2>1, <3>2 DEF Published
  <2>2. QED
    BY <1>2, <2>1 DEF Published
<1>5. ASSUME NEW s \in landed, Covered(coverage, s)
      PROVE  \E k \in retained(found) : Covered(k.coverage, s)
  <2>1. coverage[s.writer] # 0
    BY <1>1, <1>3, <1>5 DEF Covered
  <2>2. QED
    BY <1>1, <1>2, <1>5, <2>1 DEF Covered
<1>6. ASSUME NEW s \in landed, NEW k \in retained(found), Covered(k.coverage, s)
      PROVE  Covered(coverage, s)
  <2>1. k.coverage[s.writer] \in Nat /\ k.coverage[s.writer] <= coverage[s.writer]
    BY <1>1, <1>2 DEF Published, Coverage
  <2>2. QED
    BY <1>1, <1>3, <1>6, <2>1 DEF Covered
<1>7. QED
  BY <1>4, <1>5, <1>6 DEF coverage

(* What a listing leads to covers its checkpoints and the segments that    *)
(* continue them, and its changes account for all of that.                 *)
LEMMA StateCovers ==
  ASSUME PublicationInv, LandedInv, NEW found, CheckpointsOK(found)
  PROVE  LET coverage == PublishedState(found, segments).coverage
             included == Included(segments, MergedCoverage(found))
         IN  /\ Published(coverage)
             /\ CoveredBy(coverage) = CoveredBy(MergedCoverage(found)) \cup included
             /\ included \subseteq landed
<1> DEFINE old == MergedCoverage(found)
           included == Included(segments, old)
           coverage == PublishedState(found, segments).coverage
           N(w) == {s.seq : s \in {t \in included : t.writer = w}} \cup {old[w]}
<1>1. segments \subseteq landed /\ \A s \in landed : s.writer \in Writers /\ s.seq \in Nat \ {0}
  BY DEF PublicationInv, PublishedShape, Segment
<1>2. /\ included \subseteq segments
      /\ \A s \in included : /\ ~Covered(old, s)
                             /\ \A n \in old[s.writer] + 1 .. s.seq :
                                  \E t \in segments : t.writer = s.writer /\ t.seq = n
      /\ \A s \in segments :
           /\ ~Covered(old, s)
           /\ \A n \in old[s.writer] + 1 .. s.seq :
                \E t \in segments : t.writer = s.writer /\ t.seq = n
           => s \in included
  BY DEF Included
<1>3. coverage = [w \in Writers |-> Largest(N(w))]
  BY DEF PublishedState
<1>4. Published(old) /\ \A w \in Writers : old[w] \in Nat
  BY MergedCoverageIsPublished DEF Published, Coverage
<1> HIDE DEF old, included, coverage
<1>5. ASSUME NEW w \in Writers
      PROVE  /\ coverage[w] \in Nat /\ old[w] <= coverage[w]
             /\ \A s \in included : s.writer = w => s.seq <= coverage[w]
             /\ coverage[w] = old[w] \/ \E s \in included : s.writer = w /\ s.seq = coverage[w]
  <2>1. next[w] \in Nat /\ old[w] <= next[w]
    BY <1>4, CoverageIsBounded
  <2>2. \A s \in included : s.writer = w => s.seq <= next[w]
    BY <1>1, <1>2, <2>1 DEF PublicationInv, LandedIsTaken
  <2>3. N(w) \in SUBSET Nat /\ N(w) # {} /\ \A n \in N(w) : n <= next[w]
    BY <1>1, <1>2, <1>4, <2>1, <2>2
  <2>4. Largest(N(w)) \in N(w) /\ \A n \in N(w) : n <= Largest(N(w))
    BY <2>1, <2>3, LargestOf
  <2>5. coverage[w] = Largest(N(w))
    BY <1>3
  <2>6. coverage[w] \in N(w) /\ \A n \in N(w) : n <= coverage[w]
    BY <2>4, <2>5
  <2>7. QED
    BY <2>3, <2>6
<1>6. Published(coverage)
  <2>1. coverage \in Coverage
    BY <1>3, <1>5 DEF Coverage
  <2>2. ASSUME NEW w \in Writers, NEW n \in Nat \ {0}, n <= coverage[w]
        PROVE  HasLanded(w, n)
    <3>1. CASE coverage[w] = old[w]
      BY <1>4, <2>2, <3>1 DEF Published
    <3>2. CASE \E s \in included : s.writer = w /\ s.seq = coverage[w]
      BY <1>1, <1>2, <2>2, <3>2, LandedFromTheFirst
    <3>3. QED
      BY <1>5, <3>1, <3>2
  <2>3. QED
    BY <2>1, <2>2 DEF Published
<1>7. ASSUME NEW t \in landed, Covered(coverage, t), ~Covered(old, t)
      PROVE  t \in included
  <2>1. /\ t.writer \in Writers /\ t.seq \in Nat
        /\ old[t.writer] < t.seq /\ t.seq <= coverage[t.writer]
    BY <1>1, <1>4, <1>7 DEF Covered
  <2>2. PICK s \in included : s.writer = t.writer /\ s.seq = coverage[t.writer]
    BY <1>4, <1>5, <2>1
  <2>3. s.seq \in Nat /\ t.seq <= s.seq /\ old[t.writer] \in Nat
    BY <1>1, <1>2, <1>4, <2>1, <2>2
  <2>4. \A n \in old[t.writer] + 1 .. t.seq : n \in old[s.writer] + 1 .. s.seq
    BY <2>1, <2>2, <2>3
  <2>5. \A n \in old[t.writer] + 1 .. t.seq : \E u \in segments : u.writer = t.writer /\ u.seq = n
    BY <1>2, <2>2, <2>4
  <2>6. t.seq \in old[t.writer] + 1 .. t.seq
    BY <2>1, <2>3
  <2>7. t \in segments
    BY <1>1, <2>5, <2>6 DEF PublicationInv, SequencesAreUnique
  <2>8. QED
    BY <1>2, <1>7, <2>5, <2>7
<1>8. ASSUME NEW t \in landed, Covered(old, t) \/ t \in included
      PROVE  Covered(coverage, t)
  <2>1. t.writer \in Writers /\ t.seq \in Nat
    BY <1>1
  <2>2. QED
    BY <1>4, <1>5, <1>8, <2>1 DEF Covered
<1>9. CoveredBy(coverage) = CoveredBy(old) \cup included
  BY <1>1, <1>2, <1>7, <1>8 DEF CoveredBy
<1>10. QED
  BY <1>1, <1>2, <1>6, <1>9 DEF old, included, coverage

LEMMA StateAccounts ==
  ASSUME PublicationInv, LandedInv, NEW found, CheckpointsOK(found)
  PROVE  Accounted(PublishedState(found, segments).coverage,
                   PublishedState(found, segments).changes)
<1> DEFINE kept == retained(found)
           included == Included(segments, MergedCoverage(found))
           coverage == PublishedState(found, segments).coverage
           X == (UNION {c.changes : c \in kept}) \cup ChangesIn(included)
           S == ChangesIn(CoveredBy(coverage))
<1>1. /\ Published(coverage) /\ included \subseteq landed
      /\ CoveredBy(coverage) = CoveredBy(MergedCoverage(found)) \cup included
  BY StateCovers
<1>2. PublishedState(found, segments).changes = Merged(X)
  BY DEF PublishedState, ChangesIn
<1>3. \A k \in kept : /\ k.changes = Merged(ChangesIn(CoveredBy(k.coverage)))
                      /\ CoveredBy(k.coverage) \subseteq CoveredBy(coverage)
  <2>1. \A k \in kept : k.changes = Merged(ChangesIn(CoveredBy(k.coverage)))
    BY DEF retained, CheckpointsOK, Accounted
  <2>2. \A k \in kept : CoveredBy(k.coverage) \subseteq CoveredBy(MergedCoverage(found))
    BY MergedCoverageIsPublished DEF CoveredBy
  <2>3. QED
    BY <1>1, <2>1, <2>2
<1>4. \A t \in CoveredBy(coverage) : t \in included \/ \E k \in kept : t \in CoveredBy(k.coverage)
  BY <1>1, MergedCoverageIsPublished DEF CoveredBy
<1> HIDE DEF kept, included, coverage
<1>5. CoveredBy(coverage) \subseteq landed /\ \A k \in kept : CoveredBy(k.coverage) \subseteq landed
  BY DEF CoveredBy
<1>6. Consistent(S)
  BY <1>5, LandedAreConsistent
<1>7. ASSUME NEW k \in kept
      PROVE  /\ k.changes \subseteq ChangesIn(CoveredBy(k.coverage))
             /\ ChangesIn(CoveredBy(k.coverage)) \subseteq S
  BY <1>3, <1>5, LandedAreConsistent, MergedAreMembers DEF ChangesIn
<1>8. X \in SUBSET S
  <2>1. included \subseteq CoveredBy(coverage)
    BY <1>1
  <2>2. ChangesIn(included) \subseteq S
    BY <2>1 DEF ChangesIn
  <2>3. QED
    BY <1>7, <2>2
<1>9. ASSUME NEW c \in S
      PROVE  \E B \in SUBSET S : c \in B /\ Merged(B) \subseteq X
  <2>1. PICK t \in CoveredBy(coverage) : c = t.change
    BY DEF ChangesIn
  <2>2. CASE t \in included
    <3>1. Merged({t.change}) \subseteq {t.change}
      BY <1>1, <2>2, OneMerges
    <3>2. t.change \in X
      BY <2>2 DEF ChangesIn
    <3>3. QED
      BY <1>9, <2>1, <3>1, <3>2
  <2>3. ASSUME NEW k \in kept, t \in CoveredBy(k.coverage)
        PROVE  \E B \in SUBSET S : c \in B /\ Merged(B) \subseteq X
    <3>1. c \in ChangesIn(CoveredBy(k.coverage))
      BY <2>1, <2>3 DEF ChangesIn
    <3>2. Merged(ChangesIn(CoveredBy(k.coverage))) \subseteq X
      BY <1>3
    <3>3. QED
      BY <1>7, <3>1, <3>2
  <2>4. QED
    BY <1>4, <2>2, <2>3
<1> HIDE DEF X, S
<1>10. Merged(X) = Merged(S)
  BY <1>6, <1>8, <1>9, MergeAbsorbs
<1>11. QED
  BY <1>1, <1>2, <1>10 DEF Accounted, S, coverage

------------------------------------------------------------------------------
(* Checkpoints, and the jobs that make them.                               *)

JobOK(j) ==
  j # NoJob =>
    /\ DOMAIN j = {"use", "found", "catalog"}
    /\ CheckpointsOK(j.found)
    /\ j.catalog # NoJob => Accounted(j.catalog.coverage, j.catalog.changes)

CatalogInv ==
  /\ CheckpointsOK(checkpoints)
  /\ DOMAIN job = Writers
  /\ \A d \in Writers : JobOK(job[d])

LEMMA CheckpointsStay ==
  ASSUME PublicationInv, LandedInv, [Next]_vars, NEW found, CheckpointsOK(found),
         NEW T \in SUBSET found
  PROVE  CheckpointsOK(T)'
BY AccountedStays, FS_Subset DEF CheckpointsOK

LEMMA JobStays ==
  ASSUME PublicationInv, LandedInv, [Next]_vars, NEW j, JobOK(j)
  PROVE  JobOK(j)'
<1>1. ASSUME CheckpointsOK(j.found)
      PROVE  CheckpointsOK(j.found)'
  BY <1>1, CheckpointsStay
<1>2. ASSUME Accounted(j.catalog.coverage, j.catalog.changes)
      PROVE  Accounted(j.catalog.coverage, j.catalog.changes)'
  BY <1>2, AccountedStays
<1>3. QED
  BY <1>1, <1>2 DEF JobOK

LEMMA CatalogInit == Init => CatalogInv
BY FS_EmptySet DEF Init, CatalogInv, CheckpointsOK, JobOK

(* The steps that take a job on, and let go of one.                        *)
LEMMA JobsStep ==
  ASSUME PublicationInv, LandedInv, CatalogInv, [Next]_vars
  PROVE  DOMAIN job' = Writers /\ \A d \in Writers : JobOK(job[d])'
<1>1. ASSUME NEW d \in Writers, NEW j, job' = [job EXCEPT ![d] = j], JobOK(j)'
      PROVE  DOMAIN job' = Writers /\ \A w \in Writers : JobOK(job[w])'
  <2>1. DOMAIN job' = Writers /\ \A w \in Writers : job'[w] = IF w = d THEN j ELSE job[w]
    BY <1>1 DEF CatalogInv
  <2>2. ASSUME NEW w \in Writers
        PROVE  JobOK(job[w])'
    <3>1. PICK k : k = IF w = d THEN j ELSE job[w]
      OBVIOUS
    <3>2. JobOK(k)'
      BY <1>1, <3>1, JobStays DEF CatalogInv
    <3>3. job'[w] = k
      BY <2>1, <3>1
    <3>4. QED
      BY <3>2, <3>3 DEF JobOK, CheckpointsOK, Accounted, Published, HasLanded, CoveredBy
  <2>3. QED
    BY <2>1, <2>2
<1>2. ASSUME NEW d \in Writers, ReceivePublished(d) \/ PublishCheckpoint(d) \/ AbandonJob(d)
      PROVE  DOMAIN job' = Writers /\ \A w \in Writers : JobOK(job[w])'
  <2>1. job' = [job EXCEPT ![d] = NoJob]
    BY <1>2 DEF ReceivePublished, PublishCheckpoint, AbandonJob
  <2>2. PICK j : j = NoJob
    OBVIOUS
  <2>3. JobOK(j)'
    BY <2>2 DEF JobOK
  <2>4. QED
    BY <1>1, <2>1, <2>2, <2>3
<1>3. ASSUME NEW d \in Writers, NEW use, BeginRead(d, use)
      PROVE  DOMAIN job' = Writers /\ \A w \in Writers : JobOK(job[w])'
  <2>1. PICK j : j = [use |-> use, found |-> checkpoints, catalog |-> NoJob]
    OBVIOUS
  <2>2. JobOK(j)
    BY <2>1 DEF JobOK, CatalogInv
  <2>3. job' = [job EXCEPT ![d] = j]
    BY <1>3, <2>1 DEF BeginRead
  <2>4. QED
    BY <1>1, <2>2, <2>3, JobStays
<1>4. ASSUME NEW d \in Writers, ReadSegments(d)
      PROVE  DOMAIN job' = Writers /\ \A w \in Writers : JobOK(job[w])'
  <2>1. job[d] # NoJob /\ CheckpointsOK(job[d].found) /\ DOMAIN job[d] = {"use", "found", "catalog"}
    BY <1>4 DEF ReadSegments, CatalogInv, JobOK
  <2>2. PICK j : j = [job[d] EXCEPT !.catalog = Read(d), !.found = {}]
    OBVIOUS
  <2>3. Accounted(Read(d).coverage, Read(d).changes)
    BY <2>1, StateAccounts DEF Read
  <2>4. CheckpointsOK({})
    BY FS_EmptySet DEF CheckpointsOK
  <2>5. JobOK(j)
    BY <2>1, <2>2, <2>3, <2>4 DEF JobOK
  <2>6. job' = [job EXCEPT ![d] = j]
    BY <1>4, <2>2 DEF ReadSegments, CatalogInv
  <2>7. QED
    BY <1>1, <2>5, <2>6, JobStays
<1>5. CASE UNCHANGED job
  <2>1. ASSUME NEW w \in Writers
        PROVE  JobOK(job[w])'
    <3>1. PICK k : k = job[w]
      OBVIOUS
    <3>2. JobOK(k)' /\ job'[w] = k
      BY <1>5, <3>1, JobStays DEF CatalogInv
    <3>3. QED
      BY <3>2 DEF JobOK, CheckpointsOK, Accounted, Published, HasLanded, CoveredBy
  <2>2. QED
    BY <1>5, <2>1 DEF CatalogInv
<1>6. QED
  BY <1>2, <1>3, <1>4, <1>5
     DEF Next, vars, Publish, Receive, Compact, Tick, ReceiveSegment, Capture, AbandonUnsent,
         Dispatch, Finish, Clean

LEMMA CatalogStep ==
  ASSUME PublicationInv, LandedInv, CatalogInv, [Next]_vars
  PROVE  CatalogInv'
<1>1. ASSUME NEW found, CheckpointsOK(found)', checkpoints' = found
      PROVE  CheckpointsOK(checkpoints)'
  BY <1>1 DEF CheckpointsOK
<1>2. CASE checkpoints' \subseteq checkpoints
  <2>1. PICK T \in SUBSET checkpoints : checkpoints' = T
    BY <1>2
  <2>2. CheckpointsOK(T)'
    BY CheckpointsStay DEF CatalogInv
  <2>3. CheckpointsOK(checkpoints)'
    BY <1>1, <2>1, <2>2
  <2>4. QED
    BY <2>3, JobsStep DEF CatalogInv
<1>3. ASSUME NEW d \in Writers, PublishCheckpoint(d)
      PROVE  CheckpointsOK(checkpoints)'
  <2>1. PICK c : /\ checkpoints' = checkpoints \cup {c}
                 /\ c.id \in work.names /\ \A e \in checkpoints : e.id # c.id
                 /\ c.coverage = job[d].catalog.coverage /\ c.changes = job[d].catalog.changes
    <3>1. PICK id \in work.names, bodies \in Standalone(job[d].catalog) :
            /\ \A e \in checkpoints : e.id # id
            /\ checkpoints' = checkpoints \cup
                 {[id |-> id, coverage |-> job[d].catalog.coverage,
                   changes |-> job[d].catalog.changes, bodies |-> bodies]}
      BY <1>3 DEF PublishCheckpoint
    <3>2. PICK c : c = [id |-> id, coverage |-> job[d].catalog.coverage,
                        changes |-> job[d].catalog.changes, bodies |-> bodies]
      OBVIOUS
    <3>3. QED
      BY <3>1, <3>2
  <2>2. Accounted(c.coverage, c.changes)
    BY <1>3, <2>1 DEF PublishCheckpoint, CatalogInv, JobOK
  <2>3. c.id \in Nat
    BY <2>1 DEF PublicationInv, PublishedShape, WorkOK
  <2>4. CheckpointsOK(checkpoints \cup {c})
    <3>1. IsFiniteSet(checkpoints \cup {c})
      BY FS_AddElement DEF CatalogInv, CheckpointsOK
    <3>2. QED
      BY <2>1, <2>2, <2>3, <3>1 DEF CatalogInv, CheckpointsOK
  <2>5. PICK T : T = checkpoints \cup {c}
    OBVIOUS
  <2>6. CheckpointsOK(T)'
    BY <2>4, <2>5, CheckpointsStay
  <2>7. QED
    BY <1>1, <2>1, <2>5, <2>6
<1>4. checkpoints' \subseteq checkpoints \/ \E d \in Writers : PublishCheckpoint(d)
  BY DEF Next, vars, Publish, Receive, Compact, Tick, ReceiveSegment,
         ReceivePublished, ReadSegments,
         AbandonJob, BeginRead, Capture, AbandonUnsent, Dispatch, Finish, Clean
<1>5. QED
  BY <1>2, <1>3, <1>4, JobsStep DEF CatalogInv

------------------------------------------------------------------------------
(* The clean-up.                                                           *)

(* What landed is still there, or accounted for by a checkpoint.           *)
HeldInv ==
  \A s \in landed : s \in segments \/ \E c \in checkpoints : Covered(c.coverage, s)

LEMMA CleanKeepsRoots ==
  ASSUME NEW d \in Writers, Clean(d)
  PROVE  /\ retained(checkpoints) \subseteq checkpoints'
         /\ \A s \in segments : s \in segments' \/ Covered(MergedCoverage(checkpoints), s)
<1>1. PICK gone : /\ gone \in SUBSET Candidates(Ages(d, Unreachable))
                  /\ segments' = segments \ gone /\ checkpoints' = checkpoints \ gone
  BY DEF Clean
<1>2. gone \subseteq Unreachable
  BY <1>1 DEF Candidates, Eligible, Ages
<1>3. gone \cap KeptRoots = {}
  BY <1>2 DEF Unreachable
<1>4. QED
  BY <1>1, <1>3 DEF KeptRoots, retained

LEMMA HeldStep ==
  ASSUME PublicationInv, LandedInv, CatalogInv, HeldInv, [Next]_vars
  PROVE  HeldInv'
<1>1. CASE segments \subseteq segments' /\ checkpoints \subseteq checkpoints' /\ landed' = landed
  BY <1>1 DEF HeldInv
<1>2. ASSUME NEW d \in Writers, Dispatch(d)
      PROVE  HeldInv'
  BY <1>2 DEF Dispatch, HeldInv
<1>3. ASSUME NEW d \in Writers, Clean(d)
      PROVE  HeldInv'
  <2>1. landed' = landed
    BY <1>3 DEF Clean
  <2>2. ASSUME NEW s \in landed, Covered(MergedCoverage(checkpoints), s)
        PROVE  \E c \in checkpoints' : Covered(c.coverage, s)
    BY <1>3, <2>2, CleanKeepsRoots, MergedCoverageIsPublished DEF CatalogInv
  <2>3. ASSUME NEW s \in landed, NEW c \in checkpoints, Covered(c.coverage, s)
        PROVE  Covered(MergedCoverage(checkpoints), s)
    <3>1. /\ s.writer \in Writers /\ s.seq \in Nat
          /\ c.coverage \in Coverage /\ MergedCoverage(checkpoints) \in Coverage
          /\ c.coverage[s.writer] <= MergedCoverage(checkpoints)[s.writer]
      BY MergedCoverageOf DEF PublicationInv, PublishedShape, Segment, CatalogInv, CheckpointsOK,
                              Accounted, Published
    <3>2. QED
      BY <2>3, <3>1 DEF Covered, Coverage
  <2>4. QED
    BY <1>3, <2>1, <2>2, <2>3, CleanKeepsRoots DEF HeldInv, PublicationInv, PublishedShape
<1>4. QED
  BY <1>1, <1>2, <1>3
     DEF Next, vars, Publish, Receive, Compact, Tick, ReceiveSegment,
         ReceivePublished, ReadSegments,
         PublishCheckpoint, AbandonJob, BeginRead, Capture, AbandonUnsent, Finish

(* The published state covers everything that landed.                      *)
LEMMA AllIsCovered ==
  ASSUME PublicationInv, LandedInv, CatalogInv, HeldInv
  PROVE  NothingPublishedIsLost
<1> DEFINE old == MergedCoverage(checkpoints)
           coverage == PublishedState(checkpoints, segments).coverage
<1>1. segments \subseteq landed /\ \A s \in landed : s.writer \in Writers /\ s.seq \in Nat \ {0}
  BY DEF PublicationInv, PublishedShape, Segment
<1>2. old \in Coverage /\ \A c \in checkpoints, w \in Writers : c.coverage[w] <= old[w]
  BY MergedCoverageOf DEF CatalogInv
<1>3. \A c \in checkpoints : c.coverage \in Coverage
  BY DEF CatalogInv, CheckpointsOK, Accounted, Published
<1> HIDE DEF old
<1>4. ASSUME NEW s \in landed, ~Covered(old, s)
      PROVE  s \in segments
  <2>1. SUFFICES ASSUME NEW c \in checkpoints, Covered(c.coverage, s) PROVE FALSE
    BY DEF HeldInv
  <2>2. s.seq <= c.coverage[s.writer] /\ c.coverage[s.writer] <= old[s.writer]
    BY <1>1, <1>2, <2>1 DEF Covered
  <2>3. c.coverage[s.writer] \in Nat /\ old[s.writer] \in Nat /\ s.seq \in Nat
    BY <1>1, <1>2, <1>3 DEF Coverage
  <2>4. QED
    BY <1>4, <2>2, <2>3 DEF Covered
<1>5. ASSUME NEW s \in landed, ~Covered(old, s)
      PROVE  s \in Included(segments, old)
  <2>1. old[s.writer] \in Nat /\ s.seq \in Nat /\ s.writer \in Writers
    BY <1>1, <1>2 DEF Coverage
  <2>2. ASSUME NEW n \in old[s.writer] + 1 .. s.seq
        PROVE  \E t \in segments : t.writer = s.writer /\ t.seq = n
    <3>1. n \in Nat \ {0} /\ n <= s.seq /\ old[s.writer] < n
      BY <2>1
    <3>2. PICK t \in landed : t.writer = s.writer /\ t.seq = n
      BY <3>1, LandedFromTheFirst DEF HasLanded
    <3>3. ~Covered(old, t)
      BY <2>1, <3>1, <3>2 DEF Covered
    <3>4. QED
      BY <1>4, <3>2, <3>3
  <2>3. QED
    BY <1>4, <1>5, <2>2 DEF Included
<1>6. CoveredBy(coverage) = CoveredBy(old) \cup Included(segments, old)
  BY StateCovers DEF CatalogInv, old
<1>7. CoveredBy(coverage) = landed
  BY <1>5, <1>6 DEF CoveredBy
<1>8. PublishedState(checkpoints, segments).changes = Merged(ChangesIn(CoveredBy(coverage)))
  BY StateAccounts DEF CatalogInv, Accounted
<1>9. QED
  BY <1>7, <1>8 DEF NothingPublishedIsLost, ChangesIn

------------------------------------------------------------------------------
(* The devices.                                                            *)

(* A device shows the merge of some segments that landed, all that it      *)
(* counts among them, and it counts its own finished ones.                 *)
Holds(r, R) ==
  CoveredBy(r.progress) \subseteq R /\ r.changes = Merged(ChangesIn(R))
DeviceOK(d) ==
  LET r == received[d] IN
  /\ Published(r.progress)
  /\ next[d] <= r.progress[d] + 1
  /\ \E R \in SUBSET landed : Holds(r, R)

DeviceInv ==
  /\ DOMAIN received = Writers
  /\ \A d \in Writers : DeviceOK(d)

LEMMA DeviceInit ==
  ASSUME Init, PublicationInv, LandedInv
  PROVE  DeviceInv
<1>1. landed = {}
  BY DEF Init
<1>2. Merged({}) = {}
  <2>1. {} = ChangesIn({})
    BY DEF ChangesIn
  <2>2. Consistent({})
    BY <2>1, LandedAreConsistent
  <2>3. QED
    BY <2>2, MergedAreMembers
<1>3. ASSUME NEW d \in Writers
      PROVE  DeviceOK(d)
  <2>1. received[d].progress = NoCoverage /\ received[d].changes = {} /\ next[d] = 1
    BY DEF Init
  <2>2. Published(NoCoverage) /\ NoCoverage[d] = 0
    BY DEF Published, NoCoverage, Coverage
  <2>3. CoveredBy(NoCoverage) = {} /\ ChangesIn({}) = {}
    BY <1>1 DEF CoveredBy, ChangesIn
  <2>4. QED
    BY <1>2, <2>1, <2>2, <2>3 DEF DeviceOK, Holds
<1>4. QED
  BY <1>3 DEF Init, DeviceInv

(* A device that counts and shows more.                                    *)
LEMMA DeviceGrows ==
  ASSUME PublicationInv, LandedInv, [Next]_vars, NEW d \in Writers, DeviceOK(d),
         NEW T \in SUBSET landed, NEW progress, Published(progress),
         received[d].progress[d] <= progress[d],
         next' [d] <= progress[d] + 1,
         CoveredBy(progress) \subseteq CoveredBy(received[d].progress) \cup T,
         NEW changes, Merged(ChangesIn(T)) \subseteq changes, changes \subseteq ChangesIn(T),
         received'[d].progress = progress,
         received'[d].changes = Merged(received[d].changes \cup changes)
  PROVE  DeviceOK(d)'
<1>1. PICK R \in SUBSET landed : Holds(received[d], R)
  BY DEF DeviceOK
<1>2. received'[d].changes = Merged(ChangesIn(R \cup T))
  BY <1>1, MergeTwo DEF Holds
<1>3. CoveredBy(progress) \subseteq R \cup T
  BY <1>1 DEF Holds
<1>4. Published(progress)' /\ CoveredBy(progress)' = CoveredBy(progress) /\ landed \subseteq landed'
  BY CoverageStays
<1>5. PICK both : both = R \cup T
  OBVIOUS
<1>6. both \in SUBSET landed' /\ Holds(received[d], both)'
  BY <1>2, <1>3, <1>4, <1>5 DEF Holds, CoveredBy, ChangesIn
<1>7. Published(received[d].progress)'
  BY <1>4 DEF Published, HasLanded
<1>8. QED
  BY <1>6, <1>7 DEF DeviceOK

LEMMA DeviceStays ==
  ASSUME PublicationInv, LandedInv, [Next]_vars, NEW d \in Writers, DeviceOK(d),
         received'[d] = received[d], next'[d] = next[d]
  PROVE  DeviceOK(d)'
<1>1. PICK R \in SUBSET landed : Holds(received[d], R)
  BY DEF DeviceOK
<1>2. PICK progress : progress = received[d].progress
  OBVIOUS
<1>3. Published(progress)
  BY <1>2 DEF DeviceOK
<1>4. Published(progress)' /\ CoveredBy(progress)' = CoveredBy(progress) /\ landed \subseteq landed'
  BY <1>3, CoverageStays
<1>5. R \in SUBSET landed' /\ Holds(received[d], R)'
  BY <1>1, <1>2, <1>4 DEF Holds, CoveredBy, ChangesIn
<1>6. Published(received[d].progress)'
  BY <1>2, <1>4 DEF Published, HasLanded
<1>7. QED
  BY <1>5, <1>6 DEF DeviceOK

(* The next segment of a writer.                                           *)
LEMMA IncorporatesNext ==
  ASSUME PublicationInv, LandedInv, [Next]_vars, NEW d \in Writers, DeviceOK(d),
         NEW s \in landed,
         s.seq \in received[d].progress[s.writer] .. received[d].progress[s.writer] + 1,
         received'[d] = Incorporated(received[d], s.writer, s.seq, {s.change}),
         next'[d] <= IF s.writer = d THEN s.seq + 1 ELSE received[d].progress[d] + 1
  PROVE  DeviceOK(d)'
<1> DEFINE old == received[d].progress
<1>1. PICK progress : progress = [old EXCEPT ![s.writer] = s.seq]
  OBVIOUS
<1>2. /\ old \in [Writers -> Nat] /\ Published(old)
      /\ s.writer \in Writers /\ s.seq \in Nat
      /\ \A t \in landed : t.writer \in Writers /\ t.seq \in Nat
  BY DEF DeviceOK, Published, Coverage, PublicationInv, PublishedShape, Segment
<1> HIDE DEF old
<1>3. /\ progress \in Coverage
      /\ \A w \in Writers : progress[w] = IF w = s.writer THEN s.seq ELSE old[w]
  BY <1>1, <1>2 DEF Coverage
<1>4. Published(progress)
  <2>1. ASSUME NEW w \in Writers, NEW n \in Nat \ {0}, n <= progress[w]
        PROVE  HasLanded(w, n)
    <3>1. CASE w = s.writer
      BY <1>3, <2>1, <3>1, LandedFromTheFirst
    <3>2. CASE w # s.writer
      BY <1>2, <1>3, <2>1, <3>2 DEF Published
    <3>3. QED
      BY <3>1, <3>2
  <2>2. QED
    BY <1>3, <2>1 DEF Published
<1>5. CoveredBy(progress) \subseteq CoveredBy(old) \cup {s}
  <2>1. ASSUME NEW t \in landed, Covered(progress, t), ~Covered(old, t)
        PROVE  t = s
    <3>1. t.writer = s.writer /\ t.seq <= s.seq /\ ~(t.seq <= old[s.writer])
      BY <1>2, <1>3, <2>1 DEF Covered
    <3>2. t.seq = s.seq
      BY <1>2, <3>1 DEF old
    <3>3. QED
      BY <3>1, <3>2 DEF PublicationInv, SequencesAreUnique
  <2>2. QED
    BY <2>1 DEF CoveredBy
<1>6. ChangesIn({s}) = {s.change}
  BY DEF ChangesIn
<1>7. Merged(ChangesIn({s})) \subseteq {s.change}
  BY <1>6, OneMerges
<1>8. /\ received'[d].progress = progress
      /\ received'[d].changes = Merged(received[d].changes \cup {s.change})
  BY <1>1 DEF Incorporated, old
<1>9. old[d] <= progress[d] /\ next'[d] <= progress[d] + 1
  BY <1>2, <1>3 DEF old
<1>10. QED
  BY <1>4, <1>5, <1>6, <1>7, <1>8, <1>9, DeviceGrows DEF old

LEMMA DeviceStep ==
  ASSUME PublicationInv, LandedInv, CatalogInv, DeviceInv, [Next]_vars
  PROVE  DeviceInv'
<1>1. PublishedShape
  BY DEF PublicationInv
<1>2. ASSUME NEW d \in Writers, NEW r, received' = [received EXCEPT ![d] = r],
             \A w \in Writers \ {d} : next'[w] = next[w],
             received'[d] = r => DeviceOK(d)'
      PROVE  DeviceInv'
  <2>1. /\ DOMAIN received' = Writers /\ received'[d] = r
        /\ \A w \in Writers \ {d} : received'[w] = received[w]
    BY <1>2 DEF DeviceInv
  <2>2. \A w \in Writers \ {d} : DeviceOK(w)'
    BY <1>2, <2>1, DeviceStays DEF DeviceInv
  <2>3. QED
    BY <1>2, <2>1, <2>2 DEF DeviceInv
<1>3. CASE UNCHANGED <<received, next>>
  BY <1>3, DeviceStays DEF DeviceInv
<1>4. ASSUME NEW d \in Writers, Finish(d)
      PROVE  DeviceInv'
  <2>1. /\ pending[d] # NoPublication /\ SegmentOf(d) \in segments
        /\ received' = [received EXCEPT ![d] =
                          Incorporated(received[d], d, pending[d].seq, {pending[d].change})]
        /\ next' = [next EXCEPT ![d] = pending[d].seq + 1]
    BY <1>4 DEF Finish
  <2>2. PICK s \in landed : s = SegmentOf(d)
    BY <1>1, <2>1 DEF PublishedShape
  <2>3. /\ s.writer = d /\ s.seq = pending[d].seq /\ s.change = pending[d].change
        /\ s.seq = next[d] /\ s.seq \in Nat
    BY <1>1, <2>1, <2>2 DEF SegmentOf, PublicationInv, PublishedShape, PendingIsNext
  <2>4. next'[d] = s.seq + 1 /\ \A w \in Writers \ {d} : next'[w] = next[w]
    BY <1>1, <2>1, <2>3 DEF PublishedShape
  <2>5. received[d].progress[d] \in Nat /\ received[d].progress[d] <= s.seq
    <3>1. /\ received[d].progress[d] \in Nat /\ received[d].progress[d] <= next[d]
      BY CoverageIsBounded DEF DeviceInv, DeviceOK
    <3>2. QED
      BY <2>3, <3>1
  <2>6. s.seq \in received[d].progress[d] .. received[d].progress[d] + 1
    BY <2>3, <2>5 DEF DeviceInv, DeviceOK
  <2>7. received'[d] = Incorporated(received[d], s.writer, s.seq, {s.change}) => DeviceOK(d)'
    <3>1. next'[d] <= IF s.writer = d THEN s.seq + 1 ELSE received[d].progress[d] + 1
      BY <2>3, <2>4
    <3>2. s.seq \in received[d].progress[s.writer] .. received[d].progress[s.writer] + 1
      BY <2>3, <2>6
    <3>3. DeviceOK(d)
      BY DEF DeviceInv
    <3>4. QED
      BY <3>1, <3>2, <3>3, IncorporatesNext
  <2>8. QED
    BY <1>2, <2>1, <2>3, <2>4, <2>7
<1>5. ASSUME NEW d \in Writers, NEW s \in segments, ReceiveSegment(d, s)
      PROVE  DeviceInv'
  <2>1. /\ received' = [received EXCEPT ![d] =
                          Incorporated(received[d], s.writer, s.seq, {s.change})]
        /\ s.seq = received[d].progress[s.writer] + 1 /\ UNCHANGED next /\ s \in landed
    BY <1>1, <1>5 DEF ReceiveSegment, NextOf, PublishedShape
  <2>2. /\ received[d].progress \in [Writers -> Nat] /\ s.writer \in Writers
        /\ next[d] \in Nat /\ next[d] <= received[d].progress[d] + 1
    BY <1>1, <2>1 DEF DeviceInv, DeviceOK, Published, Coverage, PublishedShape, Segment
  <2>3. s.seq \in received[d].progress[s.writer] .. received[d].progress[s.writer] + 1
    BY <2>1, <2>2
  <2>4. next'[d] <= IF s.writer = d THEN s.seq + 1 ELSE received[d].progress[d] + 1
    BY <2>1, <2>2
  <2>5. received'[d] = Incorporated(received[d], s.writer, s.seq, {s.change}) => DeviceOK(d)'
    BY <2>1, <2>3, <2>4, IncorporatesNext DEF DeviceInv
  <2>6. QED
    BY <1>2, <2>1, <2>5
<1>6. ASSUME NEW d \in Writers, ReceivePublished(d)
      PROVE  DeviceInv'
  <2> DEFINE old == received[d].progress
             catalog == Read(d)
  <2>1. PICK progress, r :
          /\ progress = [w \in Writers |-> Larger(old[w], catalog.coverage[w])]
          /\ r = [progress |-> progress,
                  changes  |-> Merged(received[d].changes \cup catalog.changes)]
    OBVIOUS
  <2>2. received' = [received EXCEPT ![d] = r] /\ UNCHANGED next /\ job[d] # NoJob
    BY <1>6, <2>1 DEF ReceivePublished
  <2>3. Accounted(catalog.coverage, catalog.changes)
    BY <2>2, StateAccounts DEF CatalogInv, JobOK, Read
  <2>4. /\ old \in [Writers -> Nat] /\ Published(old) /\ Published(catalog.coverage)
        /\ catalog.coverage \in [Writers -> Nat]
        /\ catalog.changes = Merged(ChangesIn(CoveredBy(catalog.coverage)))
        /\ next[d] \in Nat /\ next[d] <= old[d] + 1
        /\ \A t \in landed : t.writer \in Writers /\ t.seq \in Nat
    BY <1>1, <2>3 DEF Accounted, Published, Coverage, DeviceInv, DeviceOK, PublishedShape, Segment
  <2> HIDE DEF old, catalog
  <2>5. /\ progress \in Coverage
        /\ \A w \in Writers : progress[w] = IF old[w] < catalog.coverage[w]
                                            THEN catalog.coverage[w] ELSE old[w]
    BY <2>1, <2>4 DEF Larger, Coverage
  <2>6. Published(progress)
    BY <2>4, <2>5 DEF Published
  <2>7. CoveredBy(progress) \subseteq CoveredBy(old) \cup CoveredBy(catalog.coverage)
    BY <2>4, <2>5 DEF CoveredBy, Covered
  <2>8. CoveredBy(catalog.coverage) \in SUBSET landed
    BY DEF CoveredBy
  <2>9. catalog.changes \subseteq ChangesIn(CoveredBy(catalog.coverage))
    BY <2>4, <2>8, LandedAreConsistent, MergedAreMembers
  <2>10. old[d] <= progress[d] /\ next'[d] <= progress[d] + 1
    BY <2>2, <2>4, <2>5
  <2>11. ASSUME received'[d] = r
         PROVE  DeviceOK(d)'
    <3>1. received'[d].progress = progress
          /\ received'[d].changes = Merged(received[d].changes \cup catalog.changes)
      BY <2>1, <2>11
    <3>2. DeviceOK(d)
      BY DEF DeviceInv
    <3>3. QED
      BY <2>4, <2>6, <2>7, <2>8, <2>9, <2>10, <3>1, <3>2, DeviceGrows DEF old
  <2>12. QED
    BY <1>2, <2>2, <2>11
<1>7. QED
  BY <1>3, <1>4, <1>5, <1>6
     DEF Next, vars, Publish, Receive, Compact, Tick, ReadSegments, PublishCheckpoint, AbandonJob,
         Clean, BeginRead, Capture, AbandonUnsent, Dispatch

LEMMA CountedIsShown ==
  ASSUME PublicationInv, LandedInv, DeviceInv
  PROVE  DevicesHoldWhatTheyCount
<1>1. SUFFICES ASSUME NEW d \in Writers
               PROVE  Merged(received[d].changes \cup ChangesIn(CoveredBy(received[d].progress)))
                        = received[d].changes
  BY DEF DevicesHoldWhatTheyCount, ChangesIn, CoveredBy
<1>2. PICK R \in SUBSET landed : Holds(received[d], R)
  BY DEF DeviceInv, DeviceOK
<1>3. PICK T \in SUBSET landed : T = CoveredBy(received[d].progress)
  BY DEF CoveredBy
<1>4. R \cup T = R /\ Merged(ChangesIn(T)) \subseteq ChangesIn(T)
  BY <1>2, <1>3, LandedAreConsistent, MergedAreMembers DEF Holds
<1>5. Merged(Merged(ChangesIn(R)) \cup ChangesIn(T)) = Merged(ChangesIn(R))
  BY <1>4, MergeTwo
<1>6. QED
  BY <1>2, <1>3, <1>5 DEF Holds

------------------------------------------------------------------------------
(* The theorems.                                                           *)

StorageInv ==
  PublicationInv /\ LandedInv /\ CatalogInv /\ HeldInv /\ DeviceInv

(* The inductive invariant of the published state: what was published      *)
(* bears its sequence, checkpoints and jobs account for what they cover,   *)
(* what is gone is covered, and devices show what they count.              *)
THEOREM StorageInvariance == Spec => []StorageInv
<1>1. Init => StorageInv
  <2>1. SUFFICES ASSUME Init PROVE StorageInv
    OBVIOUS
  <2>2. PublicationInv /\ LandedInv /\ CatalogInv
    BY <2>1, PublicationInit, LandedInit, CatalogInit
  <2>3. HeldInv
    BY <2>1 DEF Init, HeldInv
  <2>4. QED
    BY <2>1, <2>2, <2>3, DeviceInit DEF StorageInv
<1>2. StorageInv /\ [Next]_vars => StorageInv'
  <2>1. SUFFICES ASSUME StorageInv, [Next]_vars PROVE StorageInv'
    OBVIOUS
  <2>2. PublicationInv /\ LandedInv /\ CatalogInv /\ HeldInv /\ DeviceInv
    BY <2>1 DEF StorageInv
  <2>3. PublicationInv' /\ LandedInv' /\ CatalogInv' /\ HeldInv' /\ DeviceInv'
    BY <2>1, <2>2, PublicationStep, LandedStep, CatalogStep, HeldStep, DeviceStep
  <2>4. QED
    BY <2>3 DEF StorageInv
<1>3. QED
  BY <1>1, <1>2, PTL DEF Spec

(* A listing of checkpoints and segments leads to the merge of everything  *)
(* ever published (published_state), whichever devices compacted at once   *)
(* from whichever listings, and whatever a clean-up deleted.               *)
THEOREM NothingIsLost == Spec => []NothingPublishedIsLost
<1>1. StorageInv => NothingPublishedIsLost
  BY AllIsCovered DEF StorageInv
<1>2. QED
  BY <1>1, StorageInvariance, PTL

(* A checkpoint's changes account for every segment it covers              *)
(* (compact_published), the ones that were gone when it was read included. *)
THEOREM CheckpointsAreComplete == Spec => []CheckpointsHoldWhatTheyCover
<1>1. StorageInv => CheckpointsHoldWhatTheyCover
  BY DEF StorageInv, CatalogInv, CheckpointsOK, Accounted, CheckpointsHoldWhatTheyCover,
         ChangesIn, CoveredBy
<1>2. QED
  BY <1>1, StorageInvariance, PTL

(* What a device counts as received, segment by segment, by a published    *)
(* state or as its own, is part of what it shows.                          *)
THEOREM CountsAreTrue == Spec => []DevicesHoldWhatTheyCount
<1>1. StorageInv => DevicesHoldWhatTheyCount
  BY CountedIsShown DEF StorageInv
<1>2. QED
  BY <1>1, StorageInvariance, PTL
==============================================================================
