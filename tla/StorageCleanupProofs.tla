------------------------- MODULE StorageCleanupProofs -------------------------
(***************************************************************************)
(* A clean-up deletes no body that a kept root names, or that a device may *)
(* still name from its memory: for any number of devices, contents and     *)
(* works, provided that a publisher learns in time that its segment landed.*)
(* And the variables keep to their types.                                  *)
(***************************************************************************)
EXTENDS StorageCatalogProofs

(* How long a body is safe that was named last: a proof is renewed at most *)
(* SettleLimit after the segment it is about landed.                       *)
AgesAreApart == SettleLimit + REUSE_LIMIT < GRACE

IsCheckpoint(k) == "bodies" \in DOMAIN k
IsDocument(k) == k \in Segment \/ IsCheckpoint(k)

(* The bodies that segments and proofs may name: their first dispatch is   *)
(* over.                                                                   *)
Known(o) ==
  /\ o \in Object
  /\ \/ o.seq < next[o.writer]
     \/ /\ o.seq = next[o.writer]
        /\ pending[o.writer] # NoPublication /\ ~Unsent(o.writer)

Fresh(d) == pending[d] # NoPublication /\ pending[d].body # NoBody /\ ~pending[d].reused
Reused(d) == pending[d] # NoPublication /\ pending[d].reused

NamesInv ==
  /\ \A s \in landed : s.body # NoBody => Known(s.body)
  /\ \A d \in Writers, b \in Bodies : proofs[d][b] # NoProof => Known(proofs[d][b].object)
  /\ \A d \in Writers : Reused(d) => Known(pending[d].body)
  /\ \A d \in Writers : Fresh(d) =>
       pending[d].body.writer = d /\ pending[d].body.seq = pending[d].seq
  /\ \A c \in checkpoints : IsCheckpoint(c) /\ \A o \in c.bodies : Known(o)
  /\ \A d \in Writers : job[d] # NoJob /\ job[d].catalog # NoJob =>
       \A o \in job[d].catalog.bodies : Known(o)

(* Nothing that happened lies ahead of the clock.                          *)
TimesInv ==
  /\ \A s \in landed : s.change.stamp.physical \in Nat /\ s.change.stamp.physical <= time
  /\ \A d \in Writers, b \in Bodies : proofs[d][b] # NoProof => proofs[d][b].rooted <= time
  /\ \A d \in Writers : pending[d] # NoPublication =>
       /\ pending[d].captured <= time /\ pending[d].dispatched <= time
       /\ pending[d].rooted <= time
       /\ pending[d].change.stamp.physical = pending[d].captured

(* What is superseded once is no root any more, and no root has an age.    *)
Superseded(c) ==
  \E other \in checkpoints \ {c} :
    /\ covers(other.coverage, c.coverage)
    /\ ~(covers(c.coverage, other.coverage) /\ c.id < other.id)
IsCovered(s) == \E c \in checkpoints : Covered(c.coverage, s)

AgesInv ==
  /\ DOMAIN observed = Writers
  /\ \A d \in Writers : \A i \in DOMAIN observed[d] :
       /\ observed[d][i] \in Nat /\ observed[d][i] <= time
       /\ i \in Object \/ IsDocument(i)
       /\ i \in Segment =>
            i \in landed /\ IsCovered(i) /\ i.change.stamp.physical <= observed[d][i]
       /\ IsCheckpoint(i) =>
            /\ i.id \in Nat /\ i.coverage \in Coverage /\ Superseded(i)
            /\ \A o \in i.bodies : Known(o)

(* Every device still sees a document that names the body, and has not     *)
(* seen it unreachable before r.                                           *)
Aged(d, k, r) == k \in DOMAIN observed[d] => r <= observed[d][k]
Safe(o, r) ==
  /\ o \in stored
  /\ \A d \in Writers : \E k \in Documents : o \in References(k) /\ Aged(d, k, r)

ProofsSafe ==
  \A d \in Writers, b \in Bodies :
    proofs[d][b] # NoProof /\ time <= proofs[d][b].rooted + REUSE_LIMIT =>
      Safe(proofs[d][b].object, proofs[d][b].rooted - SettleLimit)
ReusedSafe ==
  \A d \in Writers :
    Reused(d) /\ time <= pending[d].rooted + REUSE_LIMIT =>
      Safe(pending[d].body, pending[d].rooted - SettleLimit)
FreshSafe ==
  \A d \in Writers : Fresh(d) =>
    /\ ~Unsent(d) /\ time <= pending[d].captured + REUSE_LIMIT => pending[d].body \in stored
    /\ \A w \in Writers : \A k \in DOMAIN observed[w] :
         IsDocument(k) /\ pending[d].body \in References(k) => pending[d].captured <= observed[w][k]
SentSafe ==
  \A d \in Writers :
    /\ pending[d] # NoPublication /\ pending[d].body # NoBody /\ SegmentOf(d) \in segments
    /\ time <= pending[d].dispatched + SettleLimit
    => Safe(pending[d].body, pending[d].dispatched)
SegmentsSafe ==
  \A s \in segments :
    s.body # NoBody /\ time <= s.change.stamp.physical + REUSE_LIMIT => s.body \in stored

(* A segment that was deleted before its publisher knew that it had landed *)
(* left its body to another document, younger than the deletion.           *)
DeletedInv ==
  \A d \in Writers : \A s \in DOMAIN observed[d] :
    s \in Segment /\ s \notin segments /\ s.body # NoBody /\ s.body \in stored =>
      \E k \in Documents : s.body \in References(k) /\ k \notin DOMAIN observed[d]

(* What a compaction has read stays whole, because no clean-up runs.       *)
CompactionInv ==
  \A d \in Writers : job[d] # NoJob =>
    /\ job[d].catalog # NoJob =>
         job[d].use = "compaction" /\ job[d].catalog.bodies \subseteq stored
    /\ job[d].use = "compaction" /\ job[d].catalog = NoJob =>
         /\ job[d].found \subseteq checkpoints
         /\ \A c \in retained(job[d].found) : c.bodies \subseteq stored
         /\ \A s \in segments : ~Covered(MergedCoverage(job[d].found), s) =>
              References(s) \subseteq stored

BodiesInv ==
  ProofsSafe /\ ReusedSafe /\ FreshSafe /\ SentSafe /\ SegmentsSafe /\ DeletedInv
CleanupInv ==
  NamesInv /\ TimesInv /\ AgesInv /\ BodiesInv /\ CompactionInv /\ KeptRootsAreWhole

------------------------------------------------------------------------------
(* Roots.                                                                  *)

LEMMA DocumentsAreNoObjects ==
  ASSUME NEW k, IsDocument(k)
  PROVE  k \notin Object
BY DEF IsDocument, IsCheckpoint, Segment, Object

LEMMA SegmentsAreNoCheckpoints ==
  ASSUME NEW s \in Segment
  PROVE  ~IsCheckpoint(s) /\ References(s) = {s.body} \ {NoBody}
BY DEF IsCheckpoint, Segment, References

LEMMA DocumentsListed ==
  ASSUME PublicationInv, NamesInv, NEW k \in Documents
  PROVE  IsDocument(k)
BY DEF IsDocument, Documents, NamesInv, PublicationInv, PublishedShape

(* Coverage, said of the checkpoints there are.                            *)
LEMMA CoveredByOne ==
  ASSUME PublicationInv, CatalogInv, NEW s \in landed
  PROVE  Covered(MergedCoverage(checkpoints), s) <=> IsCovered(s)
<1>1. CheckpointsOK(checkpoints)
  BY DEF CatalogInv
<1>2. ASSUME NEW c \in checkpoints, Covered(c.coverage, s)
      PROVE  Covered(MergedCoverage(checkpoints), s)
  <2>1. /\ s.writer \in Writers /\ s.seq \in Nat
        /\ c.coverage \in Coverage /\ MergedCoverage(checkpoints) \in Coverage
        /\ c.coverage[s.writer] <= MergedCoverage(checkpoints)[s.writer]
    BY <1>1, MergedCoverageOf DEF PublicationInv, PublishedShape, Segment, CheckpointsOK,
                                  Accounted, Published
  <2>2. QED
    BY <1>2, <2>1 DEF Covered, Coverage
<1>3. ASSUME Covered(MergedCoverage(checkpoints), s)
      PROVE  IsCovered(s)
  <2>1. retained(checkpoints) \subseteq checkpoints
    BY DEF retained
  <2>2. QED
    BY <1>1, <1>3, <2>1, MergedCoverageIsPublished DEF IsCovered
<1>4. QED
  BY <1>2, <1>3 DEF IsCovered

LEMMA RetainedAre ==
  retained(checkpoints) = {c \in checkpoints : ~Superseded(c)}
BY DEF retained, Superseded

LEMMA KeptRootsAre ==
  ASSUME PublicationInv, CatalogInv
  PROVE  KeptRoots = {c \in checkpoints : ~Superseded(c)} \cup {s \in segments : ~IsCovered(s)}
<1>1. segments \subseteq landed
  BY DEF PublicationInv, PublishedShape
<1>2. QED
  BY <1>1, CoveredByOne, RetainedAre DEF KeptRoots

(* The checkpoint that a clean-up keeps in place of one that superseded.   *)
LEMMA RetainedSupersedes ==
  ASSUME PublicationInv, CatalogInv, NEW c, Superseded(c), c.id \in Nat, c.coverage \in Coverage
  PROVE  \E k \in retained(checkpoints) \ {c} :
           /\ covers(k.coverage, c.coverage)
           /\ ~(covers(c.coverage, k.coverage) /\ c.id < k.id)
<1>1. PICK other \in checkpoints \ {c} :
        /\ covers(other.coverage, c.coverage)
        /\ ~(covers(c.coverage, other.coverage) /\ c.id < other.id)
  BY DEF Superseded
<1>2. PICK k \in retained(checkpoints) : covers(k.coverage, other.coverage)
  BY RetainedCover DEF CatalogInv
<1>3. k \in checkpoints /\ ~Superseded(k)
  BY <1>2, RetainedAre
<1>4. \A e \in checkpoints : e.id \in Nat /\ \A w \in Writers : e.coverage[w] \in Nat
  BY DEF CatalogInv, CheckpointsOK, Accounted, Published, Coverage
<1>5. \A w \in Writers : c.coverage[w] \in Nat
  BY DEF Coverage
<1>6. k # c
  BY <1>3
<1>7. covers(k.coverage, c.coverage)
  BY <1>1, <1>2, <1>3, <1>4, <1>5 DEF covers
<1>8. ASSUME covers(c.coverage, k.coverage), c.id < k.id
      PROVE  FALSE
  <2>1. covers(c.coverage, other.coverage) /\ covers(other.coverage, k.coverage)
    BY <1>1, <1>2, <1>3, <1>4, <1>5, <1>8 DEF covers
  <2>2. ~(c.id < other.id) /\ k # other
    BY <1>1, <1>8, <2>1
  <2>3. k.id < other.id
    BY <1>2, <1>3, <2>1, <2>2 DEF Superseded
  <2>4. QED
    BY <1>3, <1>4, <1>8, <2>2, <2>3
<1>9. QED
  BY <1>2, <1>6, <1>7, <1>8

(* No step makes a root of what is covered or superseded.                  *)
LEMMA CheckpointsChange ==
  ASSUME [Next]_vars
  PROVE  checkpoints \subseteq checkpoints' \/ \E d \in Writers : Clean(d)
BY DEF Next, vars, Publish, Receive, Compact, Tick, ReceiveSegment, ReceivePublished, ReadSegments,
       PublishCheckpoint, AbandonJob, BeginRead, Capture, AbandonUnsent, Dispatch, Finish

LEMMA CoveredStays ==
  ASSUME PublicationInv, CatalogInv, [Next]_vars, NEW s \in landed, IsCovered(s)
  PROVE  IsCovered(s)'
<1>1. CASE checkpoints \subseteq checkpoints'
  BY <1>1 DEF IsCovered
<1>2. ASSUME NEW d \in Writers, Clean(d)
      PROVE  IsCovered(s)'
  BY <1>2, CoveredByOne, CleanKeepsRoots, MergedCoverageIsPublished DEF IsCovered, CatalogInv
<1>3. QED
  BY <1>1, <1>2, CheckpointsChange

LEMMA SupersededStays ==
  ASSUME PublicationInv, CatalogInv, [Next]_vars,
         NEW c, Superseded(c), c.id \in Nat, c.coverage \in Coverage
  PROVE  Superseded(c)'
<1>1. CASE checkpoints \subseteq checkpoints'
  BY <1>1 DEF Superseded
<1>2. ASSUME NEW d \in Writers, Clean(d)
      PROVE  Superseded(c)'
  BY <1>2, RetainedSupersedes, CleanKeepsRoots DEF Superseded
<1>3. QED
  BY <1>1, <1>2, CheckpointsChange


------------------------------------------------------------------------------
(* What the steps of publishing and receiving write down.                  *)

LEMMA CaptureFacts ==
  ASSUME PublicationInv, TimesInv, NEW d \in Writers, Capture(d)
  PROVE  \E p \in Publication :
           /\ pending[d] = NoPublication /\ pending' = [pending EXCEPT ![d] = p]
           /\ p.seq = next[d] /\ p.dispatched = -1 /\ p.captured = time
           /\ p.change.stamp.physical = time /\ p.rooted <= time
           /\ p.reused => \E b \in Bodies :
                /\ proofs[d][b] # NoProof /\ time <= proofs[d][b].rooted + REUSE_LIMIT
                /\ p.body = proofs[d][b].object /\ p.rooted = proofs[d][b].rooted
           /\ ~p.reused /\ p.body # NoBody => p.body.writer = d /\ p.body.seq = p.seq
<1>1. PublishedShape
  BY DEF PublicationInv
<1>2. PICK written, p :
        /\ written \in work.changes[d]
        /\ pending' = [pending EXCEPT ![d] = p]
        /\ LET change == [key |-> written[1], value |-> written[2],
                          stamp |-> [physical |-> time, logical |-> next[d], writer |-> d]]
               large == change.value \in Bodies
               reuse == large /\ Reusable(d, change.value)
           IN  p = [seq |-> next[d], change |-> change, reused |-> reuse, captured |-> time,
                    dispatched |-> -1,
                    rooted |-> IF reuse THEN proofs[d][change.value].rooted ELSE 0,
                    body |-> IF reuse THEN proofs[d][change.value].object
                             ELSE IF large
                             THEN [content |-> change.value, writer |-> d, seq |-> next[d]]
                             ELSE NoBody]
  BY DEF Capture
<1>3. PICK q \in Publication : pending' = [pending EXCEPT ![d] = q]
  BY CaptureTakesNext
<1>4. p = q
  <2>1. pending'[d] = p /\ pending'[d] = q
    BY <1>1, <1>2, <1>3 DEF PublishedShape
  <2>2. QED
    BY <2>1
<1> DEFINE value == written[2]
           reuse == value \in Bodies /\ Reusable(d, value)
<1>5. /\ p.seq = next[d] /\ p.dispatched = -1 /\ p.captured = time
      /\ p.change.stamp.physical = time /\ p.reused = reuse
      /\ p.rooted = IF reuse THEN proofs[d][value].rooted ELSE 0
      /\ p.body = IF reuse THEN proofs[d][value].object
                  ELSE IF value \in Bodies
                  THEN [content |-> value, writer |-> d, seq |-> next[d]]
                  ELSE NoBody
  BY <1>2
<1>6. time \in Nat /\ ProofsOK
  BY <1>1 DEF PublishedShape
<1> HIDE DEF value
<1>7. ASSUME reuse
      PROVE  /\ proofs[d][value] # NoProof /\ proofs[d][value].rooted \in Nat
             /\ time <= proofs[d][value].rooted + REUSE_LIMIT
  <2>1. proofs[d][value] # NoProof /\ time - proofs[d][value].rooted <= REUSE_LIMIT
    BY <1>7 DEF Reusable
  <2>2. proofs[d][value] \in AssetProof
    BY <1>6, <1>7, <2>1 DEF ProofsOK
  <2>3. proofs[d][value].rooted \in Nat
    BY <2>2 DEF AssetProof
  <2>4. QED
    BY <1>6, <2>1, <2>3, LimitsAssumption
<1>8. pending[d] = NoPublication
  BY DEF Capture
<1>9. ASSUME reuse
      PROVE  p.rooted <= time
  BY <1>5, <1>7, <1>9 DEF TimesInv
<1>10. p \in Publication /\ pending' = [pending EXCEPT ![d] = p]
  BY <1>3, <1>4
<1>11. CASE reuse
  <2>1. \E b \in Bodies :
          /\ proofs[d][b] # NoProof /\ time <= proofs[d][b].rooted + REUSE_LIMIT
          /\ p.body = proofs[d][b].object /\ p.rooted = proofs[d][b].rooted
    BY <1>5, <1>7, <1>11
  <2>2. p.reused
    BY <1>5, <1>11
  <2>3. QED
    BY <1>5, <1>8, <1>9, <1>10, <1>11, <2>1, <2>2
<1>12. CASE ~reuse
  <2>1. p.body # NoBody => p.body = [content |-> value, writer |-> d, seq |-> next[d]]
    BY <1>5, <1>12
  <2>2. p.body # NoBody => p.body.writer = d /\ p.body.seq = p.seq
    BY <1>5, <2>1
  <2>3. p.rooted = 0 /\ ~p.reused
    BY <1>5, <1>12
  <2>4. p.rooted <= time
    BY <1>6, <2>3
  <2>5. /\ p.seq = next[d] /\ p.dispatched = -1 /\ p.captured = time
        /\ p.change.stamp.physical = time
    BY <1>5
  <2>6. QED
    BY <1>8, <1>10, <2>2, <2>3, <2>4, <2>5
<1>13. QED
  BY <1>11, <1>12

(* The proof of a body that a step names, kept, renewed or new.            *)
LEMMA WithProofIs ==
  ASSUME ProofsOK, NEW d \in Writers, NEW s \in Segment, NEW rooted \in Nat,
         proofs' = WithProof(d, s, rooted), NEW w \in Writers, NEW b \in Bodies
  PROVE  \/ proofs'[w][b] = proofs[w][b]
         \/ /\ s.body # NoBody /\ proofs'[w][b] # NoProof /\ proofs'[w][b].object = s.body
            /\ \/ proofs'[w][b].rooted = rooted
               \/ /\ proofs[w][b] # NoProof /\ proofs[w][b].object = s.body
                  /\ proofs'[w][b].rooted = proofs[w][b].rooted
<1>1. CASE s.body = NoBody
  BY <1>1 DEF WithProof
<1>2. CASE s.body # NoBody
  <2>1. s.body \in Object /\ s.body.content \in Bodies
    BY <1>2 DEF Segment, Object
  <2>2. PICK p : p = Proof(proofs[d][s.body.content], s.body, rooted)
    OBVIOUS
  <2>3. proofs' = [proofs EXCEPT ![d][s.body.content] = p]
    BY <1>2, <2>2 DEF WithProof
  <2>4. CASE w = d /\ b = s.body.content
    <3>1. proofs'[w][b] = p
      BY <2>1, <2>3, <2>4 DEF ProofsOK
    <3>2. p.object = s.body /\ p.rooted \in Nat
      BY <2>1, <2>2 DEF Proof, ProofsOK, AssetProof, Larger
    <3>3. \/ p.rooted = rooted
          \/ /\ proofs[d][b] # NoProof /\ proofs[d][b].object = s.body
             /\ p.rooted = proofs[d][b].rooted
      BY <2>2, <2>4 DEF Proof, Larger
    <3>4. p # NoProof
      BY <2>1, <2>2, <3>2, NoneAssumption DEF Proof, AssetProof
    <3>5. QED
      BY <1>2, <2>4, <3>1, <3>2, <3>3, <3>4
  <2>5. CASE ~(w = d /\ b = s.body.content)
    BY <2>1, <2>3, <2>5 DEF ProofsOK
  <2>6. QED
    BY <2>4, <2>5
<1>3. QED
  BY <1>1, <1>2

LEMMA ProofsChange ==
  ASSUME [Next]_vars
  PROVE  \/ proofs' = proofs
         \/ \E d \in Writers : Finish(d) /\ proofs' = WithProof(d, SegmentOf(d), time)
         \/ \E d \in Writers : \E s \in segments :
              ReceiveSegment(d, s) /\ proofs' = WithProof(d, s, s.change.stamp.physical)
BY DEF Next, vars, Publish, Receive, Compact, Tick, ReceiveSegment, ReceivePublished, ReadSegments,
       PublishCheckpoint, AbandonJob, BeginRead, Capture, AbandonUnsent, Dispatch, Finish, Clean

LEMMA PendingChanges ==
  ASSUME [Next]_vars
  PROVE  \/ UNCHANGED <<pending, next>>
         \/ \E d \in Writers : Capture(d) \/ AbandonUnsent(d) \/ Dispatch(d) \/ Finish(d)
BY DEF Next, vars, Publish, Receive, Compact, Tick, ReceiveSegment, ReceivePublished, ReadSegments,
       PublishCheckpoint, AbandonJob, BeginRead, Clean

LEMMA KnownStays ==
  ASSUME PublicationInv, [Next]_vars, NEW o, Known(o)
  PROVE  Known(o)'
<1>1. /\ pending \in [Writers -> Publication \cup {NoPublication}]
      /\ next \in [Writers -> Nat \ {0}] /\ o.writer \in Writers /\ o.seq \in Nat
      /\ time \in Nat
  BY DEF PublicationInv, PublishedShape, Known, Object
<1>2. CASE UNCHANGED <<pending, next>>
  BY <1>2 DEF Known, Unsent
<1>3. ASSUME NEW d \in Writers, Capture(d)
      PROVE  Known(o)'
  <2>1. /\ pending[d] = NoPublication /\ UNCHANGED next
        /\ \A w \in Writers \ {d} : pending'[w] = pending[w]
    BY <1>1, <1>3 DEF Capture
  <2>2. QED
    BY <1>1, <2>1 DEF Known, Unsent
<1>4. ASSUME NEW d \in Writers, AbandonUnsent(d)
      PROVE  Known(o)'
  <2>1. /\ Unsent(d) /\ UNCHANGED next
        /\ \A w \in Writers \ {d} : pending'[w] = pending[w]
    BY <1>1, <1>4 DEF AbandonUnsent
  <2>2. QED
    BY <1>1, <2>1 DEF Known, Unsent
<1>5. ASSUME NEW d \in Writers, Dispatch(d)
      PROVE  Known(o)'
  <2>1. /\ pending[d] # NoPublication /\ UNCHANGED next
        /\ pending' = [pending EXCEPT ![d] = [@ EXCEPT !.dispatched = time]]
    BY <1>5 DEF Dispatch
  <2>2. pending'[d].dispatched = time /\ pending'[d] \in Publication
    BY <1>1, <2>1 DEF Publication
  <2>3. pending'[d] # NoPublication /\ ~Unsent(d)'
    BY <1>1, <2>2, NoneAssumption DEF Unsent
  <2>4. \A w \in Writers \ {d} : pending'[w] = pending[w]
    BY <1>1, <2>1
  <2>5. QED
    BY <1>1, <2>1, <2>3, <2>4 DEF Known, Unsent
<1>6. ASSUME NEW d \in Writers, Finish(d)
      PROVE  Known(o)'
  <2>1. /\ pending[d] # NoPublication /\ pending[d].seq = next[d]
        /\ next' = [next EXCEPT ![d] = pending[d].seq + 1]
        /\ pending' = [pending EXCEPT ![d] = NoPublication]
    BY <1>6 DEF Finish, PublicationInv, PendingIsNext
  <2>2. /\ next'[d] = next[d] + 1
        /\ \A w \in Writers \ {d} : next'[w] = next[w] /\ pending'[w] = pending[w]
    BY <1>1, <2>1
  <2>3. QED
    BY <1>1, <2>2 DEF Known, Unsent
<1>7. QED
  BY <1>2, <1>3, <1>4, <1>5, <1>6, PendingChanges

------------------------------------------------------------------------------
(* Names and times.                                                        *)

LEMMA DispatchMarks ==
  ASSUME PublicationInv, NEW d \in Writers, Dispatch(d)
  PROVE  /\ pending[d] # NoPublication /\ pending[d] \in Publication /\ pending[d].seq = next[d]
         /\ pending'[d] = [pending[d] EXCEPT !.dispatched = time]
         /\ pending'[d] \in Publication /\ pending'[d] # NoPublication
         /\ pending'[d].dispatched = time /\ time \in Nat /\ ~Unsent(d)'
         /\ \A w \in Writers \ {d} : pending'[w] = pending[w]
         /\ UNCHANGED <<time, next, proofs, checkpoints, observed, job>>
<1>1. PublishedShape
  BY DEF PublicationInv
<1>2. pending[d] # NoPublication /\ pending[d] \in Publication /\ pending[d].seq = next[d]
  BY <1>1 DEF Dispatch, PublishedShape, PublicationInv, PendingIsNext
<1>3. /\ UNCHANGED <<time, next, proofs, checkpoints, observed, job>>
      /\ pending' = [pending EXCEPT ![d] = [@ EXCEPT !.dispatched = time]]
  BY DEF Dispatch
<1>4. pending'[d] = [pending[d] EXCEPT !.dispatched = time] /\ time \in Nat
  BY <1>1, <1>3 DEF PublishedShape
<1>5. pending'[d].dispatched = time /\ pending'[d] \in Publication
  BY <1>2, <1>4 DEF Publication
<1>6. pending'[d] # NoPublication /\ ~Unsent(d)'
  BY <1>4, <1>5, NoneAssumption DEF Unsent
<1>7. \A w \in Writers \ {d} : pending'[w] = pending[w]
  BY <1>1, <1>3 DEF PublishedShape
<1>8. QED
  BY <1>2, <1>3, <1>4, <1>5, <1>6, <1>7

LEMMA DispatchedIsKnown ==
  ASSUME PublicationInv, NamesInv, [Next]_vars, NEW d \in Writers, Dispatch(d),
         NEW s, s = SegmentOf(d), s.body # NoBody
  PROVE  Known(s.body)'
<1>1. PICK o : o = s.body /\ o = pending[d].body
  BY DEF SegmentOf
<1>2. CASE pending[d].reused
  <2>1. Known(o)
    BY <1>1, <1>2 DEF NamesInv, Reused, Dispatch
  <2>2. QED
    BY <1>1, <2>1, KnownStays
<1>3. CASE ~pending[d].reused
  <2>1. o \in Object /\ o.writer = d /\ o.seq = next[d]
    BY <1>1, <1>3, DispatchMarks DEF NamesInv, Fresh, Publication
  <2>2. Known(o)'
    BY <2>1, DispatchMarks DEF Known
  <2>3. QED
    BY <1>1, <2>2
<1>4. QED
  BY <1>2, <1>3

(* What a device reads, and what it makes of it.                           *)
LEMMA JobsChange ==
  ASSUME CatalogInv, [Next]_vars, NEW w \in Writers, job'[w] # job[w], job'[w] # NoJob
  PROVE  \/ /\ ReadSegments(w)
            /\ job'[w].catalog = Read(w) /\ job'[w].found = {} /\ job'[w].use = job[w].use
         \/ \E use \in {"receive", "compaction"} :
              /\ BeginRead(w, use)
              /\ job'[w] = [use |-> use, found |-> checkpoints, catalog |-> NoJob]
<1>1. DOMAIN job = Writers
  BY DEF CatalogInv
<1>2. ASSUME NEW d \in Writers, ReadSegments(d)
      PROVE  /\ d = w
             /\ job'[w].catalog = Read(w) /\ job'[w].found = {} /\ job'[w].use = job[w].use
  <2>1. job' = [job EXCEPT ![d] = [@ EXCEPT !.catalog = Read(d), !.found = {}]]
    BY <1>2 DEF ReadSegments
  <2>2. d = w
    BY <1>1, <2>1
  <2>3. DOMAIN job[w] = {"use", "found", "catalog"}
    BY <1>2, <2>2 DEF CatalogInv, JobOK, ReadSegments
  <2>4. QED
    BY <1>1, <2>1, <2>2, <2>3
<1>3. ASSUME NEW d \in Writers, NEW use, BeginRead(d, use)
      PROVE  d = w /\ job'[w] = [use |-> use, found |-> checkpoints, catalog |-> NoJob]
  BY <1>1, <1>3 DEF BeginRead
<1>4. ASSUME NEW d \in Writers, PublishCheckpoint(d) \/ AbandonJob(d) \/ ReceivePublished(d)
      PROVE  FALSE
  <2>1. job' = [job EXCEPT ![d] = NoJob]
    BY <1>4 DEF PublishCheckpoint, AbandonJob, ReceivePublished
  <2>2. QED
    BY <1>1, <2>1
<1>5. \/ \E d \in Writers : \/ ReadSegments(d) \/ PublishCheckpoint(d) \/ AbandonJob(d)
                             \/ ReceivePublished(d)
      \/ \E d \in Writers, use \in {"receive", "compaction"} : BeginRead(d, use)
  BY DEF Next, vars, Publish, Receive, Compact, Tick, ReceiveSegment,
         Capture, AbandonUnsent, Dispatch, Finish, Clean
<1>6. QED
  BY <1>2, <1>3, <1>4, <1>5

LEMMA NamesStep ==
  ASSUME PublicationInv, CatalogInv, TimesInv, NamesInv, CompactionInv, [Next]_vars
  PROVE  NamesInv'
<1>1. PublishedShape
  BY DEF PublicationInv
<1>2. ASSUME NEW s \in landed', s.body # NoBody
      PROVE  Known(s.body)'
  <2>1. CASE s \in landed
    BY <1>2, <2>1, KnownStays DEF NamesInv
  <2>2. ASSUME NEW d \in Writers, Dispatch(d), s = SegmentOf(d)
        PROVE  Known(s.body)'
    BY <1>2, <2>2, DispatchedIsKnown
  <2>3. QED
    BY <2>1, <2>2, LandedFrame
<1>3. ASSUME NEW w \in Writers, NEW b \in Bodies, NEW p, p = proofs'[w][b], p # NoProof
      PROVE  Known(p.object)'
  <2>1. CASE p = proofs[w][b]
    BY <1>3, <2>1, KnownStays DEF NamesInv
  <2>2. ASSUME NEW d \in Writers, NEW s \in segments, NEW rooted \in Nat,
               proofs' = WithProof(d, s, rooted)
        PROVE  Known(p.object)'
    <3>1. s \in landed /\ s \in Segment /\ ProofsOK
      BY <1>1 DEF PublishedShape
    <3>2. \/ p = proofs[w][b]
          \/ s.body # NoBody /\ p.object = s.body
      BY <1>3, <2>2, <3>1, WithProofIs
    <3>3. CASE s.body # NoBody /\ p.object = s.body
      BY <3>1, <3>3, KnownStays DEF NamesInv
    <3>4. QED
      BY <2>1, <3>2, <3>3
  <2>3. time \in Nat /\ \A s \in segments : s.change.stamp.physical \in Nat
    BY <1>1 DEF PublishedShape, TimesInv
  <2>4. QED
    BY <1>3, <2>1, <2>2, <2>3, ProofsChange DEF Finish
<1>4. ASSUME NEW w \in Writers, NEW p, p = pending'[w], p # NoPublication
      PROVE  /\ p.reused => Known(p.body)'
             /\ ~p.reused /\ p.body # NoBody => p.body.writer = w /\ p.body.seq = p.seq
  <2>1. pending \in [Writers -> Publication \cup {NoPublication}]
    BY <1>1 DEF PublishedShape
  <2>2. CASE p = pending[w]
    BY <1>4, <2>2, KnownStays DEF NamesInv, Fresh, Reused
  <2>3. CASE Capture(w)
    <3>1. PICK q \in Publication :
            /\ pending' = [pending EXCEPT ![w] = q]
            /\ q.reused => \E b \in Bodies :
                 proofs[w][b] # NoProof /\ q.body = proofs[w][b].object
            /\ ~q.reused /\ q.body # NoBody => q.body.writer = w /\ q.body.seq = q.seq
      BY <2>3, CaptureFacts
    <3>2. p = q
      BY <1>4, <2>1, <3>1
    <3>3. p.reused => Known(p.body)
      BY <3>1, <3>2 DEF NamesInv
    <3>4. QED
      BY <3>1, <3>2, <3>3, KnownStays
  <2>4. CASE Dispatch(w)
    <3>1. /\ pending[w] # NoPublication
          /\ p.reused = pending[w].reused /\ p.body = pending[w].body /\ p.seq = pending[w].seq
      BY <1>4, <2>4, DispatchMarks DEF Publication
    <3>2. QED
      BY <3>1, KnownStays DEF NamesInv, Fresh, Reused
  <2>5. ASSUME NEW d \in Writers,
               Capture(d) \/ AbandonUnsent(d) \/ Dispatch(d) \/ Finish(d), p # pending[w]
        PROVE  Capture(w) \/ Dispatch(w)
    <3>1. PICK q : pending' = [pending EXCEPT ![d] = q]
      BY <2>5 DEF Capture, AbandonUnsent, Dispatch, Finish
    <3>2. d = w /\ p = q
      BY <1>4, <2>1, <2>5, <3>1
    <3>3. AbandonUnsent(d) \/ Finish(d) => pending' = [pending EXCEPT ![d] = NoPublication]
      BY DEF AbandonUnsent, Finish
    <3>4. QED
      BY <1>4, <2>1, <2>5, <3>2, <3>3
  <2>6. QED
    BY <1>4, <2>2, <2>3, <2>4, <2>5, PendingChanges
<1>5. ASSUME NEW d \in Writers, job[d] # NoJob, job[d].catalog # NoJob
      PROVE  \A o \in job[d].catalog.bodies : Known(o)'
  BY <1>5, KnownStays DEF NamesInv
<1>6. ASSUME NEW c \in checkpoints'
      PROVE  IsCheckpoint(c) /\ \A o \in c.bodies : Known(o)'
  <2>1. CASE c \in checkpoints
    BY <2>1, KnownStays DEF NamesInv
  <2>2. ASSUME NEW d \in Writers, PublishCheckpoint(d), c \notin checkpoints
        PROVE  IsCheckpoint(c) /\ \A o \in c.bodies : Known(o)'
    <3>1. PICK id \in work.names, bodies \in Standalone(job[d].catalog) :
            c = [id |-> id, coverage |-> job[d].catalog.coverage,
                 changes |-> job[d].catalog.changes, bodies |-> bodies]
      BY <2>2 DEF PublishCheckpoint
    <3>2. c.bodies \subseteq job[d].catalog.bodies /\ IsCheckpoint(c)
      BY <3>1 DEF Standalone, IsCheckpoint
    <3>3. QED
      BY <1>5, <2>2, <3>2 DEF PublishCheckpoint
  <2>3. checkpoints' \subseteq checkpoints \/ \E d \in Writers : PublishCheckpoint(d)
    BY DEF Next, vars, Publish, Receive, Compact, Tick, ReceiveSegment, ReceivePublished,
           ReadSegments, AbandonJob, BeginRead, Capture, AbandonUnsent, Dispatch, Finish, Clean
  <2>4. QED
    BY <2>1, <2>2, <2>3
<1>7. ASSUME NEW w \in Writers, NEW j, j = job'[w], j # NoJob, j.catalog # NoJob
      PROVE  \A o \in j.catalog.bodies : Known(o)'
  <2>1. CASE j = job[w]
    BY <1>5, <1>7, <2>1
  <2>2. CASE ReadSegments(w) /\ j.catalog.bodies = Read(w).bodies
    <3>1. job[w] # NoJob /\ job[w].found \subseteq checkpoints
      BY <2>2 DEF ReadSegments, CompactionInv
    <3>2. Read(w).bodies \subseteq (UNION {c.bodies : c \in job[w].found})
                                  \cup ({s.body : s \in segments} \ {NoBody})
      BY DEF Read, PublishedState, Included, retained
    <3>3. \A o \in Read(w).bodies : Known(o)
      BY <1>1, <3>1, <3>2 DEF NamesInv, PublishedShape
    <3>4. QED
      BY <2>2, <3>3, KnownStays
  <2>3. ASSUME j # job[w]
        PROVE  ReadSegments(w) /\ j.catalog.bodies = Read(w).bodies
    BY <1>7, <2>3, JobsChange
  <2>4. QED
    BY <2>1, <2>2, <2>3
<1>8. QED
  <2>1. ASSUME NEW w \in Writers, Reused(w)'
        PROVE  Known(pending[w].body)'
    <3>1. PICK p : p = pending'[w]
      OBVIOUS
    <3>2. Known(p.body)'
      BY <1>4, <2>1, <3>1 DEF Reused
    <3>3. QED
      BY <3>1, <3>2 DEF Known, Unsent
  <2>2. ASSUME NEW w \in Writers, Fresh(w)'
        PROVE  pending'[w].body.writer = w /\ pending'[w].body.seq = pending'[w].seq
    BY <1>4, <2>2 DEF Fresh
  <2>3. ASSUME NEW w \in Writers, NEW b \in Bodies, proofs'[w][b] # NoProof
        PROVE  Known(proofs[w][b].object)'
    <3>1. PICK p : p = proofs'[w][b]
      OBVIOUS
    <3>2. Known(p.object)'
      BY <1>3, <2>3, <3>1
    <3>3. QED
      BY <3>1, <3>2 DEF Known, Unsent
  <2>4. ASSUME NEW w \in Writers, job'[w] # NoJob, job'[w].catalog # NoJob
        PROVE  \A o \in job'[w].catalog.bodies : Known(o)'
    BY <1>7, <2>4
  <2>5. QED
    BY <1>2, <1>6, <2>1, <2>2, <2>3, <2>4 DEF NamesInv

LEMMA TimeGoesOn ==
  ASSUME PublicationInv, [Next]_vars
  PROVE  time \in Nat /\ time' \in Nat /\ time <= time' /\ (time' # time => Tick)
<1>1. time \in Nat
  BY DEF PublicationInv, PublishedShape
<1>2. time' = time \/ (Tick /\ time' = time + 1)
  BY DEF Next, vars, Publish, Receive, Compact, Tick, ReceiveSegment, ReceivePublished,
         ReadSegments, PublishCheckpoint, AbandonJob, BeginRead, Capture, AbandonUnsent, Dispatch,
         Finish, Clean
<1>3. QED
  BY <1>1, <1>2

(* Where the publication of a device comes from.                           *)
LEMMA PendingWas ==
  ASSUME PublicationInv, [Next]_vars, NEW w \in Writers,
         pending'[w] # pending[w], pending'[w] # NoPublication
  PROVE  Capture(w) \/ Dispatch(w)
<1>1. pending \in [Writers -> Publication \cup {NoPublication}]
  BY DEF PublicationInv, PublishedShape
<1>2. PICK d \in Writers : Capture(d) \/ AbandonUnsent(d) \/ Dispatch(d) \/ Finish(d)
  BY PendingChanges
<1>3. PICK q : pending' = [pending EXCEPT ![d] = q]
  BY <1>2 DEF Capture, AbandonUnsent, Dispatch, Finish
<1>4. d = w
  BY <1>1, <1>3
<1>5. AbandonUnsent(d) \/ Finish(d) => pending' = [pending EXCEPT ![d] = NoPublication]
  BY DEF AbandonUnsent, Finish
<1>6. QED
  BY <1>1, <1>2, <1>4, <1>5

LEMMA TimesStep ==
  ASSUME PublicationInv, TimesInv, [Next]_vars
  PROVE  TimesInv'
<1>1. PublishedShape /\ PublishedShape'
  BY PublicationStep DEF PublicationInv
<1>2. time \in Nat /\ time' \in Nat /\ time <= time'
  BY TimeGoesOn
<1>3. \A w \in Writers : pending[w] # NoPublication =>
        /\ pending[w].captured \in Nat /\ pending[w].dispatched \in Nat \cup {-1}
        /\ pending[w].rooted \in Nat
  BY <1>1 DEF PublishedShape, Publication
<1>4. ASSUME NEW s \in landed'
      PROVE  s.change.stamp.physical \in Nat /\ s.change.stamp.physical <= time'
  <2>1. CASE s \in landed
    BY <1>2, <2>1 DEF TimesInv
  <2>2. ASSUME NEW d \in Writers, Dispatch(d), s = SegmentOf(d)
        PROVE  s.change.stamp.physical \in Nat /\ s.change.stamp.physical <= time'
    <3>1. pending[d] # NoPublication /\ s.change = pending[d].change
      BY <2>2 DEF Dispatch, SegmentOf
    <3>2. QED
      BY <1>2, <1>3, <3>1 DEF TimesInv
  <2>3. QED
    BY <2>1, <2>2, LandedFrame
<1>5. ASSUME NEW w \in Writers, NEW b \in Bodies, NEW p, p = proofs'[w][b], p # NoProof
      PROVE  p.rooted <= time'
  <2>1. CASE p = proofs[w][b]
    <3>1. p.rooted \in Nat
      BY <1>1, <1>5, <2>1 DEF PublishedShape, ProofsOK, AssetProof
    <3>2. QED
      BY <1>2, <1>5, <2>1, <3>1 DEF TimesInv
  <2>2. ASSUME NEW d \in Writers, NEW s \in Segment, NEW rooted \in Nat, rooted <= time,
               proofs' = WithProof(d, s, rooted), p # proofs[w][b]
        PROVE  p.rooted <= time'
    <3>1. \/ p.rooted = rooted
          \/ proofs[w][b] # NoProof /\ p.rooted = proofs[w][b].rooted
      BY <1>1, <1>5, <2>2, WithProofIs DEF PublishedShape
    <3>2. proofs[w][b] # NoProof => proofs[w][b].rooted \in Nat /\ proofs[w][b].rooted <= time
      BY <1>1 DEF TimesInv, PublishedShape, ProofsOK, AssetProof
    <3>3. QED
      BY <1>2, <2>2, <3>1, <3>2
  <2>3. ASSUME NEW d \in Writers, Finish(d)
        PROVE  SegmentOf(d) \in Segment
    BY <1>1, <2>3 DEF Finish, PublishedShape
  <2>4. \A s \in segments : /\ s \in Segment
                            /\ s.change.stamp.physical \in Nat /\ s.change.stamp.physical <= time
    BY <1>1 DEF PublishedShape, TimesInv
  <2>5. CASE p # proofs[w][b]
    BY <1>2, <1>5, <2>2, <2>3, <2>4, <2>5, ProofsChange
  <2>6. QED
    BY <2>1, <2>5
<1>6. ASSUME NEW w \in Writers, pending'[w] # NoPublication
      PROVE  /\ pending'[w].captured <= time' /\ pending'[w].dispatched <= time'
             /\ pending'[w].rooted <= time'
             /\ pending'[w].change.stamp.physical = pending'[w].captured
  <2>1. CASE pending'[w] = pending[w]
    BY <1>2, <1>3, <1>6, <2>1 DEF TimesInv
  <2>2. CASE Capture(w)
    <3>1. PICK q : /\ pending' = [pending EXCEPT ![w] = q]
                   /\ q.dispatched = -1 /\ q.captured = time
                   /\ q.change.stamp.physical = time /\ q.rooted <= time /\ q.rooted \in Nat
      BY <2>2, CaptureFacts DEF Publication
    <3>2. pending'[w] = q
      BY <1>1, <3>1 DEF PublishedShape
    <3>3. QED
      BY <1>2, <3>1, <3>2
  <2>3. CASE Dispatch(w)
    <3>1. /\ pending[w] # NoPublication /\ pending'[w].dispatched = time
          /\ pending'[w].captured = pending[w].captured /\ pending'[w].rooted = pending[w].rooted
          /\ pending'[w].change = pending[w].change
      BY <2>3, DispatchMarks DEF Publication
    <3>2. QED
      BY <1>2, <1>3, <3>1 DEF TimesInv
  <2>4. QED
    BY <1>6, <2>1, <2>2, <2>3, PendingWas
<1>7. QED
  BY <1>4, <1>5, <1>6 DEF TimesInv

------------------------------------------------------------------------------
(* Roots and ages.                                                         *)

(* The roots after a step, as KeptRootsAre says.                           *)
LEMMA NextRootsAre ==
  ASSUME PublicationInv, LandedInv, CatalogInv, [Next]_vars
  PROVE  /\ KeptRoots' = {c \in checkpoints' : ~Superseded(c)'}
                         \cup {s \in segments' : ~IsCovered(s)'}
<1>1. PublicationInv' /\ CatalogInv'
  BY PublicationStep, CatalogStep
<1>2. (PublicationInv /\ CatalogInv =>
        KeptRoots = {c \in checkpoints : ~Superseded(c)} \cup {s \in segments : ~IsCovered(s)})'
  BY KeptRootsAre, PTL
<1>3. QED
  BY <1>1, <1>2

(* A root was a root, or is new.                                           *)
LEMMA RootsWere ==
  ASSUME PublicationInv, LandedInv, CatalogInv, [Next]_vars, NEW k \in KeptRoots'
  PROVE  k \in KeptRoots \/ k \in segments' \ segments \/ k \in checkpoints' \ checkpoints
<1>1. CASE k \in checkpoints' /\ ~Superseded(k)' /\ k \in checkpoints
  <2>1. k.id \in Nat /\ k.coverage \in Coverage
    BY <1>1 DEF CatalogInv, CheckpointsOK, Accounted, Published
  <2>2. ~Superseded(k)
    BY <1>1, <2>1, SupersededStays
  <2>3. QED
    BY <1>1, <2>2, KeptRootsAre
<1>2. CASE k \in segments' /\ ~IsCovered(k)' /\ k \in segments
  <2>1. k \in landed
    BY <1>2 DEF PublicationInv, PublishedShape
  <2>2. QED
    BY <1>2, <2>1, CoveredStays, KeptRootsAre
<1>3. QED
  BY <1>1, <1>2, NextRootsAre

LEMMA RootsHaveNoAge ==
  ASSUME PublicationInv, NamesInv, CatalogInv, AgesInv, NEW k \in KeptRoots, NEW d \in Writers
  PROVE  k \notin DOMAIN observed[d] /\ k \in Documents
<1>1. CASE k \in checkpoints /\ ~Superseded(k)
  BY <1>1 DEF AgesInv, NamesInv, Documents
<1>2. CASE k \in segments /\ ~IsCovered(k)
  BY <1>2 DEF AgesInv, PublicationInv, PublishedShape, Documents
<1>3. QED
  BY <1>1, <1>2, KeptRootsAre

(* What a clean-up finds.                                                  *)
LEMMA DocumentsName ==
  ASSUME PublicationInv, NamesInv, NEW k \in Documents, NEW o \in References(k)
  PROVE  Known(o) /\ o \in Object /\ o \notin Documents
<1>1. CASE k \in segments
  <2>1. k \in Segment /\ k \in landed
    BY <1>1 DEF PublicationInv, PublishedShape
  <2>2. o = k.body /\ k.body # NoBody
    BY <2>1, SegmentsAreNoCheckpoints
  <2>3. Known(o)
    BY <2>1, <2>2 DEF NamesInv
  <2>4. QED
    BY <2>3, DocumentsListed, DocumentsAreNoObjects DEF Known
<1>2. CASE k \in checkpoints
  <2>1. o \in k.bodies /\ Known(o)
    BY <1>2 DEF NamesInv, References, IsCheckpoint
  <2>2. QED
    BY <2>1, DocumentsListed, DocumentsAreNoObjects DEF Known
<1>3. QED
  BY <1>1, <1>2 DEF Documents

LEMMA UnreachableAre ==
  ASSUME PublicationInv, CatalogInv, NamesInv
  PROVE  /\ \A k \in Documents : k \in Unreachable <=> k \notin KeptRoots
         /\ \A i \in Unreachable :
              \/ i \in Documents /\ i \notin KeptRoots
              \/ /\ i \in Object /\ i \in stored
                 /\ \E k \in Documents : k \notin KeptRoots /\ i \in References(k)
         /\ \A i \in Unreachable : \A k \in KeptRoots : i \notin References(k)
         /\ \A k \in Documents : \A o \in References(k) :
              \/ o \notin stored \/ o \in Unreachable
              \/ \E root \in KeptRoots : o \in References(root)
<1>1. KeptRoots \subseteq Documents
  BY KeptRootsAre DEF Documents
<1>2. \A k \in Documents : \A o \in References(k) : o \in Object /\ o \notin Documents
  BY DocumentsName
<1>3. QED
  BY <1>1, <1>2 DEF Unreachable

LEMMA CleanFacts ==
  ASSUME PublicationInv, AgesInv, NEW d \in Writers, Clean(d)
  PROVE  \E first, gone :
           /\ DOMAIN first = Unreachable
           /\ \A i \in Unreachable :
                /\ first[i] \in Nat /\ first[i] <= time
                /\ first[i] = IF i \in DOMAIN observed[d] THEN observed[d][i] ELSE time
           /\ gone \subseteq Eligible(first)
           /\ \A i \in gone \cap Documents :
                References(i) \cap Unreachable \subseteq Eligible(first)
           /\ \A o \in Eligible(first) \ Documents : gone \cap Documents # {} => o \in gone
           /\ segments' = segments \ gone /\ checkpoints' = checkpoints \ gone
           /\ stored' = stored \ gone
           /\ DOMAIN observed'[d] = Unreachable \ gone
           /\ \A i \in Unreachable \ gone : observed'[d][i] = first[i]
           /\ DOMAIN observed' = Writers
           /\ \A w \in Writers \ {d} : observed'[w] = observed[w]
           /\ UNCHANGED <<time, pending, next, proofs, received, job, landed>>
           /\ \A w \in Writers : job[w] # NoJob => job[w].use = "receive"
<1>1. PICK first : first = Ages(d, Unreachable)
  OBVIOUS
<1>2. PICK gone \in SUBSET Candidates(first) :
        /\ gone \cap Documents # {} => Candidates(first) \ Documents \subseteq gone
        /\ segments' = segments \ gone /\ checkpoints' = checkpoints \ gone
        /\ stored' = stored \ gone
        /\ observed' = [observed EXCEPT ![d] = [i \in DOMAIN first \ gone |-> first[i]]]
  BY <1>1 DEF Clean
<1>3. /\ DOMAIN observed = Writers
      /\ \A i \in DOMAIN observed[d] : observed[d][i] \in Nat /\ observed[d][i] <= time
  BY DEF AgesInv
<1>4. time \in Nat
  BY DEF PublicationInv, PublishedShape
<1>5. /\ DOMAIN first = Unreachable
      /\ \A i \in Unreachable :
           /\ first[i] \in Nat /\ first[i] <= time
           /\ first[i] = IF i \in DOMAIN observed[d] THEN observed[d][i] ELSE time
  BY <1>1, <1>3, <1>4 DEF Ages
<1>6. /\ gone \subseteq Eligible(first)
      /\ \A i \in gone \cap Documents : References(i) \cap Unreachable \subseteq Eligible(first)
      /\ \A o \in Eligible(first) \ Documents : gone \cap Documents # {} => o \in gone
  BY <1>2, <1>5 DEF Candidates
<1>7. /\ DOMAIN observed'[d] = Unreachable \ gone
      /\ \A i \in Unreachable \ gone : observed'[d][i] = first[i]
      /\ DOMAIN observed' = Writers
      /\ \A w \in Writers \ {d} : observed'[w] = observed[w]
  BY <1>2, <1>3, <1>5
<1>8. /\ UNCHANGED <<time, pending, next, proofs, received, job, landed>>
      /\ \A w \in Writers : job[w] # NoJob => job[w].use = "receive"
  BY DEF Clean
<1>9. QED
  BY <1>2, <1>5, <1>6, <1>7, <1>8

LEMMA ObservedChanges ==
  ASSUME [Next]_vars
  PROVE  observed' = observed \/ \E d \in Writers : Clean(d)
BY DEF Next, vars, Publish, Receive, Compact, Tick, ReceiveSegment, ReceivePublished, ReadSegments,
       PublishCheckpoint, AbandonJob, BeginRead, Capture, AbandonUnsent, Dispatch, Finish

(* A document that no root is has been covered or superseded.              *)
LEMMA AgedAre ==
  ASSUME PublicationInv, NamesInv, TimesInv, CatalogInv, NEW i \in Unreachable
  PROVE  /\ i \in Object \/ IsDocument(i)
         /\ i \in Segment => i \in landed /\ IsCovered(i) /\ i.change.stamp.physical <= time
         /\ IsCheckpoint(i) => /\ i.id \in Nat /\ i.coverage \in Coverage /\ Superseded(i)
                               /\ \A o \in i.bodies : Known(o)
<1>1. CASE i \in Object /\ i \notin Documents
  BY <1>1, DocumentsAreNoObjects DEF IsDocument
<1>2. CASE i \in segments /\ i \notin KeptRoots
  <2>1. i \in Segment /\ i \in landed
    BY <1>2 DEF PublicationInv, PublishedShape
  <2>2. IsCovered(i) /\ i.change.stamp.physical <= time /\ ~IsCheckpoint(i)
    BY <1>2, <2>1, KeptRootsAre, SegmentsAreNoCheckpoints DEF TimesInv
  <2>3. QED
    BY <2>1, <2>2 DEF IsDocument
<1>3. CASE i \in checkpoints /\ i \notin KeptRoots
  <2>1. IsCheckpoint(i) /\ i \notin Segment /\ \A o \in i.bodies : Known(o)
    BY <1>3, SegmentsAreNoCheckpoints DEF NamesInv
  <2>2. i.id \in Nat /\ i.coverage \in Coverage /\ Superseded(i)
    BY <1>3, KeptRootsAre DEF CatalogInv, CheckpointsOK, Accounted, Published
  <2>3. QED
    BY <2>1, <2>2 DEF IsDocument
<1>4. QED
  BY <1>1, <1>2, <1>3, UnreachableAre DEF Documents

LEMMA AgesStep ==
  ASSUME PublicationInv, CatalogInv, NamesInv, TimesInv, AgesInv, [Next]_vars
  PROVE  AgesInv'
<1>1. time \in Nat /\ time' \in Nat /\ time <= time'
  BY TimeGoesOn
<1>2. ASSUME NEW i,
             /\ i \in Object \/ IsDocument(i)
             /\ i \in Segment => i \in landed /\ IsCovered(i)
             /\ IsCheckpoint(i) => /\ i.id \in Nat /\ i.coverage \in Coverage /\ Superseded(i)
                                   /\ \A o \in i.bodies : Known(o)
      PROVE  /\ i \in Object \/ IsDocument(i)
             /\ i \in Segment => i \in landed' /\ IsCovered(i)'
             /\ IsCheckpoint(i) => /\ i.id \in Nat /\ i.coverage \in Coverage /\ Superseded(i)'
                                   /\ \A o \in i.bodies : Known(o)'
  BY <1>2, CoveredStays, SupersededStays, KnownStays, LandedFrame
<1>3. ASSUME NEW w \in Writers, observed'[w] = observed[w], NEW i \in DOMAIN observed[w]
      PROVE  /\ observed[w][i] \in Nat /\ observed[w][i] <= time'
             /\ i \in Object \/ IsDocument(i)
             /\ i \in Segment => /\ i \in landed' /\ IsCovered(i)'
                                 /\ i.change.stamp.physical <= observed[w][i]
             /\ IsCheckpoint(i) => /\ i.id \in Nat /\ i.coverage \in Coverage /\ Superseded(i)'
                                   /\ \A o \in i.bodies : Known(o)'
  <2>1. /\ observed[w][i] \in Nat /\ observed[w][i] <= time
        /\ i \in Segment => i.change.stamp.physical <= observed[w][i]
        /\ i \in Object \/ IsDocument(i)
        /\ i \in Segment => i \in landed /\ IsCovered(i)
        /\ IsCheckpoint(i) => /\ i.id \in Nat /\ i.coverage \in Coverage /\ Superseded(i)
                              /\ \A o \in i.bodies : Known(o)
    BY <1>3 DEF AgesInv
  <2>2. QED
    BY <1>1, <1>2, <2>1
<1>4. CASE observed' = observed
  BY <1>3, <1>4 DEF AgesInv
<1>5. ASSUME NEW d \in Writers, Clean(d)
      PROVE  AgesInv'
  <2>1. PICK first, gone :
          /\ \A i \in Unreachable :
               /\ first[i] \in Nat /\ first[i] <= time
               /\ first[i] = IF i \in DOMAIN observed[d] THEN observed[d][i] ELSE time
          /\ DOMAIN observed'[d] = Unreachable \ gone
          /\ \A i \in Unreachable \ gone : observed'[d][i] = first[i]
          /\ DOMAIN observed' = Writers
          /\ \A w \in Writers \ {d} : observed'[w] = observed[w]
    BY <1>5, CleanFacts
  <2>2. ASSUME NEW i \in Unreachable \ gone
        PROVE  /\ first[i] \in Nat /\ first[i] <= time'
               /\ i \in Object \/ IsDocument(i)
               /\ i \in Segment => /\ i \in landed' /\ IsCovered(i)'
                                   /\ i.change.stamp.physical <= first[i]
               /\ IsCheckpoint(i) => /\ i.id \in Nat /\ i.coverage \in Coverage /\ Superseded(i)'
                                     /\ \A o \in i.bodies : Known(o)'
    <3>1. first[i] \in Nat /\ first[i] <= time'
      BY <1>1, <2>1, <2>2
    <3>2. i \in Segment => i.change.stamp.physical <= first[i]
      BY <2>1, <2>2, AgedAre DEF AgesInv
    <3>3. QED
      BY <1>2, <3>1, <3>2, AgedAre
  <2>3. QED
    BY <1>3, <2>1, <2>2 DEF AgesInv
<1>6. QED
  BY <1>4, <1>5, ObservedChanges

------------------------------------------------------------------------------
(* Bodies that stay.                                                       *)

LEMMA StorageGrows ==
  ASSUME [Next]_vars
  PROVE  \/ /\ stored \subseteq stored' /\ Documents \subseteq Documents'
            /\ segments \subseteq segments' /\ observed' = observed
         \/ \E d \in Writers : Clean(d)
BY DEF Next, vars, Publish, Receive, Compact, Tick, ReceiveSegment, ReceivePublished, ReadSegments,
       PublishCheckpoint, AbandonJob, BeginRead, Capture, AbandonUnsent, Dispatch, Finish,
       Documents

LEMMA OnlyDispatchStores ==
  ASSUME [Next]_vars
  PROVE  \/ segments' \subseteq segments /\ stored' \subseteq stored
         \/ \E d \in Writers :
              /\ Dispatch(d) /\ segments' \subseteq segments \cup {SegmentOf(d)}
              /\ \A o \in stored' \ stored :
                   o = pending[d].body /\ o # NoBody /\ ~pending[d].reused /\ Unsent(d)
<1>1. ASSUME NEW d \in Writers, Dispatch(d)
      PROVE  /\ Dispatch(d) /\ segments' \subseteq segments \cup {SegmentOf(d)}
             /\ \A o \in stored' \ stored :
                  o = pending[d].body /\ o # NoBody /\ ~pending[d].reused /\ Unsent(d)
  BY <1>1 DEF Dispatch, Unsent
<1>2. QED
  BY <1>1
     DEF Next, vars, Publish, Receive, Compact, Tick, ReceiveSegment, ReceivePublished,
         ReadSegments, PublishCheckpoint, AbandonJob, BeginRead, Capture, AbandonUnsent,
         Finish, Clean

LEMMA SafeEarlier ==
  ASSUME AgesInv, NEW o, NEW r \in Int, NEW q \in Int, q <= r, Safe(o, r)
  PROVE  Safe(o, q)
<1>1. ASSUME NEW d \in Writers, NEW k, Aged(d, k, r)
      PROVE  Aged(d, k, q)
  BY <1>1 DEF Aged, AgesInv
<1>2. QED
  BY <1>1 DEF Safe

(* What a root names is not deleted, and no device ever saw it age.        *)
LEMMA RootsAreSafe ==
  ASSUME PublicationInv, NamesInv, CatalogInv, AgesInv, NEW d \in Writers, Clean(d),
         NEW k \in KeptRoots
  PROVE  /\ k \in Documents' /\ \A w \in Writers : k \notin DOMAIN observed'[w]
         /\ \A o \in References(k) : o \in stored => o \in stored'
<1>1. PICK first, gone :
        /\ gone \subseteq Eligible(first) /\ DOMAIN first = Unreachable
        /\ segments' = segments \ gone /\ checkpoints' = checkpoints \ gone
        /\ stored' = stored \ gone
        /\ DOMAIN observed'[d] = Unreachable \ gone
        /\ \A w \in Writers \ {d} : observed'[w] = observed[w]
  BY CleanFacts
<1>2. k \in Documents /\ \A w \in Writers : k \notin DOMAIN observed[w]
  BY RootsHaveNoAge
<1>3. k \notin Unreachable /\ \A o \in References(k) : o \notin Unreachable
  BY <1>2, UnreachableAre
<1>4. gone \subseteq Unreachable
  BY <1>1 DEF Eligible
<1>5. QED
  BY <1>1, <1>2, <1>3, <1>4 DEF Documents

(* A body whose youngest namer is younger than the grace stays, with every *)
(* document that names it.                                                 *)
LEMMA YoungStays ==
  ASSUME PublicationInv, NamesInv, CatalogInv, AgesInv, NEW d \in Writers, Clean(d),
         NEW o, o \in stored, NEW r \in Int, r <= time, time < r + GRACE,
         NEW k \in Documents, o \in References(k), Aged(d, k, r),
         \A root \in KeptRoots : o \notin References(root)
  PROVE  /\ o \in stored' /\ Aged(d, k, r)'
         /\ \A other \in Documents : o \in References(other) => other \in Documents'
<1>1. PICK first, gone :
        /\ DOMAIN first = Unreachable
        /\ \A i \in Unreachable :
             /\ first[i] \in Nat
             /\ first[i] = IF i \in DOMAIN observed[d] THEN observed[d][i] ELSE time
        /\ gone \subseteq Eligible(first)
        /\ \A i \in gone \cap Documents : References(i) \cap Unreachable \subseteq Eligible(first)
        /\ segments' = segments \ gone /\ checkpoints' = checkpoints \ gone
        /\ stored' = stored \ gone
        /\ DOMAIN observed'[d] = Unreachable \ gone
        /\ \A i \in Unreachable \ gone : observed'[d][i] = first[i]
  BY CleanFacts
<1>2. k \in Unreachable /\ o \in Unreachable
  BY UnreachableAre
<1>3. r <= first[k]
  BY <1>1, <1>2 DEF Aged
<1>4. time \in Nat /\ GRACE \in Nat
  BY LimitsAssumption DEF PublicationInv, PublishedShape
<1>5. ~(first[k] + GRACE <= time)
  BY <1>1, <1>2, <1>3, <1>4
<1>6. o \notin Eligible(first)
  BY <1>1, <1>2, <1>5 DEF Eligible
<1>7. \A other \in Documents : o \in References(other) => other \notin gone
  BY <1>1, <1>2, <1>6
<1>8. Aged(d, k, r)'
  BY <1>1, <1>3 DEF Aged
<1>9. QED
  BY <1>1, <1>6, <1>7, <1>8 DEF Documents

LEMMA SafeStays ==
  ASSUME PublicationInv, NamesInv, CatalogInv, AgesInv, [Next]_vars,
         NEW o, NEW r \in Int, r <= time, time < r + GRACE, Safe(o, r)
  PROVE  Safe(o, r)'
<1>1. CASE /\ stored \subseteq stored' /\ Documents \subseteq Documents'
           /\ observed' = observed
  BY <1>1 DEF Safe, Aged
<1>2. ASSUME NEW d \in Writers, Clean(d)
      PROVE  Safe(o, r)'
  <2>1. ASSUME NEW root \in KeptRoots, o \in References(root)
        PROVE  Safe(o, r)'
    <3>1. o \in stored' /\ root \in Documents' /\ \A w \in Writers : root \notin DOMAIN observed'[w]
      BY <1>2, <2>1, RootsAreSafe DEF Safe
    <3>2. QED
      BY <2>1, <3>1 DEF Safe, Aged
  <2>2. ASSUME \A root \in KeptRoots : o \notin References(root)
        PROVE  Safe(o, r)'
    <3>1. PICK k \in Documents : o \in References(k) /\ Aged(d, k, r)
      BY DEF Safe
    <3>2. /\ o \in stored' /\ Aged(d, k, r)'
          /\ \A other \in Documents : o \in References(other) => other \in Documents'
      BY <1>2, <2>2, <3>1, YoungStays DEF Safe
    <3>3. ASSUME NEW w \in Writers
          PROVE  \E e \in Documents' : o \in References(e) /\ Aged(w, e, r)'
      <4>1. CASE w = d
        BY <3>1, <3>2, <4>1
      <4>2. CASE w # d
        <5>1. PICK e \in Documents : o \in References(e) /\ Aged(w, e, r)
          BY DEF Safe
        <5>2. observed'[w] = observed[w]
          BY <1>2, <4>2, CleanFacts
        <5>3. QED
          BY <3>2, <5>1, <5>2 DEF Aged
      <4>3. QED
        BY <4>1, <4>2
    <3>4. QED
      BY <3>2, <3>3 DEF Safe
  <2>3. QED
    BY <2>1, <2>2
<1>3. QED
  BY <1>1, <1>2, StorageGrows

------------------------------------------------------------------------------
(* Bodies that are named again.                                            *)

LEMMA UnsentIsUnknown ==
  ASSUME PublicationInv, NamesInv, NEW d \in Writers, Fresh(d), Unsent(d)
  PROVE  ~Known(pending[d].body)
<1>1. pending[d].body.writer = d /\ pending[d].body.seq = next[d] /\ next[d] \in Nat
  BY DEF NamesInv, Fresh, PublicationInv, PendingIsNext, PublishedShape
<1>2. QED
  BY <1>1 DEF Known

LEMMA AgedNameKnown ==
  ASSUME NamesInv, AgesInv, NEW w \in Writers, NEW k \in DOMAIN observed[w], IsDocument(k),
         NEW o \in References(k)
  PROVE  Known(o)
<1>1. CASE k \in Segment
  BY <1>1, SegmentsAreNoCheckpoints DEF AgesInv, NamesInv
<1>2. CASE IsCheckpoint(k)
  BY <1>2 DEF AgesInv, References, IsCheckpoint
<1>3. QED
  BY <1>1, <1>2 DEF IsDocument

LEMMA PublicationNumbers ==
  ASSUME PublicationInv, NEW d \in Writers, pending[d] # NoPublication
  PROVE  /\ pending[d] \in Publication /\ pending[d].seq = next[d]
         /\ pending[d].captured \in Nat /\ pending[d].rooted \in Nat
         /\ pending[d].dispatched \in Int
         /\ time \in Nat /\ REUSE_LIMIT \in Nat /\ GRACE \in Nat /\ SettleLimit \in Nat
<1>1. pending[d] \in Publication
  BY DEF PublicationInv, PublishedShape
<1>2. QED
  BY <1>1, LimitsAssumption DEF PublicationInv, PublishedShape, PendingIsNext, Publication

(* A segment lands after its body, or while its body cannot go away.       *)
LEMMA DispatchStores ==
  ASSUME PublicationInv, BodiesInv, NEW d \in Writers, Dispatch(d), pending[d].body # NoBody
  PROVE  pending[d].body \in stored'
<1>1. pending[d] # NoPublication
  BY DEF Dispatch
<1>2. /\ pending[d].captured \in Nat /\ pending[d].rooted \in Nat /\ time \in Nat
      /\ REUSE_LIMIT \in Nat
  BY <1>1, PublicationNumbers
<1>3. Revalidated(d) /\ stored \subseteq stored'
  BY DEF Dispatch
<1>4. CASE pending[d].body \in stored
  BY <1>3, <1>4
<1>5. CASE pending[d].reused /\ time - pending[d].rooted <= REUSE_LIMIT
  <2>1. time <= pending[d].rooted + REUSE_LIMIT
    BY <1>2, <1>5
  <2>2. QED
    BY <1>1, <1>3, <1>5, <2>1 DEF BodiesInv, ReusedSafe, Reused, Safe
<1>6. CASE ~pending[d].reused /\ pending[d].dispatched = -1
  BY <1>6 DEF Dispatch
<1>7. CASE /\ ~pending[d].reused /\ pending[d].dispatched # -1
           /\ time - pending[d].captured <= REUSE_LIMIT
  <2>1. time <= pending[d].captured + REUSE_LIMIT
    BY <1>2, <1>7
  <2>2. QED
    BY <1>1, <1>3, <1>7, <2>1 DEF BodiesInv, FreshSafe, Fresh, Unsent
<1>8. QED
  BY <1>3, <1>4, <1>5, <1>6, <1>7 DEF Revalidated

(* A proof, and a publication that rests on one.                           *)
LEMMA ProofsSafeStep ==
  ASSUME AgesAreApart, PublicationInv, CatalogInv, NamesInv, TimesInv, AgesInv, BodiesInv,
         [Next]_vars
  PROVE  ProofsSafe'
<1>1. PublishedShape
  BY DEF PublicationInv
<1>2. /\ time \in Nat /\ time' \in Nat /\ time <= time'
      /\ REUSE_LIMIT \in Nat /\ GRACE \in Nat /\ SettleLimit \in Nat
  BY TimeGoesOn, LimitsAssumption
<1>3. ASSUME NEW w \in Writers, NEW b \in Bodies, NEW p, p = proofs'[w][b], p # NoProof,
             time' <= p.rooted + REUSE_LIMIT
      PROVE  Safe(p.object, p.rooted - SettleLimit)'
  <2>1. \A q \in {proofs[w][b]} : q # NoProof =>
          q.rooted \in Nat /\ q.rooted <= time
    BY <1>1 DEF PublishedShape, ProofsOK, AssetProof, TimesInv
  <2>2. ASSUME p.rooted \in Nat, p.rooted <= time, Safe(p.object, p.rooted - SettleLimit)
        PROVE  Safe(p.object, p.rooted - SettleLimit)'
    <3>1. PICK named : named = <<p.object, p.rooted - SettleLimit>>
      OBVIOUS
    <3>2. /\ named[2] \in Int /\ named[2] <= time /\ time < named[2] + GRACE
      BY <1>2, <1>3, <2>2, <3>1 DEF AgesAreApart
    <3>3. Safe(named[1], named[2])'
      BY <2>2, <3>1, <3>2, SafeStays
    <3>4. QED
      BY <3>1, <3>3
  <2>3. CASE /\ proofs[w][b] # NoProof /\ p.object = proofs[w][b].object
             /\ p.rooted = proofs[w][b].rooted
    <3>1. time <= proofs[w][b].rooted + REUSE_LIMIT
      BY <1>2, <1>3, <2>1, <2>3
    <3>2. Safe(p.object, p.rooted - SettleLimit)
      BY <2>3, <3>1 DEF BodiesInv, ProofsSafe
    <3>3. QED
      BY <2>1, <2>2, <2>3, <3>2
  <2>4. ASSUME NEW d \in Writers, NEW s \in Segment, NEW rooted \in Nat, rooted <= time,
               proofs' = WithProof(d, s, rooted),
               s.body # NoBody /\ time' <= rooted + REUSE_LIMIT =>
                 Safe(s.body, rooted - SettleLimit)
        PROVE  Safe(p.object, p.rooted - SettleLimit)'
    <3>1. CASE s.body # NoBody /\ p.object = s.body /\ p.rooted = rooted
      BY <1>3, <2>2, <2>4, <3>1
    <3>2. QED
      BY <1>1, <1>3, <2>3, <2>4, <3>1, WithProofIs DEF PublishedShape
  <2>5. ASSUME NEW d \in Writers, Finish(d), proofs' = WithProof(d, SegmentOf(d), time)
        PROVE  Safe(p.object, p.rooted - SettleLimit)'
    <3>1. PICK s : s = SegmentOf(d)
      OBVIOUS
    <3>2. /\ pending[d] # NoPublication /\ s \in segments
          /\ time - pending[d].dispatched <= SettleLimit
      BY <2>5, <3>1 DEF Finish
    <3>3. s \in Segment /\ s.body = pending[d].body
      BY <1>1, <3>1, <3>2 DEF PublishedShape, SegmentOf
    <3>4. pending[d].dispatched \in Int
      BY <3>2, PublicationNumbers
    <3>5. time <= pending[d].dispatched + SettleLimit /\ time - SettleLimit <= pending[d].dispatched
      BY <1>2, <3>2, <3>4
    <3>6. s.body # NoBody => Safe(s.body, pending[d].dispatched)
      BY <3>1, <3>2, <3>3, <3>5 DEF BodiesInv, SentSafe
    <3>7. s.body # NoBody => Safe(s.body, time - SettleLimit)
      BY <1>2, <3>4, <3>5, <3>6, SafeEarlier
    <3>8. QED
      BY <1>2, <2>4, <2>5, <3>1, <3>3, <3>7
  <2>6. ASSUME NEW d \in Writers, NEW s \in segments,
               proofs' = WithProof(d, s, s.change.stamp.physical)
        PROVE  Safe(p.object, p.rooted - SettleLimit)'
    <3>1. PICK rooted : rooted = s.change.stamp.physical
      OBVIOUS
    <3>2. s \in Segment /\ s \in landed
      BY <1>1 DEF PublishedShape
    <3>3. rooted \in Nat /\ rooted <= time
      BY <3>1, <3>2 DEF TimesInv
    <3>4. ASSUME s.body # NoBody, time' <= rooted + REUSE_LIMIT
          PROVE  Safe(s.body, rooted - SettleLimit)
      <4>1. s.body \in stored
        BY <1>2, <3>1, <3>3, <3>4 DEF BodiesInv, SegmentsSafe
      <4>2. s \in Documents /\ s.body \in References(s)
        BY <3>2, <3>4, SegmentsAreNoCheckpoints DEF Documents
      <4>3. ASSUME NEW v \in Writers, s \in DOMAIN observed[v]
            PROVE  rooted - SettleLimit <= observed[v][s]
        <5>1. observed[v][s] \in Nat /\ rooted <= observed[v][s]
          BY <3>1, <3>2, <4>3 DEF AgesInv
        <5>2. QED
          BY <1>2, <3>3, <5>1
      <4>4. QED
        BY <4>1, <4>2, <4>3 DEF Safe, Aged
    <3>5. QED
      BY <2>4, <2>6, <3>1, <3>2, <3>3, <3>4
  <2>7. CASE proofs' = proofs
    BY <1>3, <2>3, <2>7
  <2>8. QED
    BY <2>5, <2>6, <2>7, ProofsChange
<1>4. ASSUME NEW w \in Writers, NEW b \in Bodies, proofs'[w][b] # NoProof,
             time' <= proofs'[w][b].rooted + REUSE_LIMIT
      PROVE  Safe(proofs[w][b].object, proofs[w][b].rooted - SettleLimit)'
  <2>1. PICK p : p = proofs'[w][b]
    OBVIOUS
  <2>2. Safe(p.object, p.rooted - SettleLimit)'
    BY <1>3, <1>4, <2>1
  <2>3. QED
    BY <2>1, <2>2 DEF Safe, Aged
<1>5. QED
  BY <1>4 DEF ProofsSafe

LEMMA ReusedSafeStep ==
  ASSUME AgesAreApart, PublicationInv, CatalogInv, NamesInv, TimesInv, AgesInv, BodiesInv,
         [Next]_vars
  PROVE  ReusedSafe'
<1>1. /\ time \in Nat /\ time' \in Nat /\ time <= time'
      /\ REUSE_LIMIT \in Nat /\ GRACE \in Nat /\ SettleLimit \in Nat
  BY TimeGoesOn, LimitsAssumption
<1>2. pending \in [Writers -> Publication \cup {NoPublication}] /\ ProofsOK
  BY DEF PublicationInv, PublishedShape
<1>3. ASSUME NEW w \in Writers, NEW p, p = pending'[w], p # NoPublication, p.reused,
             time' <= p.rooted + REUSE_LIMIT
      PROVE  Safe(p.body, p.rooted - SettleLimit)'
  <2>1. /\ p.rooted \in Nat /\ p.rooted <= time
        /\ Safe(p.body, p.rooted - SettleLimit)
    <3>1. CASE \/ p = pending[w]
               \/ Dispatch(w)
      <4>1. /\ pending[w] # NoPublication
            /\ p.reused = pending[w].reused /\ p.body = pending[w].body
            /\ p.rooted = pending[w].rooted
        <5>1. CASE p = pending[w]
          BY <1>3, <5>1
        <5>2. CASE Dispatch(w)
          <6>1. p = pending'[w]
            BY <1>3
          <6>2. QED
            BY <5>2, <6>1, DispatchMarks DEF Publication
        <5>3. QED
          BY <3>1, <5>1, <5>2
      <4>2. p.rooted \in Nat /\ p.rooted <= time
        BY <4>1, PublicationNumbers DEF TimesInv
      <4>3. time <= pending[w].rooted + REUSE_LIMIT
        BY <1>1, <1>3, <4>1, <4>2
      <4>4. QED
        BY <1>3, <4>1, <4>2, <4>3 DEF BodiesInv, ReusedSafe, Reused
    <3>2. CASE Capture(w)
      <4>1. PICK q \in Publication :
              /\ pending' = [pending EXCEPT ![w] = q]
              /\ q.reused => \E b \in Bodies :
                   /\ proofs[w][b] # NoProof /\ time <= proofs[w][b].rooted + REUSE_LIMIT
                   /\ q.body = proofs[w][b].object /\ q.rooted = proofs[w][b].rooted
        BY <3>2, CaptureFacts
      <4>2. p = q
        BY <1>2, <1>3, <4>1
      <4>3. PICK b \in Bodies :
              /\ proofs[w][b] # NoProof /\ time <= proofs[w][b].rooted + REUSE_LIMIT
              /\ p.body = proofs[w][b].object /\ p.rooted = proofs[w][b].rooted
        BY <1>3, <4>1, <4>2
      <4>4. Safe(p.body, p.rooted - SettleLimit)
        BY <4>3 DEF BodiesInv, ProofsSafe
      <4>5. p.rooted \in Nat /\ p.rooted <= time
        BY <1>2, <4>3 DEF TimesInv, ProofsOK, AssetProof
      <4>6. QED
        BY <4>4, <4>5
    <3>3. QED
      BY <1>3, <3>1, <3>2, PendingWas
  <2>2. PICK named : named = <<p.body, p.rooted - SettleLimit>>
    OBVIOUS
  <2>3. named[2] \in Int /\ named[2] <= time /\ time < named[2] + GRACE
    BY <1>1, <1>3, <2>1, <2>2 DEF AgesAreApart
  <2>4. Safe(named[1], named[2])'
    BY <2>1, <2>2, <2>3, SafeStays
  <2>5. QED
    BY <2>2, <2>4
<1>4. ASSUME NEW w \in Writers, Reused(w)', time' <= pending'[w].rooted + REUSE_LIMIT
      PROVE  Safe(pending[w].body, pending[w].rooted - SettleLimit)'
  <2>1. PICK p : p = pending'[w]
    OBVIOUS
  <2>2. Safe(p.body, p.rooted - SettleLimit)'
    BY <1>3, <1>4, <2>1 DEF Reused
  <2>3. QED
    BY <2>1, <2>2 DEF Safe, Aged
<1>5. QED
  BY <1>4 DEF ReusedSafe

(* A body that was sent with a publication: whoever names it, no clean-up  *)
(* saw that unreachable before the publication was written.                *)
LEMMA FreshNotAged ==
  ASSUME PublicationInv, NamesInv, TimesInv, CatalogInv, AgesInv, BodiesInv, [Next]_vars,
         NEW d \in Writers, Fresh(d)', NEW w \in Writers, NEW k \in DOMAIN observed'[w],
         IsDocument(k), pending'[d].body \in References(k)
  PROVE  pending'[d].captured <= observed'[w][k]
<1>1. /\ pending \in [Writers -> Publication \cup {NoPublication}]
      /\ pending' \in [Writers -> Publication \cup {NoPublication}] /\ time \in Nat
  BY PublicationStep DEF PublicationInv, PublishedShape
<1>2. pending'[d] # NoPublication /\ pending'[d].body # NoBody /\ ~pending'[d].reused
  BY DEF Fresh
<1>3. CASE Capture(d)
  <2>1. PICK q \in Publication :
          /\ pending[d] = NoPublication /\ pending' = [pending EXCEPT ![d] = q]
          /\ q.seq = next[d]
          /\ ~q.reused /\ q.body # NoBody => q.body.writer = d /\ q.body.seq = q.seq
    BY <1>3, CaptureFacts
  <2>2. q = pending'[d]
    BY <1>1, <2>1
  <2>3. q.body.writer = d /\ q.body.seq = next[d] /\ next[d] \in Nat
    BY <1>2, <2>1, <2>2 DEF PublicationInv, PublishedShape
  <2>4. ~Known(q.body)
    BY <2>1, <2>3 DEF Known
  <2>5. observed' = observed
    BY <1>3 DEF Capture
  <2>6. QED
    BY <2>2, <2>4, <2>5, AgedNameKnown
<1>4. CASE pending'[d] = pending[d] \/ Dispatch(d)
  <2>1. /\ Fresh(d) /\ pending'[d].body = pending[d].body
        /\ pending'[d].captured = pending[d].captured
    BY <1>2, <1>4, DispatchMarks DEF Publication, Fresh
  <2>2. pending[d].captured \in Nat /\ pending[d].captured <= time
    BY <2>1, PublicationNumbers DEF TimesInv, Fresh
  <2>3. ASSUME k \in DOMAIN observed[w]
        PROVE  pending'[d].captured <= observed[w][k]
    BY <2>1, <2>3 DEF BodiesInv, FreshSafe
  <2>4. ASSUME NEW c \in Writers, Clean(c), observed'[w] # observed[w]
        PROVE  observed'[w][k] = IF k \in DOMAIN observed[w] THEN observed[w][k] ELSE time
    BY <2>4, CleanFacts
  <2>5. QED
    BY <2>1, <2>2, <2>3, <2>4, ObservedChanges
<1>5. QED
  BY <1>2, <1>3, <1>4, PendingWas

LEMMA FreshStays ==
  ASSUME AgesAreApart, PublicationInv, NamesInv, TimesInv, CatalogInv, AgesInv, BodiesInv,
         NEW d \in Writers, Fresh(d), pending[d].body \in stored,
         time <= pending[d].captured + REUSE_LIMIT, NEW c \in Writers, Clean(c)
  PROVE  pending[d].body \in stored'
<1>1. PICK first, gone :
        /\ DOMAIN first = Unreachable
        /\ \A i \in Unreachable :
             first[i] = IF i \in DOMAIN observed[c] THEN observed[c][i] ELSE time
        /\ gone \subseteq Eligible(first)
        /\ stored' = stored \ gone
  BY CleanFacts
<1>2. PICK o : o = pending[d].body
  OBVIOUS
<1>3. /\ pending[d].captured \in Nat /\ pending[d].captured <= time /\ time \in Nat
      /\ REUSE_LIMIT \in Nat /\ GRACE \in Nat /\ SettleLimit \in Nat
      /\ o \in Object
  BY <1>2, PublicationNumbers DEF TimesInv, Fresh, Publication
<1>4. SUFFICES ASSUME o \in gone PROVE FALSE
  BY <1>1, <1>2
<1>5. o \in Unreachable /\ o \in Eligible(first)
  BY <1>1, <1>4 DEF Eligible
<1>6. o \notin Documents
  BY <1>3, DocumentsListed, DocumentsAreNoObjects
<1>7. PICK k \in Documents : k \notin KeptRoots /\ o \in References(k)
  BY <1>5, <1>6, UnreachableAre
<1>8. k \in Unreachable /\ IsDocument(k)
  BY <1>7, UnreachableAre, DocumentsListed
<1>9. pending[d].captured <= first[k] /\ first[k] \in Nat
  <2>1. k \in DOMAIN observed[c] => pending[d].captured <= observed[c][k] /\ observed[c][k] \in Nat
    BY <1>2, <1>7, <1>8 DEF BodiesInv, FreshSafe, AgesInv
  <2>2. QED
    BY <1>1, <1>3, <1>8, <2>1
<1>10. first[k] + GRACE <= time
  BY <1>1, <1>5, <1>7, <1>8 DEF Eligible
<1>11. QED
  BY <1>3, <1>9, <1>10 DEF AgesAreApart

LEMMA FreshSafeStep ==
  ASSUME AgesAreApart, PublicationInv, CatalogInv, NamesInv, TimesInv, AgesInv, BodiesInv,
         [Next]_vars
  PROVE  FreshSafe'
<1>1. /\ time \in Nat /\ time' \in Nat /\ time <= time' /\ REUSE_LIMIT \in Nat
  BY TimeGoesOn, LimitsAssumption
<1>2. pending \in [Writers -> Publication \cup {NoPublication}]
  BY DEF PublicationInv, PublishedShape
<1>3. ASSUME NEW d \in Writers, Fresh(d)', ~Unsent(d)',
             time' <= pending'[d].captured + REUSE_LIMIT
      PROVE  pending'[d].body \in stored'
  <2>1. pending'[d] # NoPublication /\ pending'[d].body # NoBody /\ ~pending'[d].reused
    BY <1>3 DEF Fresh
  <2>2. CASE Capture(d)
    <3>1. PICK q : pending' = [pending EXCEPT ![d] = q] /\ q.dispatched = -1
      BY <2>2, CaptureFacts
    <3>2. QED
      BY <1>2, <1>3, <3>1 DEF Unsent
  <2>3. CASE Dispatch(d)
    <3>1. pending'[d].body = pending[d].body
      BY <2>3, DispatchMarks DEF Publication
    <3>2. QED
      BY <2>1, <2>3, <3>1, DispatchStores
  <2>4. CASE pending'[d] = pending[d]
    <3>1. Fresh(d) /\ ~Unsent(d)
      BY <1>3, <2>1, <2>4 DEF Fresh, Unsent
    <3>2. pending[d].captured \in Nat
      BY <3>1, PublicationNumbers DEF Fresh
    <3>3. time <= pending[d].captured + REUSE_LIMIT
      BY <1>1, <1>3, <2>4, <3>2
    <3>4. pending[d].body \in stored
      BY <3>1, <3>3 DEF BodiesInv, FreshSafe
    <3>5. QED
      BY <2>4, <3>1, <3>3, <3>4, FreshStays, StorageGrows
  <2>5. QED
    BY <2>1, <2>2, <2>3, <2>4, PendingWas
<1>4. QED
  BY <1>3, FreshNotAged DEF FreshSafe

(* The evidence for a segment that has just landed, or that its publisher  *)
(* does not know of yet.                                                   *)
LEMMA LandingIsSafe ==
  ASSUME PublicationInv, NamesInv, AgesInv, BodiesInv, [Next]_vars, NEW d \in Writers, Dispatch(d),
         pending[d].body # NoBody, NEW s, s = SegmentOf(d), s \in segments'
  PROVE  Safe(s.body, time)'
<1>1. /\ pending[d] # NoPublication /\ s \notin segments /\ time' = time
      /\ observed' = observed /\ segments \subseteq segments' /\ checkpoints' = checkpoints
  BY DEF Dispatch
<1>2. s.body = pending[d].body /\ s.body # NoBody /\ s \in Segment
  BY <1>1, SegmentShape DEF SegmentOf, PublicationInv
<1>3. s.body \in stored'
  BY <1>2, DispatchStores
<1>4. s \in Documents' /\ Documents \subseteq Documents'
  BY <1>1 DEF Documents
<1>5. References(s) = {s.body}
  BY <1>2, SegmentsAreNoCheckpoints
<1>6. ASSUME NEW w \in Writers
      PROVE  \E k \in Documents' : s.body \in References(k) /\ k \notin DOMAIN observed[w]
  <2>1. CASE s \notin DOMAIN observed[w]
    BY <1>4, <1>5, <2>1
  <2>2. CASE s \in DOMAIN observed[w]
    <3>1. s \in landed
      BY <1>2, <2>2 DEF AgesInv
    <3>2. Known(s.body)
      BY <1>2, <3>1 DEF NamesInv
    <3>3. s.body \in stored
      <4>1. SUFFICES ASSUME s.body \notin stored PROVE FALSE
        OBVIOUS
      <4>2. PICK e \in Writers :
              /\ Dispatch(e) /\ s.body = pending[e].body /\ s.body # NoBody
              /\ ~pending[e].reused /\ Unsent(e)
        BY <1>3, <4>1, OnlyDispatchStores
      <4>3. Fresh(e) /\ Unsent(e)
        BY <4>2 DEF Fresh, Dispatch
      <4>4. QED
        BY <3>2, <4>2, <4>3, UnsentIsUnknown
    <3>4. QED
      BY <1>1, <1>2, <1>4, <2>2, <3>3 DEF BodiesInv, DeletedInv
  <2>3. QED
    BY <2>1, <2>2
<1>7. QED
  BY <1>1, <1>3, <1>6 DEF Safe, Aged

LEMMA SentSafeStep ==
  ASSUME AgesAreApart, PublicationInv, CatalogInv, NamesInv, TimesInv, AgesInv, BodiesInv,
         [Next]_vars
  PROVE  SentSafe'
<1>1. /\ time \in Nat /\ time' \in Nat /\ time <= time'
      /\ REUSE_LIMIT \in Nat /\ GRACE \in Nat /\ SettleLimit \in Nat
  BY TimeGoesOn, LimitsAssumption
<1>2. PublishedShape /\ PublishedShape'
  BY PublicationStep DEF PublicationInv
<1>3. ASSUME NEW d \in Writers, NEW p, p = pending'[d], p # NoPublication, p.body # NoBody,
             NEW s, s = SegmentOf(d)', s \in segments', time' <= p.dispatched + SettleLimit
      PROVE  Safe(p.body, p.dispatched)'
  <2>1. CASE Dispatch(d)
    <3>1. /\ pending[d] # NoPublication
          /\ p.body = pending[d].body /\ p.seq = pending[d].seq /\ p.change = pending[d].change
          /\ p.dispatched = time /\ time' = time
      BY <1>3, <2>1, DispatchMarks DEF Publication
    <3>2. s = SegmentOf(d) /\ s.body = p.body
      BY <1>3, <3>1 DEF SegmentOf
    <3>3. Safe(s.body, time)'
      BY <1>3, <2>1, <3>1, <3>2, LandingIsSafe
    <3>4. QED
      BY <3>1, <3>2, <3>3 DEF Safe, Aged
  <2>2. CASE Capture(d)
    <3>1. PICK q : /\ pending[d] = NoPublication /\ pending' = [pending EXCEPT ![d] = q]
                   /\ q.seq = next[d] /\ q.dispatched = -1
      BY <2>2, CaptureFacts
    <3>2. p = q
      BY <1>2, <1>3, <3>1 DEF PublishedShape
    <3>3. s \in landed /\ s.writer = d /\ s.seq = next[d] /\ next[d] \in Nat
      BY <1>2, <1>3, <2>2, <3>1, <3>2 DEF PublishedShape, SegmentOf, Capture
    <3>4. QED
      BY <3>1, <3>3 DEF PublicationInv, LandedIsTaken, LandedIsSent
  <2>3. CASE p = pending[d] /\ ~Dispatch(d)
    <3>1. s = SegmentOf(d)
      BY <1>3, <2>3 DEF SegmentOf
    <3>2. s \in segments
      <4>1. SUFFICES ASSUME s \notin segments PROVE FALSE
        OBVIOUS
      <4>2. PICK e \in Writers : Dispatch(e) /\ s = SegmentOf(e)
        BY <1>3, <4>1, OnlyDispatchStores
      <4>3. e = d
        BY <3>1, <4>2 DEF SegmentOf
      <4>4. QED
        BY <2>3, <4>2, <4>3
    <3>3. p.dispatched \in Int /\ p.dispatched <= time
      BY <1>3, <2>3, PublicationNumbers DEF TimesInv
    <3>4. time <= p.dispatched + SettleLimit
      BY <1>1, <1>3, <3>3
    <3>5. Safe(p.body, p.dispatched)
      BY <1>3, <2>3, <3>1, <3>2, <3>4 DEF BodiesInv, SentSafe
    <3>6. time < p.dispatched + GRACE
      BY <1>1, <3>3, <3>4 DEF AgesAreApart
    <3>7. QED
      BY <3>3, <3>5, <3>6, SafeStays
  <2>4. QED
    BY <1>3, <2>1, <2>2, <2>3, PendingWas
<1>4. ASSUME NEW d \in Writers, pending'[d] # NoPublication, pending'[d].body # NoBody,
             SegmentOf(d)' \in segments', time' <= pending'[d].dispatched + SettleLimit
      PROVE  Safe(pending[d].body, pending[d].dispatched)'
  <2>1. PICK p : p = pending'[d]
    OBVIOUS
  <2>2. Safe(p.body, p.dispatched)'
    BY <1>3, <1>4, <2>1
  <2>3. QED
    BY <2>1, <2>2 DEF Safe, Aged
<1>5. QED
  BY <1>4 DEF SentSafe

LEMMA SegmentsSafeStep ==
  ASSUME AgesAreApart, PublicationInv, CatalogInv, NamesInv, TimesInv, AgesInv, BodiesInv,
         [Next]_vars
  PROVE  SegmentsSafe'
<1>1. /\ time \in Nat /\ time' \in Nat /\ time <= time'
      /\ REUSE_LIMIT \in Nat /\ GRACE \in Nat /\ SettleLimit \in Nat
  BY TimeGoesOn, LimitsAssumption
<1>2. ASSUME NEW s \in segments', s.body # NoBody, time' <= s.change.stamp.physical + REUSE_LIMIT
      PROVE  s.body \in stored'
  <2>1. CASE s \in segments
    <3>1. PICK r : r = s.change.stamp.physical
      OBVIOUS
    <3>2. s \in landed /\ s \in Segment /\ s \in Documents
      BY <2>1 DEF PublicationInv, PublishedShape, Documents
    <3>3. r \in Nat /\ r <= time
      BY <3>1, <3>2 DEF TimesInv
    <3>4. time <= r + REUSE_LIMIT /\ time < r + GRACE
      BY <1>1, <1>2, <3>1, <3>3 DEF AgesAreApart
    <3>5. s.body \in stored
      BY <1>2, <2>1, <3>1, <3>4 DEF BodiesInv, SegmentsSafe
    <3>6. s.body \in References(s)
      BY <1>2, <3>2, SegmentsAreNoCheckpoints
    <3>7. ASSUME NEW c \in Writers, Clean(c)
          PROVE  s.body \in stored'
      <4>1. Aged(c, s, r)
        BY <3>1, <3>2 DEF Aged, AgesInv
      <4>2. QED
        BY <3>2, <3>3, <3>4, <3>5, <3>6, <3>7, <4>1, RootsAreSafe, YoungStays
    <3>8. QED
      BY <3>5, <3>7, StorageGrows
  <2>2. ASSUME NEW d \in Writers, Dispatch(d), s = SegmentOf(d)
        PROVE  s.body \in stored'
    BY <1>2, <2>2, DispatchStores DEF SegmentOf
  <2>3. QED
    BY <2>1, <2>2, OnlyDispatchStores
<1>3. QED
  BY <1>2 DEF SegmentsSafe

(* A body whose document a clean-up deletes stays only if a root names it: *)
(* bodies go before documents.                                             *)
LEMMA DeletedLeavesRoots ==
  ASSUME PublicationInv, NamesInv, CatalogInv, AgesInv, NEW c \in Writers, Clean(c),
         NEW k \in Documents, NEW o \in References(k), o \in stored', k \notin Documents'
  PROVE  \E root \in KeptRoots : o \in References(root)
<1>1. PICK first, gone :
        /\ DOMAIN first = Unreachable
        /\ gone \subseteq Eligible(first)
        /\ \A i \in gone \cap Documents : References(i) \cap Unreachable \subseteq Eligible(first)
        /\ \A i \in Eligible(first) \ Documents : gone \cap Documents # {} => i \in gone
        /\ segments' = segments \ gone /\ checkpoints' = checkpoints \ gone
        /\ stored' = stored \ gone
  BY CleanFacts
<1>2. k \in gone /\ o \notin gone /\ o \in stored
  BY <1>1 DEF Documents
<1>3. o \notin Documents
  BY DocumentsName
<1>4. o \notin Unreachable
  BY <1>1, <1>2, <1>3
<1>5. QED
  BY <1>2, <1>4, UnreachableAre

LEMMA DeletedInvStep ==
  ASSUME PublicationInv, CatalogInv, NamesInv, TimesInv, AgesInv, BodiesInv, [Next]_vars
  PROVE  DeletedInv'
<1>1. ASSUME NEW d \in Writers, NEW s \in DOMAIN observed'[d], s \in Segment, s \notin segments',
             s.body # NoBody, s.body \in stored'
      PROVE  \E k \in Documents' : s.body \in References(k) /\ k \notin DOMAIN observed'[d]
  <2>1. CASE /\ stored \subseteq stored' /\ Documents \subseteq Documents'
             /\ segments \subseteq segments' /\ observed' = observed
    <3>1. s \in landed /\ Known(s.body)
      BY <1>1, <2>1 DEF AgesInv, NamesInv
    <3>2. s.body \in stored
      <4>1. SUFFICES ASSUME s.body \notin stored PROVE FALSE
        OBVIOUS
      <4>2. PICK e \in Writers :
              /\ Dispatch(e) /\ s.body = pending[e].body /\ s.body # NoBody
              /\ ~pending[e].reused /\ Unsent(e)
        BY <1>1, <4>1, OnlyDispatchStores
      <4>3. Fresh(e) /\ Unsent(e)
        BY <4>2 DEF Fresh, Dispatch
      <4>4. QED
        BY <3>1, <4>2, <4>3, UnsentIsUnknown
    <3>3. PICK k \in Documents : s.body \in References(k) /\ k \notin DOMAIN observed[d]
      BY <1>1, <2>1, <3>2 DEF BodiesInv, DeletedInv
    <3>4. QED
      BY <2>1, <3>3
  <2>2. ASSUME NEW c \in Writers, Clean(c)
        PROVE  \E k \in Documents' : s.body \in References(k) /\ k \notin DOMAIN observed'[d]
    <3>1. PICK gone :
            /\ segments' = segments \ gone /\ stored' = stored \ gone
            /\ DOMAIN observed'[c] = Unreachable \ gone
            /\ \A w \in Writers \ {c} : observed'[w] = observed[w]
      BY <2>2, CleanFacts
    <3>2. ASSUME NEW root \in KeptRoots, s.body \in References(root)
          PROVE  \E k \in Documents' : s.body \in References(k) /\ k \notin DOMAIN observed'[d]
      BY <2>2, <3>2, RootsAreSafe
    <3>3. CASE d = c
      <4>1. s \in Unreachable /\ s \notin segments
        BY <1>1, <3>1, <3>3
      <4>2. s \notin checkpoints /\ s \notin Object
        BY <1>1, SegmentsAreNoCheckpoints, DocumentsAreNoObjects DEF IsDocument, NamesInv
      <4>3. QED
        BY <4>1, <4>2, UnreachableAre DEF Documents
    <3>4. CASE d # c /\ s \in segments
      <4>1. s \in Documents /\ s \notin Documents' /\ s.body \in References(s)
        <5>1. s \notin checkpoints'
          BY <1>1, <2>2, SegmentsAreNoCheckpoints, CleanFacts DEF NamesInv
        <5>2. QED
          BY <1>1, <3>4, <5>1, SegmentsAreNoCheckpoints DEF Documents
      <4>2. QED
        BY <1>1, <2>2, <3>2, <4>1, DeletedLeavesRoots
    <3>5. CASE d # c /\ s \notin segments
      <4>1. s \in DOMAIN observed[d] /\ s.body \in stored /\ observed'[d] = observed[d]
        BY <1>1, <3>1, <3>5
      <4>2. PICK k \in Documents : s.body \in References(k) /\ k \notin DOMAIN observed[d]
        BY <1>1, <3>5, <4>1 DEF BodiesInv, DeletedInv
      <4>3. QED
        BY <1>1, <2>2, <3>2, <4>1, <4>2, DeletedLeavesRoots
    <3>6. QED
      BY <3>3, <3>4, <3>5
  <2>3. QED
    BY <2>1, <2>2, StorageGrows
<1>2. QED
  BY <1>1 DEF DeletedInv

LEMMA BodiesStep ==
  ASSUME AgesAreApart, PublicationInv, CatalogInv, NamesInv, TimesInv, AgesInv, BodiesInv,
         [Next]_vars
  PROVE  BodiesInv'
BY ProofsSafeStep, ReusedSafeStep, FreshSafeStep, SentSafeStep, SegmentsSafeStep, DeletedInvStep
   DEF BodiesInv

------------------------------------------------------------------------------
(* Compaction, and the roots.                                              *)

LEMMA StateIsCatalog ==
  ASSUME PublicationInv, LandedInv, NEW found, CheckpointsOK(found),
         \A c \in found : c.bodies \subseteq Object
  PROVE  PublishedState(found, segments) \in Catalog
<1>1. PICK state : state = PublishedState(found, segments)
  OBVIOUS
<1>2. Accounted(state.coverage, state.changes)
  BY <1>1, StateAccounts
<1>3. state.coverage \in Coverage
  BY <1>2 DEF Accounted, Published
<1>4. state.changes \subseteq Change
  <2>1. PICK T \in SUBSET landed : state.changes = Merged(ChangesIn(T))
    BY <1>2 DEF Accounted, CoveredBy
  <2>2. QED
    BY <2>1, LandedAreConsistent, MergedAreMembers DEF Consistent
<1>5. state.bodies \subseteq (UNION {c.bodies : c \in found})
                            \cup ({s.body : s \in segments} \ {NoBody})
  BY <1>1 DEF PublishedState, Included, retained
<1>6. \A s \in segments : s.body # NoBody => s.body \in Object
  BY DEF PublicationInv, PublishedShape, Segment
<1>7. state.bodies \subseteq Object
  BY <1>5, <1>6
<1>8. state = [coverage |-> state.coverage, changes |-> state.changes, bodies |-> state.bodies]
  BY <1>1 DEF PublishedState
<1>9. QED
  BY <1>1, <1>3, <1>4, <1>7, <1>8 DEF Catalog

LEMMA CompactionStep ==
  ASSUME PublicationInv, LandedInv, CatalogInv, NamesInv, BodiesInv, CompactionInv,
         KeptRootsAreWhole, [Next]_vars
  PROVE  CompactionInv'
<1>1. ASSUME NEW w \in Writers, job'[w] = job[w], job[w] # NoJob
      PROVE  /\ job[w].catalog # NoJob =>
                  job[w].use = "compaction" /\ job[w].catalog.bodies \subseteq stored'
             /\ job[w].use = "compaction" /\ job[w].catalog = NoJob =>
                  /\ job[w].found \subseteq checkpoints'
                  /\ \A c \in retained(job[w].found) : c.bodies \subseteq stored'
                  /\ \A s \in segments' : ~Covered(MergedCoverage(job[w].found), s) =>
                       References(s) \subseteq stored'
  <2>1. CASE job[w].use # "compaction"
    BY <1>1, <2>1 DEF CompactionInv
  <2>2. CASE job[w].use = "compaction"
    <3>1. ~\E d \in Writers : Clean(d)
      BY <1>1, <2>2 DEF Clean
    <3>2. stored \subseteq stored' /\ checkpoints \subseteq checkpoints'
      BY <3>1, StorageGrows, CheckpointsChange
    <3>3. ASSUME NEW s \in segments', ~Covered(MergedCoverage(job[w].found), s),
                 job[w].catalog = NoJob
          PROVE  References(s) \subseteq stored'
      <4>1. CASE s \in segments
        BY <1>1, <2>2, <3>2, <3>3, <4>1 DEF CompactionInv
      <4>2. ASSUME NEW d \in Writers, Dispatch(d), s = SegmentOf(d)
            PROVE  References(s) \subseteq stored'
        <5>1. s \in Segment /\ s.body = pending[d].body
          BY <4>2, SegmentShape DEF Dispatch, SegmentOf, PublicationInv
        <5>2. QED
          BY <4>2, <5>1, DispatchStores, SegmentsAreNoCheckpoints
      <4>3. QED
        BY <4>1, <4>2, OnlyDispatchStores
    <3>4. QED
      BY <1>1, <2>2, <3>2, <3>3 DEF CompactionInv
  <2>3. QED
    BY <2>1, <2>2
<1>2. ASSUME NEW w \in Writers, job'[w] # job[w], job'[w] # NoJob
      PROVE  /\ job'[w].catalog # NoJob =>
                  job'[w].use = "compaction" /\ job'[w].catalog.bodies \subseteq stored'
             /\ job'[w].use = "compaction" /\ job'[w].catalog = NoJob =>
                  /\ job'[w].found \subseteq checkpoints'
                  /\ \A c \in retained(job'[w].found) : c.bodies \subseteq stored'
                  /\ \A s \in segments' : ~Covered(MergedCoverage(job'[w].found), s) =>
                       References(s) \subseteq stored'
  <2>1. CASE /\ ReadSegments(w) /\ job'[w].catalog = Read(w)
             /\ job'[w].use = job[w].use
    <3>1. /\ job[w] # NoJob /\ job[w].use = "compaction" /\ job[w].catalog = NoJob
          /\ stored' = stored
      BY <2>1 DEF ReadSegments
    <3>2. PICK found : found = job[w].found
      OBVIOUS
    <3>3. /\ found \subseteq checkpoints
          /\ \A c \in retained(found) : c.bodies \subseteq stored
          /\ \A s \in segments :
               ~Covered(MergedCoverage(found), s) => References(s) \subseteq stored
      BY <3>1, <3>2 DEF CompactionInv
    <3>4. CheckpointsOK(found) /\ \A c \in found : c.bodies \subseteq Object
      BY <3>1, <3>2, <3>3 DEF CatalogInv, JobOK, NamesInv, Known
    <3>5. PICK state : state = PublishedState(found, segments)
      OBVIOUS
    <3>6. job'[w].catalog = state
      BY <2>1, <3>2, <3>5 DEF Read
    <3>7. state # NoJob
      BY <3>4, <3>5, StateIsCatalog, NoneAssumption
    <3>8. state.bodies \subseteq (UNION {c.bodies : c \in retained(found)})
            \cup ({s.body : s \in {t \in segments : ~Covered(MergedCoverage(found), t)}} \ {NoBody})
      BY <3>5 DEF PublishedState, Included
    <3>9. \A s \in segments : References(s) = {s.body} \ {NoBody}
      BY SegmentsAreNoCheckpoints DEF PublicationInv, PublishedShape
    <3>10. state.bodies \subseteq stored
      BY <3>3, <3>8, <3>9
    <3>11. QED
      BY <2>1, <3>1, <3>6, <3>7, <3>10
  <2>2. ASSUME NEW use \in {"receive", "compaction"}, BeginRead(w, use),
               job'[w] = [use |-> use, found |-> checkpoints, catalog |-> NoJob]
        PROVE  /\ job'[w].catalog = NoJob /\ job'[w].found = checkpoints
               /\ checkpoints' = checkpoints
               /\ \A c \in retained(checkpoints) : c.bodies \subseteq stored'
               /\ \A s \in segments' : ~Covered(MergedCoverage(checkpoints), s) =>
                    References(s) \subseteq stored'
    <3>1. UNCHANGED <<checkpoints, segments, stored>>
      BY <2>2 DEF BeginRead
    <3>2. \A c \in retained(checkpoints) : References(c) = c.bodies
      BY DEF retained, NamesInv, References, IsCheckpoint
    <3>3. QED
      BY <2>2, <3>1, <3>2 DEF KeptRootsAreWhole, KeptRoots
  <2>3. CASE ReadSegments(w)
    BY <1>2, <2>1, <2>2, JobsChange
  <2>4. QED
    BY <1>2, <2>1, <2>2, JobsChange
<1>3. QED
  BY <1>1, <1>2 DEF CompactionInv

LEMMA KeptStep ==
  ASSUME PublicationInv, LandedInv, CatalogInv, NamesInv, AgesInv, BodiesInv, CompactionInv,
         KeptRootsAreWhole, [Next]_vars
  PROVE  KeptRootsAreWhole'
<1>1. ASSUME NEW k \in KeptRoots'
      PROVE  References(k) \subseteq stored'
  <2>1. CASE k \in KeptRoots
    BY <2>1, RootsAreSafe, StorageGrows DEF KeptRootsAreWhole
  <2>2. CASE k \in segments' \ segments
    <3>1. PICK d \in Writers : Dispatch(d) /\ k = SegmentOf(d)
      BY <2>2, OnlyDispatchStores
    <3>2. k \in Segment /\ k.body = pending[d].body
      BY <3>1, SegmentShape DEF Dispatch, SegmentOf, PublicationInv
    <3>3. QED
      BY <3>1, <3>2, DispatchStores, SegmentsAreNoCheckpoints
  <2>3. CASE k \in checkpoints' \ checkpoints
    <3>1. PICK d \in Writers : PublishCheckpoint(d)
      BY <2>3 DEF Next, vars, Publish, Receive, Compact, Tick, ReceiveSegment, ReceivePublished,
                  ReadSegments, AbandonJob, BeginRead, Capture, AbandonUnsent, Dispatch, Finish,
                  Clean
    <3>2. PICK id \in work.names, bodies \in Standalone(job[d].catalog) :
            k = [id |-> id, coverage |-> job[d].catalog.coverage,
                 changes |-> job[d].catalog.changes, bodies |-> bodies]
      BY <2>3, <3>1 DEF PublishCheckpoint
    <3>3. References(k) \subseteq job[d].catalog.bodies /\ stored' = stored
      BY <3>1, <3>2 DEF References, Standalone, PublishCheckpoint
    <3>4. QED
      BY <3>1, <3>3 DEF CompactionInv, PublishCheckpoint
  <2>4. QED
    BY <2>1, <2>2, <2>3, RootsWere
<1>2. QED
  BY <1>1 DEF KeptRootsAreWhole

LEMMA CleanupInit == Init => CleanupInv
<1> SUFFICES ASSUME Init PROVE CleanupInv
  OBVIOUS
<1>1. /\ segments = {} /\ checkpoints = {} /\ stored = {} /\ landed = {} /\ time = 0
      /\ \A d \in Writers : /\ pending[d] = NoPublication /\ job[d] = NoJob
                            /\ \A b \in Bodies : proofs[d][b] = NoProof
  BY DEF Init
<1>2. DOMAIN observed = Writers /\ \A d \in Writers : DOMAIN observed[d] = {}
  BY DEF Init
<1>3. NamesInv /\ TimesInv /\ AgesInv
  BY <1>1, <1>2 DEF NamesInv, TimesInv, AgesInv, Fresh, Reused
<1>4. BodiesInv
  BY <1>1, <1>2
     DEF BodiesInv, ProofsSafe, ReusedSafe, FreshSafe, SentSafe, SegmentsSafe, DeletedInv,
         Fresh, Reused
<1>5. CompactionInv
  BY <1>1 DEF CompactionInv
<1>6. KeptRootsAreWhole
  BY <1>1 DEF KeptRootsAreWhole, KeptRoots, retained
<1>7. QED
  BY <1>3, <1>4, <1>5, <1>6 DEF CleanupInv

LEMMA CleanupStep ==
  ASSUME AgesAreApart, StorageInv, CleanupInv, [Next]_vars
  PROVE  CleanupInv'
<1>1. PublicationInv /\ LandedInv /\ CatalogInv
  BY DEF StorageInv
<1>2. /\ NamesInv /\ TimesInv /\ AgesInv /\ BodiesInv /\ CompactionInv /\ KeptRootsAreWhole
  BY DEF CleanupInv
<1>3. NamesInv' /\ TimesInv' /\ AgesInv'
  BY <1>1, <1>2, NamesStep, TimesStep, AgesStep
<1>4. BodiesInv' /\ CompactionInv' /\ KeptRootsAreWhole'
  BY <1>1, <1>2, BodiesStep, CompactionStep, KeptStep
<1>5. QED
  BY <1>3, <1>4 DEF CleanupInv

(* The inductive invariant of the clean-up: whoever may name a body from   *)
(* memory has a document to show for it that no device has seen            *)
(* unreachable for as long as the memory lasts (CACHE_REUSE_LIMIT_MS and   *)
(* UNREACHABLE_GRACE_MS), and what was sent stays until it is known to     *)
(* have landed.                                                            *)
THEOREM CleanupInvariance == AgesAreApart => (Spec => []CleanupInv)
<1>1. SUFFICES ASSUME AgesAreApart PROVE Spec => []CleanupInv
  OBVIOUS
<1>2. StorageInv /\ CleanupInv /\ [Next]_vars => CleanupInv'
  BY <1>1, CleanupStep
<1>3. QED
  BY <1>2, CleanupInit, StorageInvariance, PTL DEF Spec

(* run_owned deletes no body that a kept checkpoint or segment names, and  *)
(* publish_captured lands no segment whose body is gone, although a device *)
(* names bodies that it only remembers and several devices clean up, each  *)
(* by its own record of ages.                                              *)
THEOREM RootsStayWhole == AgesAreApart => (Spec => []KeptRootsAreWhole)
<1>1. SUFFICES ASSUME AgesAreApart PROVE Spec => []KeptRootsAreWhole
  OBVIOUS
<1>2. CleanupInv => KeptRootsAreWhole
  BY DEF CleanupInv
<1>3. QED
  BY <1>1, <1>2, CleanupInvariance, PTL

------------------------------------------------------------------------------
(* Types: what the invariants before say of them, and the rest.            *)

RestInv ==
  /\ {"time", "failures"} \subseteq DOMAIN work /\ work.time \in Nat /\ time <= work.time
  /\ checkpoints \subseteq Checkpoint /\ stored \subseteq Object
  /\ DOMAIN job = Writers /\ \A d \in Writers : job[d] \in Job \cup {NoJob}
  /\ DOMAIN observed = Writers
  /\ \A d \in Writers : \A i \in DOMAIN observed[d] :
       i \in Items /\ observed[d][i] \in Nat /\ observed[d][i] <= time
  /\ DOMAIN received = Writers
  /\ \A d \in Writers : received[d] = [progress |-> received[d].progress,
                                       changes  |-> received[d].changes]

LEMMA WorkChanges ==
  ASSUME [Next]_vars
  PROVE  work' = work \/ work' = [work EXCEPT !.failures = @ - 1]
BY DEF Next, vars, Publish, Receive, Compact, Tick, ReceiveSegment, ReceivePublished, ReadSegments,
       PublishCheckpoint, AbandonJob, BeginRead, Capture, AbandonUnsent, Dispatch, Finish, Clean,
       Fail

LEMMA RestStep ==
  ASSUME PublicationInv, LandedInv, CatalogInv, RestInv, [Next]_vars
  PROVE  RestInv'
<1>1. time \in Nat /\ time' \in Nat /\ time <= time'
  BY TimeGoesOn
<1>2. {"time", "failures"} \subseteq DOMAIN work' /\ work'.time = work.time
  BY WorkChanges DEF RestInv
<1>3. time' <= work'.time
  <2>1. CASE time' = time
    BY <1>2, <2>1 DEF RestInv
  <2>2. CASE Tick
    BY <1>1, <1>2, <2>2 DEF Tick, RestInv
  <2>3. QED
    BY <2>1, <2>2, TimeGoesOn
<1>4. stored' \subseteq Object
  <2>1. ASSUME NEW d \in Writers, Dispatch(d)
        PROVE  pending[d].body \in Object \cup {NoBody}
    BY <2>1, PublicationNumbers DEF Dispatch, Publication
  <2>2. QED
    BY <2>1, OnlyDispatchStores DEF RestInv
<1>5. checkpoints' \subseteq Checkpoint
  <2>1. ASSUME NEW d \in Writers, PublishCheckpoint(d)
        PROVE  checkpoints' \subseteq Checkpoint
    <3>1. PICK id \in work.names, bodies \in Standalone(job[d].catalog) :
            checkpoints' = checkpoints \cup
              {[id |-> id, coverage |-> job[d].catalog.coverage,
                changes |-> job[d].catalog.changes, bodies |-> bodies]}
      BY <2>1 DEF PublishCheckpoint
    <3>2. job[d].catalog \in Catalog
      BY <2>1 DEF PublishCheckpoint, RestInv, Job
    <3>3. id \in Nat /\ bodies \subseteq Object
      BY <3>1, <3>2 DEF PublicationInv, PublishedShape, WorkOK, Standalone, Catalog
    <3>4. QED
      BY <3>1, <3>2, <3>3 DEF Checkpoint, Catalog, RestInv
  <2>2. checkpoints' \subseteq checkpoints \/ \E d \in Writers : PublishCheckpoint(d)
    BY DEF Next, vars, Publish, Receive, Compact, Tick, ReceiveSegment, ReceivePublished,
           ReadSegments, AbandonJob, BeginRead, Capture, AbandonUnsent, Dispatch, Finish, Clean
  <2>3. QED
    BY <2>1, <2>2 DEF RestInv
<1>6. DOMAIN job' = Writers /\ \A d \in Writers : job'[d] \in Job \cup {NoJob}
  <2>1. DOMAIN job' = Writers
    BY CatalogStep DEF CatalogInv
  <2>2. ASSUME NEW w \in Writers, job'[w] # job[w], job'[w] # NoJob
        PROVE  job'[w] \in Job
    <3>1. CASE ReadSegments(w)
      <4>1. /\ job[w] \in Job
            /\ job' = [job EXCEPT ![w] = [@ EXCEPT !.catalog = Read(w), !.found = {}]]
        BY <3>1 DEF ReadSegments, RestInv
      <4>2. Read(w) \in Catalog
        <5>1. CheckpointsOK(job[w].found) /\ \A c \in job[w].found : c.bodies \subseteq Object
          BY <3>1, <4>1 DEF ReadSegments, CatalogInv, JobOK, Job, Checkpoint
        <5>2. QED
          BY <5>1, StateIsCatalog DEF Read
      <4>3. job'[w] = [job[w] EXCEPT !.catalog = Read(w), !.found = {}]
        BY <4>1 DEF RestInv
      <4>4. job'[w] = [use |-> job[w].use, found |-> {}, catalog |-> Read(w)]
        BY <4>1, <4>3 DEF Job
      <4>5. job[w].use \in {"receive", "compaction"}
        BY <4>1 DEF Job
      <4>6. QED
        BY <4>2, <4>4, <4>5 DEF Job
    <3>2. ASSUME NEW use \in {"receive", "compaction"},
                 job'[w] = [use |-> use, found |-> checkpoints, catalog |-> NoJob]
          PROVE  job'[w] \in Job
      BY <3>2 DEF Job, RestInv
    <3>3. QED
      BY <2>2, <3>1, <3>2, JobsChange
  <2>3. QED
    BY <2>1, <2>2 DEF RestInv
<1>7. /\ DOMAIN observed' = Writers
      /\ \A d \in Writers : \A i \in DOMAIN observed'[d] :
           i \in Items /\ observed'[d][i] \in Nat /\ observed'[d][i] <= time'
  <2>1. CASE observed' = observed
    BY <1>1, <2>1 DEF RestInv
  <2>2. ASSUME NEW c \in Writers, Clean(c)
        PROVE  /\ DOMAIN observed' = Writers
               /\ \A d \in Writers : \A i \in DOMAIN observed'[d] :
                    i \in Items /\ observed'[d][i] \in Nat /\ observed'[d][i] <= time'
    <3>1. PICK gone :
            observed' = [observed EXCEPT ![c] =
                           [i \in Unreachable \ gone |-> Ages(c, Unreachable)[i]]]
      <4>1. DOMAIN Ages(c, Unreachable) = Unreachable
        BY DEF Ages
      <4>2. QED
        BY <2>2, <4>1 DEF Clean
    <3>2. Unreachable \subseteq Items
      BY DEF Unreachable, Documents, Items, RestInv, PublicationInv, PublishedShape
    <3>3. \A i \in Unreachable : Ages(c, Unreachable)[i] \in Nat /\ Ages(c, Unreachable)[i] <= time
      BY <1>1 DEF Ages, RestInv
    <3>4. observed'[c] = [i \in Unreachable \ gone |-> Ages(c, Unreachable)[i]]
      BY <3>1 DEF RestInv
    <3>5. \A i \in DOMAIN observed'[c] :
            i \in Items /\ observed'[c][i] \in Nat /\ observed'[c][i] <= time
      BY <3>2, <3>3, <3>4
    <3>6. \A d \in Writers \ {c} : observed'[d] = observed[d]
      BY <3>1 DEF RestInv
    <3>7. DOMAIN observed' = Writers
      BY <3>1 DEF RestInv
    <3>8. time' = time
      BY <2>2 DEF Clean
    <3>9. QED
      BY <3>5, <3>6, <3>7, <3>8 DEF RestInv
  <2>3. QED
    BY <2>1, <2>2, ObservedChanges
<1>8. /\ DOMAIN received' = Writers
      /\ \A d \in Writers : received'[d] = [progress |-> received'[d].progress,
                                            changes  |-> received'[d].changes]
  <2>1. ASSUME NEW d \in Writers, NEW progress, NEW changes,
               received' = [received EXCEPT ![d] = [progress |-> progress, changes |-> changes]]
        PROVE  /\ DOMAIN received' = Writers
               /\ \A w \in Writers : received'[w] = [progress |-> received'[w].progress,
                                                     changes  |-> received'[w].changes]
    <3>1. DOMAIN received' = Writers
      BY <2>1 DEF RestInv
    <3>2. received'[d] = [progress |-> progress, changes |-> changes]
      BY <2>1 DEF RestInv
    <3>3. \A w \in Writers \ {d} : received'[w] = received[w]
      BY <2>1 DEF RestInv
    <3>4. QED
      BY <3>1, <3>2, <3>3 DEF RestInv
  <2>2. \/ received' = received
        \/ \E d \in Writers : \E progress, changes :
             received' = [received EXCEPT ![d] = [progress |-> progress, changes |-> changes]]
    <3>1. ASSUME NEW d \in Writers,
                 Finish(d) \/ ReceivePublished(d) \/ \E s \in segments : ReceiveSegment(d, s)
          PROVE  \E progress, changes :
                   received' = [received EXCEPT ![d] = [progress |-> progress, changes |-> changes]]
      BY <3>1 DEF Finish, ReceivePublished, ReceiveSegment, Incorporated
    <3>2. QED
      BY <3>1 DEF Next, vars, Publish, Receive, Compact, Tick, ReadSegments,
                  PublishCheckpoint, AbandonJob, BeginRead, Capture, AbandonUnsent, Dispatch, Clean
  <2>3. QED
    BY <2>1, <2>2 DEF RestInv
<1>9. QED
  BY <1>2, <1>3, <1>4, <1>5, <1>6, <1>7, <1>8 DEF RestInv

LEMMA TypesFollow ==
  ASSUME StorageInv, RestInv
  PROVE  TypeOK
<1>1. PublishedShape /\ PublicationInv /\ LandedInv /\ DeviceInv
  BY DEF StorageInv, PublicationInv
<1>2. time \in 0 .. work.time
  BY <1>1 DEF RestInv, PublishedShape
<1>3. ASSUME NEW d \in Writers
      PROVE  received[d] \in [progress : Coverage, changes : SUBSET Change]
  <2>1. received[d].progress \in Coverage
    BY <1>1 DEF DeviceInv, DeviceOK, Published
  <2>2. PICK R \in SUBSET landed : received[d].changes = Merged(ChangesIn(R))
    BY <1>1 DEF DeviceInv, DeviceOK, Holds
  <2>3. received[d].changes \subseteq Change
    BY <1>1, <2>2, LandedAreConsistent, MergedAreMembers DEF Consistent
  <2>4. QED
    BY <2>1, <2>3 DEF RestInv
<1>4. ASSUME NEW d \in Writers, NEW i \in DOMAIN observed[d]
      PROVE  i \in Items /\ observed[d][i] \in 0 .. time
  BY <1>1 DEF RestInv, PublishedShape
<1>5. ASSUME NEW d \in Writers
      PROVE  /\ pending[d] \in Publication \cup {NoPublication} /\ next[d] \in Nat \ {0}
             /\ \A b \in Bodies : proofs[d][b] \in AssetProof \cup {NoProof}
             /\ job[d] \in Job \cup {NoJob}
  BY <1>1 DEF RestInv, PublishedShape, ProofsOK
<1>6. /\ segments \subseteq landed /\ \A s \in landed : s \in Segment
      /\ \A c \in checkpoints : c \in Checkpoint
      /\ stored \subseteq Object
  BY <1>1 DEF RestInv, PublishedShape
<1>7. QED
  BY <1>2, <1>3, <1>4, <1>5, <1>6 DEF TypeOK

(* Every variable keeps to its type: the publications and jobs of devices, *)
(* the checkpoints that compact_published writes, the ages that            *)
(* record_observations keeps.                                              *)
THEOREM SegmentsTypeCorrect == Spec => []TypeOK
<1>1. Init => RestInv
  <2>1. ASSUME Init
        PROVE  RestInv
    <3>1. work \in Works /\ time = 0 /\ checkpoints = {} /\ stored = {}
      BY <2>1 DEF Init
    <3>2. {"time", "failures"} \subseteq DOMAIN work /\ work.time \in Nat
      BY <3>1, LimitsAssumption
    <3>3. /\ DOMAIN job = Writers /\ \A d \in Writers : job[d] = NoJob
          /\ DOMAIN observed = Writers /\ \A d \in Writers : DOMAIN observed[d] = {}
          /\ DOMAIN received = Writers
          /\ \A d \in Writers : received[d] = [progress |-> NoCoverage, changes |-> {}]
      BY <2>1 DEF Init
    <3>4. time <= work.time
      BY <3>1, <3>2
    <3>5. QED
      BY <3>1, <3>2, <3>3, <3>4 DEF RestInv
  <2>2. QED
    BY <2>1
<1>2. StorageInv /\ RestInv /\ [Next]_vars => RestInv'
  BY RestStep DEF StorageInv
<1>3. StorageInv /\ RestInv => TypeOK
  BY TypesFollow
<1>4. QED
  BY <1>1, <1>2, <1>3, StorageInvariance, PTL DEF Spec
==============================================================================
