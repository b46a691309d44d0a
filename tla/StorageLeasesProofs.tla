-------------------------- MODULE StorageLeasesProofs --------------------------
(***************************************************************************)
(* Proofs about the leases of an external storage, for any number of jobs  *)
(* and devices and every choice of clocks, limits and delays that the      *)
(* assumptions of StorageLeases allow.                                     *)
(***************************************************************************)
EXTENDS StorageLeases, TLAPS

------------------------------------------------------------------------------
(* What the actions do to the record of an owner, field by field.          *)

(* What an action of an owner writes a lease of: its own clock.            *)
LEMMA NewLeaseFacts ==
  ASSUME TypeOK, NEW o \in Owners, NEW kind \in Kinds
  PROVE  /\ NewLease(o, kind) \in Lease
         /\ NewLease(o, kind) # NoLease
         /\ NewLease(o, kind).owner = o
         /\ NewLease(o, kind).kind = kind
         /\ NewLease(o, kind).issued = time
         /\ NewLease(o, kind).offset = clock[Host[o]].offset
         /\ NewLease(o, kind).epoch = clock[Host[o]].epoch
<1>1. Host[o] \in Devices
  BY HostAssumption
<1>2. clock[Host[o]].offset \in Offsets /\ clock[Host[o]].epoch \in Nat /\ time \in Nat
  BY <1>1 DEF TypeOK, ClockState
<1>3. QED
  BY <1>2, NoneAssumption DEF NewLease, Lease

(* Every kind that a job writes is one that readers know, and only a       *)
(* clean-up writes another than Work.                                      *)
LEMMA KindFacts ==
  ASSUME NEW mode \in Modes
  PROVE  /\ wire_kind(mode) \in Kinds
         /\ wire_kind(mode) # "Deleting"
         /\ wire_kind(mode) = "Work" <=> mode # "cleanup"
BY DEF wire_kind, Kinds, Modes

(* The fields of a typed owner.                                            *)
LEMMA OwnerFields ==
  ASSUME TypeOK, NEW o \in Owners
  PROVE  /\ owner[o] \in OwnerState
         /\ owner[o].mode \in Modes
         /\ owner[o].primary \in Lease \cup {NoLease}
         /\ owner[o].marker \in Lease \cup {NoLease}
         /\ owner[o].making \in Lease \cup {NoLease}
         /\ owner[o].held \in SUBSET Lease
         /\ owner[o].deleting \in BOOLEAN
         /\ Host[o] \in Devices
BY HostAssumption DEF TypeOK, OwnerState

(* The fields of a lease.                                                  *)
LEMMA LeaseFields ==
  ASSUME NEW l \in Lease
  PROVE  /\ l.owner \in Owners /\ l.kind \in Kinds /\ l.issued \in Nat
         /\ l.offset \in Int /\ l.epoch \in Nat
         /\ l # NoLease
BY ClockAssumption, NoneAssumption DEF Lease

(* A lease begins.                                                         *)
LEMMA BeginEffect ==
  ASSUME TypeOK, NEW o \in Owners, NEW kind \in Kinds, NEW base \in OwnerState,
         BeginLease(o, kind, base)
  PROVE  /\ owner'[o].making = NewLease(o, kind)
         /\ owner'[o].step = base.step /\ owner'[o].mode = base.mode
         /\ owner'[o].primary = base.primary /\ owner'[o].marker = base.marker
         /\ owner'[o].held = base.held /\ owner'[o].deleting = base.deleting
         /\ owner'[o].started = base.started
         /\ \A q \in Owners \ {o} : owner'[q] = owner[q]
         /\ owner' \in [Owners -> OwnerState]
         /\ uploads' = uploads \cup {NewLease(o, kind)}
         /\ NewLease(o, kind) \notin leases \cup owner[o].held
<1>1. NewLease(o, kind) \in Lease
  BY NewLeaseFacts
<1>2. [base EXCEPT !.making = NewLease(o, kind)] \in OwnerState
  BY <1>1 DEF OwnerState
<1>3. /\ owner' \in [Owners -> OwnerState]
  BY <1>1, <1>2 DEF BeginLease, TypeOK, OwnerState
<1>4. /\ owner'[o].making = NewLease(o, kind)
      /\ owner'[o].step = base.step /\ owner'[o].mode = base.mode
      /\ owner'[o].primary = base.primary /\ owner'[o].marker = base.marker
      /\ owner'[o].held = base.held /\ owner'[o].deleting = base.deleting
      /\ owner'[o].started = base.started
  BY <1>1, <1>2 DEF BeginLease, TypeOK, OwnerState
<1>5. /\ \A q \in Owners \ {o} : owner'[q] = owner[q]
      /\ uploads' = uploads \cup {NewLease(o, kind)}
      /\ NewLease(o, kind) \notin leases \cup owner[o].held
  BY <1>1, <1>2 DEF BeginLease, TypeOK, OwnerState
<1>6. QED
  BY <1>3, <1>4, <1>5

(* The marker is confirmed: placed for the first time, or renewed.         *)
LEMMA ConfirmMarkerEffect ==
  ASSUME TypeOK, NEW o \in Owners, Confirm(o), owner[o].making.kind = "Deleting"
  PROVE  /\ owner'[o].making = NoLease /\ owner'[o].marker = owner[o].making
         /\ owner'[o].held = owner[o].held \cup {owner[o].making}
         /\ owner'[o].step = IF owner[o].step = "marking" THEN "marked" ELSE owner[o].step
         /\ owner'[o].mode = owner[o].mode /\ owner'[o].primary = owner[o].primary
         /\ owner'[o].deleting = owner[o].deleting /\ owner'[o].started = owner[o].started
         /\ \A q \in Owners \ {o} : owner'[q] = owner[q]
         /\ owner' \in [Owners -> OwnerState]
<1>1. Installed(o) \in OwnerState
  <2>1. owner[o] \in OwnerState
    BY DEF TypeOK
  <2>2. QED
    BY <2>1 DEF Confirm, Installed, OwnerState
<1>2. owner' \in [Owners -> OwnerState]
  BY <1>1 DEF Confirm, TypeOK
<1>3. /\ owner'[o].making = NoLease /\ owner'[o].marker = owner[o].making
      /\ owner'[o].held = owner[o].held \cup {owner[o].making}
      /\ owner'[o].step = IF owner[o].step = "marking" THEN "marked" ELSE owner[o].step
      /\ owner'[o].mode = owner[o].mode /\ owner'[o].primary = owner[o].primary
      /\ owner'[o].deleting = owner[o].deleting /\ owner'[o].started = owner[o].started
  BY <1>1 DEF Confirm, Installed, TypeOK, OwnerState
<1>4. /\ \A q \in Owners \ {o} : owner'[q] = owner[q]
  BY <1>1 DEF Confirm, Installed, TypeOK, OwnerState
<1>5. QED
  BY <1>2, <1>3, <1>4

(* Another lease is confirmed: the first of an admission, or a renewal.    *)
LEMMA ConfirmPrimaryEffect ==
  ASSUME TypeOK, NEW o \in Owners, Confirm(o), owner[o].making.kind # "Deleting"
  PROVE  /\ owner'[o].making = NoLease /\ owner'[o].primary = owner[o].making
         /\ owner'[o].held = owner[o].held \cup {owner[o].making}
         /\ owner'[o].step = IF owner[o].step = "creating" THEN "checking" ELSE owner[o].step
         /\ owner'[o].mode = owner[o].mode /\ owner'[o].marker = owner[o].marker
         /\ owner'[o].deleting = owner[o].deleting /\ owner'[o].started = owner[o].started
         /\ \A q \in Owners \ {o} : owner'[q] = owner[q]
         /\ owner' \in [Owners -> OwnerState]
<1>1. Installed(o) \in OwnerState
  <2>1. owner[o] \in OwnerState
    BY DEF TypeOK
  <2>2. QED
    BY <2>1 DEF Confirm, Installed, OwnerState
<1>2. owner' \in [Owners -> OwnerState]
  BY <1>1 DEF Confirm, TypeOK
<1>3. /\ owner'[o].making = NoLease /\ owner'[o].primary = owner[o].making
      /\ owner'[o].held = owner[o].held \cup {owner[o].making}
      /\ owner'[o].step = IF owner[o].step = "creating" THEN "checking" ELSE owner[o].step
      /\ owner'[o].mode = owner[o].mode /\ owner'[o].marker = owner[o].marker
      /\ owner'[o].deleting = owner[o].deleting /\ owner'[o].started = owner[o].started
  BY <1>1 DEF Confirm, Installed, TypeOK, OwnerState
<1>4. /\ \A q \in Owners \ {o} : owner'[q] = owner[q]
  BY <1>1 DEF Confirm, Installed, TypeOK, OwnerState
<1>5. QED
  BY <1>2, <1>3, <1>4

(* A lease is given up, by an owner that goes on.                          *)
LEMMA GiveUpEffect ==
  ASSUME TypeOK, NEW o \in Owners, GiveUpLease(o), owner[o].step # "creating"
  PROVE  /\ owner'[o].making = NoLease
         /\ owner'[o].step = owner[o].step /\ owner'[o].mode = owner[o].mode
         /\ owner'[o].primary = owner[o].primary /\ owner'[o].marker = owner[o].marker
         /\ owner'[o].held = owner[o].held /\ owner'[o].deleting = owner[o].deleting
         /\ owner'[o].started = owner[o].started
         /\ \A q \in Owners \ {o} : owner'[q] = owner[q]
         /\ owner' \in [Owners -> OwnerState]
<1>1. [owner[o] EXCEPT !.making = NoLease] \in OwnerState
  <2>1. owner[o] \in OwnerState
    BY DEF TypeOK
  <2>2. QED
    BY <2>1 DEF OwnerState
<1>2. /\ owner' \in [Owners -> OwnerState]
  BY <1>1 DEF GiveUpLease, TypeOK, OwnerState
<1>3. /\ owner'[o].making = NoLease
      /\ owner'[o].step = owner[o].step /\ owner'[o].mode = owner[o].mode
      /\ owner'[o].primary = owner[o].primary /\ owner'[o].marker = owner[o].marker
      /\ owner'[o].held = owner[o].held /\ owner'[o].deleting = owner[o].deleting
      /\ owner'[o].started = owner[o].started
  BY <1>1 DEF GiveUpLease, TypeOK, OwnerState
<1>4. /\ \A q \in Owners \ {o} : owner'[q] = owner[q]
  BY <1>1 DEF GiveUpLease, TypeOK, OwnerState
<1>5. QED
  BY <1>2, <1>3, <1>4

(* An admission ends with its first lease.                                 *)
LEMMA GiveUpAdmissionEffect ==
  ASSUME TypeOK, NEW o \in Owners, GiveUpLease(o), owner[o].step = "creating"
  PROVE  /\ owner'[o].step = "closed" /\ owner'[o].mode = owner[o].mode
         /\ owner'[o].primary = NoLease /\ owner'[o].marker = NoLease
         /\ owner'[o].making = NoLease /\ owner'[o].held = {}
         /\ owner'[o].deleting = FALSE
         /\ \A q \in Owners \ {o} : owner'[q] = owner[q]
         /\ owner' \in [Owners -> OwnerState]
<1>1. /\ owner' \in [Owners -> OwnerState]
  BY DEF GiveUpLease, NoOwner, TypeOK, OwnerState
<1>2. /\ owner'[o].step = "closed" /\ owner'[o].mode = owner[o].mode
      /\ owner'[o].primary = NoLease /\ owner'[o].marker = NoLease
      /\ owner'[o].making = NoLease /\ owner'[o].held = {}
      /\ owner'[o].deleting = FALSE
  BY DEF GiveUpLease, NoOwner, TypeOK, OwnerState
<1>3. /\ \A q \in Owners \ {o} : owner'[q] = owner[q]
  BY DEF GiveUpLease, NoOwner, TypeOK, OwnerState
<1>4. QED
  BY <1>1, <1>2, <1>3

(* A job is over, or yields.                                               *)
LEMMA ReleaseAllEffect ==
  ASSUME TypeOK, NEW o \in Owners, ReleaseAll(o)
  PROVE  /\ owner'[o].step = "closed" /\ owner'[o].mode = owner[o].mode
         /\ owner'[o].primary = NoLease /\ owner'[o].marker = NoLease
         /\ owner'[o].making = NoLease /\ owner'[o].held = {}
         /\ owner'[o].deleting = FALSE
         /\ \A q \in Owners \ {o} : owner'[q] = owner[q]
         /\ owner' \in [Owners -> OwnerState]
<1>1. /\ owner' \in [Owners -> OwnerState]
  BY DEF ReleaseAll, NoOwner, TypeOK, OwnerState
<1>2. /\ owner'[o].step = "closed" /\ owner'[o].mode = owner[o].mode
      /\ owner'[o].primary = NoLease /\ owner'[o].marker = NoLease
      /\ owner'[o].making = NoLease /\ owner'[o].held = {}
      /\ owner'[o].deleting = FALSE
  BY DEF ReleaseAll, NoOwner, TypeOK, OwnerState
<1>3. /\ \A q \in Owners \ {o} : owner'[q] = owner[q]
  BY DEF ReleaseAll, NoOwner, TypeOK, OwnerState
<1>4. QED
  BY <1>1, <1>2, <1>3

(* A recheck passes.                                                       *)
LEMMA ProceedEffect ==
  ASSUME TypeOK, NEW o \in Owners, Proceed(o)
  PROVE  /\ \/ owner[o].step = "checking" /\ owner'[o].step = "working"
            \/ owner[o].step = "marked" /\ owner'[o].step = "batch"
         /\ owner'[o].mode = owner[o].mode /\ owner'[o].primary = owner[o].primary
         /\ owner'[o].marker = owner[o].marker /\ owner'[o].making = owner[o].making
         /\ owner'[o].held = owner[o].held /\ owner'[o].deleting = owner[o].deleting
         /\ \A q \in Owners \ {o} : owner'[q] = owner[q]
         /\ owner' \in [Owners -> OwnerState]
<1>1. Started(o) \in [time : Nat, epoch : Nat]
  BY HostAssumption DEF Started, TypeOK, ClockState
<1>2. owner' \in [Owners -> OwnerState]
  <2>1. owner[o] \in OwnerState
    BY DEF TypeOK
  <2>2. /\ [owner[o] EXCEPT !.step = "working", !.started = Started(o)] \in OwnerState
        /\ [owner[o] EXCEPT !.step = "batch"] \in OwnerState
    BY <1>1, <2>1 DEF OwnerState
  <2>3. \/ owner' = [owner EXCEPT ![o] = [owner[o] EXCEPT !.step = "working", !.started = Started(o)]]
        \/ owner' = [owner EXCEPT ![o] = [owner[o] EXCEPT !.step = "batch"]]
    BY DEF Proceed
  <2>4. QED
    BY <2>2, <2>3 DEF TypeOK
<1>3. /\ \/ owner[o].step = "checking" /\ owner'[o].step = "working"
         \/ owner[o].step = "marked" /\ owner'[o].step = "batch"
      /\ owner'[o].mode = owner[o].mode /\ owner'[o].primary = owner[o].primary
      /\ owner'[o].marker = owner[o].marker /\ owner'[o].making = owner[o].making
      /\ owner'[o].held = owner[o].held /\ owner'[o].deleting = owner[o].deleting
  <2>1. owner[o] \in OwnerState
    BY DEF TypeOK
  <2>2. CASE /\ owner[o].step = "checking"
             /\ owner' = [owner EXCEPT ![o] = [owner[o] EXCEPT !.step = "working", !.started = Started(o)]]
    BY <2>1, <2>2 DEF TypeOK, OwnerState
  <2>3. CASE /\ owner[o].step = "marked"
             /\ owner' = [owner EXCEPT ![o] = [owner[o] EXCEPT !.step = "batch"]]
    BY <2>1, <2>3 DEF TypeOK, OwnerState
  <2>4. QED
    BY <2>2, <2>3 DEF Proceed
<1>4. /\ \A q \in Owners \ {o} : owner'[q] = owner[q]
  BY <1>1 DEF Proceed, TypeOK, OwnerState
<1>5. QED
  BY <1>2, <1>3, <1>4

(* An outdated lease is given back.                                        *)
LEMMA ReleaseOldEffect ==
  ASSUME TypeOK, NEW o \in Owners, ReleaseOld(o)
  PROVE  /\ owner'[o].held \subseteq owner[o].held
         /\ owner'[o].held \cap {owner[o].primary, owner[o].marker} =
              owner[o].held \cap {owner[o].primary, owner[o].marker}
         /\ owner'[o].step = owner[o].step /\ owner'[o].mode = owner[o].mode
         /\ owner'[o].primary = owner[o].primary /\ owner'[o].marker = owner[o].marker
         /\ owner'[o].making = owner[o].making /\ owner'[o].deleting = owner[o].deleting
         /\ owner'[o].started = owner[o].started
         /\ \A q \in Owners \ {o} : owner'[q] = owner[q]
         /\ owner' \in [Owners -> OwnerState]
<1>1. owner' \in [Owners -> OwnerState]
  <2>1. owner[o] \in OwnerState
    BY DEF TypeOK
  <2>2. PICK l \in Outdated(o) : owner' = [owner EXCEPT ![o] = [owner[o] EXCEPT !.held = @ \ {l}]]
    BY DEF ReleaseOld
  <2>3. [owner[o] EXCEPT !.held = @ \ {l}] \in OwnerState
    BY <2>1 DEF OwnerState
  <2>4. QED
    BY <2>2, <2>3 DEF TypeOK
<1>2. /\ owner'[o].held \subseteq owner[o].held
      /\ owner'[o].held \cap {owner[o].primary, owner[o].marker} =
              owner[o].held \cap {owner[o].primary, owner[o].marker}
      /\ owner'[o].step = owner[o].step /\ owner'[o].mode = owner[o].mode
      /\ owner'[o].primary = owner[o].primary /\ owner'[o].marker = owner[o].marker
      /\ owner'[o].making = owner[o].making /\ owner'[o].deleting = owner[o].deleting
      /\ owner'[o].started = owner[o].started
  BY DEF ReleaseOld, Outdated, TypeOK, OwnerState
<1>3. /\ \A q \in Owners \ {o} : owner'[q] = owner[q]
  BY DEF ReleaseOld, Outdated, TypeOK, OwnerState
<1>4. QED
  BY <1>1, <1>2, <1>3

(* A DELETE is sent.                                                       *)
LEMMA DispatchEffect ==
  ASSUME TypeOK, NEW o \in Owners, Dispatch(o)
  PROVE  /\ owner'[o].deleting = TRUE
         /\ owner'[o].step = owner[o].step /\ owner'[o].mode = owner[o].mode
         /\ owner'[o].primary = owner[o].primary /\ owner'[o].marker = owner[o].marker
         /\ owner'[o].making = owner[o].making /\ owner'[o].held = owner[o].held
         /\ owner'[o].started = owner[o].started
         /\ \A q \in Owners \ {o} : owner'[q] = owner[q]
         /\ owner' \in [Owners -> OwnerState]
<1>1. owner' \in [Owners -> OwnerState]
  <2>1. owner[o] \in OwnerState
    BY DEF TypeOK
  <2>2. [owner[o] EXCEPT !.deleting = TRUE] \in OwnerState
    BY <2>1 DEF OwnerState
  <2>3. owner' = [owner EXCEPT ![o] = [owner[o] EXCEPT !.deleting = TRUE]]
    BY DEF Dispatch
  <2>4. QED
    BY <2>2, <2>3 DEF TypeOK
<1>2. /\ owner'[o].deleting = TRUE
      /\ owner'[o].step = owner[o].step /\ owner'[o].mode = owner[o].mode
      /\ owner'[o].primary = owner[o].primary /\ owner'[o].marker = owner[o].marker
      /\ owner'[o].making = owner[o].making /\ owner'[o].held = owner[o].held
      /\ owner'[o].started = owner[o].started
  BY DEF Dispatch, TypeOK, OwnerState
<1>3. /\ \A q \in Owners \ {o} : owner'[q] = owner[q]
  BY DEF Dispatch, TypeOK, OwnerState
<1>4. QED
  BY <1>1, <1>2, <1>3

(* A DELETE is answered.                                                   *)
LEMMA DeletedEffect ==
  ASSUME TypeOK, NEW o \in Owners, Deleted(o)
  PROVE  /\ owner'[o].deleting = FALSE /\ owner'[o].step \in {"batch", "marked"}
         /\ owner'[o].mode = owner[o].mode /\ owner'[o].primary = owner[o].primary
         /\ owner'[o].marker = owner[o].marker /\ owner'[o].making = owner[o].making
         /\ owner'[o].held = owner[o].held /\ owner'[o].started = owner[o].started
         /\ \A q \in Owners \ {o} : owner'[q] = owner[q]
         /\ owner' \in [Owners -> OwnerState]
<1>1. owner' \in [Owners -> OwnerState]
  <2>1. owner[o] \in OwnerState
    BY DEF TypeOK
  <2>2. PICK next \in {"batch", "marked"} :
          owner' = [owner EXCEPT ![o] = [owner[o] EXCEPT !.deleting = FALSE, !.step = next]]
    BY DEF Deleted
  <2>3. [owner[o] EXCEPT !.deleting = FALSE, !.step = next] \in OwnerState
    BY <2>1 DEF OwnerState
  <2>4. QED
    BY <2>2, <2>3 DEF TypeOK
<1>2. /\ owner'[o].deleting = FALSE /\ owner'[o].step \in {"batch", "marked"}
      /\ owner'[o].mode = owner[o].mode /\ owner'[o].primary = owner[o].primary
      /\ owner'[o].marker = owner[o].marker /\ owner'[o].making = owner[o].making
      /\ owner'[o].held = owner[o].held /\ owner'[o].started = owner[o].started
  BY DEF Deleted, TypeOK, OwnerState
<1>3. /\ \A q \in Owners \ {o} : owner'[q] = owner[q]
  BY DEF Deleted, TypeOK, OwnerState
<1>4. QED
  BY <1>1, <1>2, <1>3

(* A device restarts, with every job on it.                                *)
LEMMA RestartEffect ==
  ASSUME TypeOK, NEW d \in Devices, Restart(d)
  PROVE  /\ \A o \in Owners : Host[o] = d =>
              /\ owner'[o].step = "idle" /\ owner'[o].mode = owner[o].mode
              /\ owner'[o].primary = NoLease /\ owner'[o].marker = NoLease
              /\ owner'[o].making = NoLease /\ owner'[o].held = {}
              /\ owner'[o].deleting = FALSE
              /\ survey'[o] = NoSurvey
         /\ \A o \in Owners : Host[o] # d => owner'[o] = owner[o] /\ survey'[o] = survey[o]
         /\ owner' \in [Owners -> OwnerState]
         /\ \A c \in Devices \ {d} : clock'[c] = clock[c]
         /\ clock'[d].epoch = clock[d].epoch + 1 /\ clock'[d].process = clock[d].epoch + 1
         /\ clock'[d].verified = Never
         /\ clock' \in [Devices -> ClockState]
<1>1. \A o \in Owners : NoOwner("idle", owner[o].mode) \in OwnerState
  BY DEF NoOwner, TypeOK, OwnerState
<1>2. /\ owner' = [o \in Owners |-> IF Host[o] = d THEN NoOwner("idle", owner[o].mode)
                                    ELSE owner[o]]
      /\ survey' = [o \in Owners |-> IF Host[o] = d THEN NoSurvey ELSE survey[o]]
  BY DEF Restart
<1>3. owner' \in [Owners -> OwnerState]
  BY <1>1, <1>2 DEF TypeOK
<1>4. /\ \A o \in Owners : Host[o] = d =>
           /\ owner'[o].step = "idle" /\ owner'[o].mode = owner[o].mode
           /\ owner'[o].primary = NoLease /\ owner'[o].marker = NoLease
           /\ owner'[o].making = NoLease /\ owner'[o].held = {}
           /\ owner'[o].deleting = FALSE
           /\ survey'[o] = NoSurvey
      /\ \A o \in Owners : Host[o] # d => owner'[o] = owner[o] /\ survey'[o] = survey[o]
  BY <1>2 DEF NoOwner
<1> DEFINE reading == [offset |-> clock[d].offset, verified |-> Never, foreground |-> TRUE,
                       epoch |-> clock[d].epoch + 1, process |-> clock[d].epoch + 1]
<1>5. /\ reading \in ClockState
      /\ reading.epoch = clock[d].epoch + 1 /\ reading.process = clock[d].epoch + 1
      /\ reading.verified = Never
  <2>1. clock[d] \in ClockState
    BY DEF TypeOK
  <2>2. QED
    BY <2>1 DEF ClockState
<1>6. /\ \A c \in Devices \ {d} : clock'[c] = clock[c]
      /\ clock'[d].epoch = clock[d].epoch + 1 /\ clock'[d].process = clock[d].epoch + 1
      /\ clock'[d].verified = Never
      /\ clock' \in [Devices -> ClockState]
  <2>1. clock' = [clock EXCEPT ![d] = reading]
    BY DEF Restart
  <2> HIDE DEF reading
  <2>2. QED
    BY <1>5, <2>1 DEF TypeOK
<1>7. QED
  BY <1>3, <1>4, <1>6

------------------------------------------------------------------------------
(* Clocks only move on: an epoch never returns, and keeps its offset.      *)

MovesOn(d) ==
    /\ clock[d].epoch <= clock'[d].epoch
    /\ clock[d].epoch = clock'[d].epoch => clock[d].offset = clock'[d].offset
    /\ clock[d].process <= clock'[d].process
    /\ clock'[d].process \in {clock[d].process, clock'[d].epoch}

ClockOK(d) ==
    /\ clock[d].verified # Never => WithinError(clock[d].offset)
    /\ clock[d].process <= clock[d].epoch

LEMMA ClockStep ==
  ASSUME TypeOK, [Next]_vars
  PROVE  /\ clock' \in [Devices -> ClockState]
         /\ time' \in Nat /\ time <= time'
         /\ \A d \in Devices : ClockOK(d) => ClockOK(d)' /\ MovesOn(d)
         /\ \A d \in Devices : ~Restart(d) => clock'[d].process = clock[d].process
<1> USE DEF ClockState
<1>1. CASE Tick
  <2>1. \A d \in Devices : /\ clock'[d].verified \in {clock[d].verified, Never}
                           /\ clock'[d].offset = clock[d].offset
                           /\ clock'[d].epoch = clock[d].epoch
                           /\ clock'[d].process = clock[d].process
    BY <1>1 DEF Tick, TypeOK
  <2>2. clock' \in [Devices -> ClockState] /\ time' = time + 1
    BY <1>1 DEF Tick, TypeOK
  <2>3. QED
    BY <2>1, <2>2 DEF TypeOK, ClockOK, MovesOn, WithinError
<1>2. ASSUME NEW d \in Devices, Observe(d)
      PROVE  /\ clock' \in [Devices -> ClockState]
             /\ time' = time
             /\ \A c \in Devices : ClockOK(c) => ClockOK(c)' /\ MovesOn(c)
             /\ \A c \in Devices : clock'[c].process = clock[c].process
  <2>1. /\ clock'[d].verified # Never => WithinError(clock[d].offset)
        /\ clock'[d].offset = clock[d].offset
        /\ clock'[d].epoch = clock[d].epoch
        /\ clock'[d].process = clock[d].process
        /\ \A c \in Devices \ {d} : clock'[c] = clock[c]
    BY <1>2 DEF Observe, TypeOK
  <2>2. clock' \in [Devices -> ClockState] /\ time' = time
    BY <1>2 DEF Observe, TypeOK
  <2>3. QED
    BY <2>1, <2>2 DEF TypeOK, ClockOK, MovesOn, WithinError
<1>3. ASSUME NEW d \in Devices, ClockBreaks(d)
      PROVE  /\ clock' \in [Devices -> ClockState]
             /\ time' = time
             /\ \A c \in Devices : ClockOK(c) => ClockOK(c)' /\ MovesOn(c)
             /\ \A c \in Devices : clock'[c].process = clock[c].process
  <2>1. /\ clock'[d].verified = Never
        /\ clock'[d].epoch = clock[d].epoch + 1
        /\ clock'[d].process = clock[d].process
        /\ \A c \in Devices \ {d} : clock'[c] = clock[c]
    BY <1>3 DEF ClockBreaks, Invalidated, TypeOK
  <2>2. clock' \in [Devices -> ClockState] /\ time' = time
    BY <1>3 DEF ClockBreaks, Invalidated, TypeOK
  <2>3. QED
    BY <2>1, <2>2 DEF TypeOK, ClockOK, MovesOn, WithinError
<1>4. ASSUME NEW d \in Devices, Restart(d)
      PROVE  /\ clock' \in [Devices -> ClockState]
             /\ time' = time
             /\ \A c \in Devices : ClockOK(c) => ClockOK(c)' /\ MovesOn(c)
             /\ \A c \in Devices \ {d} : clock'[c].process = clock[c].process
  <2>1. time' = time
    BY <1>4 DEF Restart
  <2>2. /\ \A c \in Devices \ {d} : clock'[c] = clock[c]
        /\ clock'[d].epoch = clock[d].epoch + 1 /\ clock'[d].process = clock[d].epoch + 1
        /\ clock'[d].verified = Never
        /\ clock' \in [Devices -> ClockState]
    BY <1>4, RestartEffect
  <2>3. QED
    BY <2>1, <2>2 DEF TypeOK, ClockOK, MovesOn, WithinError
<1>5. CASE UNCHANGED <<time, clock>>
  BY <1>5 DEF TypeOK, ClockOK, MovesOn, WithinError
<1>6. [Next]_vars =>
        \/ Tick
        \/ \E d \in Devices : Observe(d) \/ ClockBreaks(d) \/ Restart(d)
        \/ UNCHANGED <<time, clock>>
  BY DEF Next, vars, Land, DeleteLands, Admit, Confirm, GiveUpLease, Survey, Proceed, Yield,
         Renew, ReleaseOld, Close, ReleaseAll, PlaceMarker, Dispatch, Deleted
<1>7. time \in Nat
  BY DEF TypeOK
<1>8. QED
  BY <1>1, <1>2, <1>3, <1>4, <1>5, <1>6, <1>7
------------------------------------------------------------------------------
(* The shape of an owner at each step: whose leases it holds, which of     *)
(* them are current, and that what it writes continues what it has.        *)

Checking(o) == owner[o].step = "checking"
Admitted(o) == Running(o) \/ Checking(o)

(* A lease bears the epoch of its device's clock and the offset it had.    *)
Dated(l) ==
    /\ l.epoch <= clock[Host[l.owner]].epoch
    /\ l.epoch = clock[Host[l.owner]].epoch => l.offset = clock[Host[l.owner]].offset

OwnLease(o, l) ==
    /\ l \in Lease /\ l.owner = o
    /\ Dated(l)
    /\ clock[Host[o]].process <= l.epoch

Alike(l, m) == l.epoch = m.epoch /\ l.offset = m.offset

HoldsOwn(o) ==
    /\ \A l \in owner[o].held : OwnLease(o, l)
    /\ owner[o].making # NoLease => OwnLease(o, owner[o].making)

StepOK(o) ==
    /\ survey[o] # NoSurvey => owner[o].step \in {"checking", "marked"}
    /\ owner[o].step \in {"idle", "creating", "closed"} =>
         owner[o].held = {} /\ owner[o].marker = NoLease
    /\ owner[o].step \in {"idle", "checking", "closed"} => owner[o].making = NoLease
    /\ owner[o].step = "creating" =>
         owner[o].making # NoLease /\ owner[o].making.kind = wire_kind(owner[o].mode)
    /\ owner[o].step = "marking" =>
         owner[o].making # NoLease /\ owner[o].making.kind = "Deleting"
    /\ owner[o].making # NoLease /\ owner[o].making.kind = "Deleting" =>
         owner[o].step \in {"marking", "marked", "batch"}
    /\ owner[o].step \in {"marking", "marked", "batch"} => owner[o].mode = "cleanup"
    /\ owner[o].deleting => owner[o].step = "batch"

CurrentOK(o) ==
    Admitted(o) =>
      /\ owner[o].primary \in owner[o].held \cap leases
      /\ owner[o].primary.kind = wire_kind(owner[o].mode)
      /\ \A l \in owner[o].held : Alike(l, owner[o].primary)
      /\ owner[o].marker # NoLease <=> owner[o].step \in {"marked", "batch"}
      /\ owner[o].marker # NoLease =>
           owner[o].marker \in owner[o].held \cap leases /\ owner[o].marker.kind = "Deleting"

RenewalOK(o) ==
    Admitted(o) /\ owner[o].making # NoLease =>
      /\ Alike(owner[o].making, owner[o].primary)
      /\ owner[o].making.kind # "Deleting" =>
           /\ owner[o].making.kind = owner[o].primary.kind
           /\ owner[o].making.issued < owner[o].primary.issued + LEASE_TTL - SAFETY_MARGIN
      /\ owner[o].making.kind = "Deleting" /\ owner[o].marker # NoLease =>
           owner[o].marker.issued <= owner[o].making.issued

OwnerOK(o) == HoldsOwn(o) /\ StepOK(o) /\ CurrentOK(o) /\ RenewalOK(o)

AbandonedOK(d) == \A l \in abandoned[d] : Host[l.owner] = d /\ l.epoch < clock[d].process

ShapeInv ==
    /\ TypeOK
    /\ \A d \in Devices : ClockOK(d) /\ AbandonedOK(d)
    /\ \A l \in leases \cup uploads : Dated(l)
    /\ \A o \in Owners : OwnerOK(o)

(* What a step leaves to an owner that does not take part in it.           *)
LEMMA OwnerFrame ==
  ASSUME TypeOK, NEW o \in Owners, OwnerOK(o), MovesOn(Host[o]), clock' \in [Devices -> ClockState],
         clock'[Host[o]].process = clock[Host[o]].process,
         owner'[o] = owner[o], survey'[o] = survey[o],
         Admitted(o) =>
           \A l \in {owner[o].primary, owner[o].marker} : l \in leases => l \in leases'
  PROVE  OwnerOK(o)'
<1>1. \A l \in Lease : OwnLease(o, l) => OwnLease(o, l)'
  <2>1. Host[o] \in Devices
    BY HostAssumption
  <2>2. /\ clock[Host[o]].epoch \in Nat /\ clock'[Host[o]].epoch \in Nat
    BY <2>1 DEF TypeOK, ClockState
  <2>3. \A l \in Lease : l.epoch \in Nat
    BY LeaseFields
  <2>4. QED
    BY <2>2, <2>3 DEF OwnLease, Dated, MovesOn
<1>2. HoldsOwn(o)'
  BY <1>1 DEF HoldsOwn, OwnerOK, OwnLease
<1>3. StepOK(o)'
  BY DEF StepOK, OwnerOK
<1>4. CurrentOK(o)'
  BY DEF CurrentOK, OwnerOK, Alike, Admitted, Running, Checking
<1>5. RenewalOK(o)'
  BY DEF RenewalOK, OwnerOK, Alike, Admitted, Running, Checking
<1>6. QED
  BY <1>2, <1>3, <1>4, <1>5 DEF OwnerOK

(* What an admitted owner works under, when the clock has not broken.      *)
LEMMA CurrentFacts ==
  ASSUME ShapeInv, NEW o \in Owners, Admitted(o)
  PROVE  /\ owner[o].primary \in Lease /\ OwnLease(o, owner[o].primary)
         /\ owner[o].marker # NoLease =>
              owner[o].marker \in Lease /\ OwnLease(o, owner[o].marker)
         /\ \A l \in owner[o].held : l \in Lease /\ OwnLease(o, l)
BY DEF ShapeInv, OwnerOK, CurrentOK, HoldsOwn, OwnLease

(* No step but its own takes a current lease from an owner.                *)
LEMMA ForeignLeasesStay ==
  ASSUME ShapeInv, NEW o \in Owners, NEW q \in Owners \ {o}, Admitted(q),
         ReleaseAll(o) \/ ReleaseOld(o) \/ Admit(o)
  PROVE  \A l \in {owner[q].primary, owner[q].marker} : l \in leases => l \in leases'
<1> SUFFICES ASSUME NEW l \in {owner[q].primary, owner[q].marker}, l \in leases
             PROVE  l \in leases'
  OBVIOUS
<1>1. l \in Lease /\ l.owner = q /\ clock[Host[q]].process <= l.epoch
  <2>1. l # NoLease
    BY NoneAssumption DEF ShapeInv, TypeOK
  <2>2. QED
    BY <2>1, CurrentFacts DEF OwnLease
<1>2. l \notin owner[o].held
  BY <1>1 DEF ShapeInv, OwnerOK, HoldsOwn, OwnLease
<1>3. l \notin abandoned[Host[o]]
  <2>1. Host[o] \in Devices /\ Host[q] \in Devices
    BY HostAssumption
  <2>2. /\ l.epoch \in Nat /\ clock[Host[q]].process \in Nat
    BY <1>1, <2>1, LeaseFields DEF ShapeInv, TypeOK, ClockState
  <2>3. QED
    BY <1>1, <2>1, <2>2 DEF ShapeInv, AbandonedOK
<1>4. CASE ReleaseAll(o)
  BY <1>2, <1>4 DEF ReleaseAll, Releasable
<1>5. CASE ReleaseOld(o)
  BY <1>2, <1>5 DEF ReleaseOld, Outdated
<1>6. CASE Admit(o)
  BY <1>3, <1>6 DEF Admit, Abandoned
<1>7. QED
  BY <1>4, <1>5, <1>6

(* Types, with what the shape adds: a renewal knows what it renews.        *)
LEMMA TypeStep ==
  ASSUME ShapeInv, [Next]_vars
  PROVE  TypeOK'
<1> TypeOK
  BY DEF ShapeInv
<1>1. clock' \in [Devices -> ClockState] /\ time' \in Nat
  BY ClockStep
<1>2. CASE Tick
  BY <1>1, <1>2 DEF Tick, TypeOK
<1>3. CASE \E d \in Devices : Observe(d) \/ ClockBreaks(d)
  BY <1>1, <1>3 DEF Observe, ClockBreaks, Event, TypeOK
<1>4. ASSUME NEW d \in Devices, Restart(d)
      PROVE  TypeOK'
  <2>1. deletes' \subseteq [by : Owners, until : Nat, restarted : BOOLEAN]
    BY <1>4 DEF Restart, TypeOK
  <2>2. abandoned' \in [Devices -> SUBSET Lease]
    BY <1>4 DEF Restart, TypeOK
  <2>3. survey' \in [Owners -> [at : Nat, found : SUBSET Lease] \cup {NoSurvey}]
    BY <1>4 DEF Restart, TypeOK
  <2>4. UNCHANGED <<leases, uploads>> /\ events' \in Nat
    BY <1>4 DEF Restart, Event, TypeOK
  <2>5. owner' \in [Owners -> OwnerState]
    BY <1>4, RestartEffect
  <2>6. QED
    BY <1>1, <2>1, <2>2, <2>3, <2>4, <2>5 DEF TypeOK
<1>5. CASE \E l \in uploads : Land(l)
  BY <1>5 DEF Land, TypeOK
<1>6. CASE \E x \in deletes : DeleteLands(x)
  BY <1>6 DEF DeleteLands, TypeOK
<1>7. ASSUME NEW o \in Owners, Admit(o)
      PROVE  TypeOK'
  <2>1. [owner[o] EXCEPT !.step = "creating"] \in OwnerState
    <3>1. owner[o] \in OwnerState
      BY DEF TypeOK
    <3>2. QED
      BY <3>1 DEF OwnerState
  <2>2. owner' \in [Owners -> OwnerState] /\ uploads' \subseteq Lease
    BY <1>7, <2>1, BeginEffect, NewLeaseFacts, KindFacts, OwnerFields DEF Admit, TypeOK
  <2>3. leases' \subseteq Lease /\ abandoned' \in [Devices -> SUBSET Lease]
    BY <1>7 DEF Admit, TypeOK
  <2>4. QED
    BY <1>7, <2>2, <2>3 DEF Admit, TypeOK
<1>8. ASSUME NEW o \in Owners, Confirm(o)
      PROVE  TypeOK'
  <2>1. owner' \in [Owners -> OwnerState]
    BY <1>8, ConfirmMarkerEffect, ConfirmPrimaryEffect
  <2>2. QED
    BY <1>8, <2>1 DEF Confirm, TypeOK
<1>9. ASSUME NEW o \in Owners, GiveUpLease(o)
      PROVE  TypeOK'
  <2>1. owner' \in [Owners -> OwnerState]
    BY <1>9, GiveUpEffect, GiveUpAdmissionEffect
  <2>2. QED
    BY <1>9, <2>1 DEF GiveUpLease, Event, TypeOK
<1>10. ASSUME NEW o \in Owners, Survey(o)
       PROVE  TypeOK'
  BY <1>10 DEF Survey, TypeOK
<1>11. ASSUME NEW o \in Owners, Proceed(o)
       PROVE  TypeOK'
  <2>1. owner' \in [Owners -> OwnerState]
    BY <1>11, ProceedEffect
  <2>2. QED
    BY <1>11, <2>1 DEF Proceed, TypeOK
<1>12. ASSUME NEW o \in Owners, ReleaseAll(o)
       PROVE  TypeOK'
  <2>1. owner' \in [Owners -> OwnerState]
    BY <1>12, ReleaseAllEffect
  <2>2. QED
    BY <1>12, <2>1 DEF ReleaseAll, Event, TypeOK
<1>13. ASSUME NEW o \in Owners, Renew(o)
       PROVE  TypeOK'
  <2>1. PICK previous \in Holding(o, TRUE) : BeginLease(o, previous.kind, owner[o])
    BY <1>13 DEF Renew
  <2>2. previous \in Lease
    BY <1>13, CurrentFacts DEF Renew, Holding, Admitted
  <2>3. owner' \in [Owners -> OwnerState] /\ uploads' \subseteq Lease
    BY <2>1, <2>2, BeginEffect, NewLeaseFacts, LeaseFields, OwnerFields DEF TypeOK
  <2>4. QED
    BY <1>13, <2>3 DEF Renew, Event, TypeOK
<1>14. ASSUME NEW o \in Owners, ReleaseOld(o)
       PROVE  TypeOK'
  <2>1. owner' \in [Owners -> OwnerState]
    BY <1>14, ReleaseOldEffect
  <2>2. QED
    BY <1>14, <2>1 DEF ReleaseOld, TypeOK
<1>15. ASSUME NEW o \in Owners, PlaceMarker(o)
       PROVE  TypeOK'
  <2>1. [owner[o] EXCEPT !.step = "marking"] \in OwnerState
    <3>1. owner[o] \in OwnerState
      BY DEF TypeOK
    <3>2. QED
      BY <3>1 DEF OwnerState
  <2>2. "Deleting" \in Kinds
    BY DEF Kinds
  <2>3. owner' \in [Owners -> OwnerState] /\ uploads' \subseteq Lease
    BY <1>15, <2>1, <2>2, BeginEffect, NewLeaseFacts DEF PlaceMarker, TypeOK
  <2>4. QED
    BY <1>15, <2>3 DEF PlaceMarker, TypeOK
<1>16. ASSUME NEW o \in Owners, Dispatch(o)
       PROVE  TypeOK'
  <2>1. time + SAFETY_MARGIN \in Nat
    BY ClockAssumption DEF TypeOK
  <2>2. owner' \in [Owners -> OwnerState]
    BY <1>16, DispatchEffect
  <2>3. deletes' \subseteq [by : Owners, until : Nat, restarted : BOOLEAN]
    <3>1. [by |-> o, until |-> time + SAFETY_MARGIN, restarted |-> FALSE]
            \in [by : Owners, until : Nat, restarted : BOOLEAN]
      BY <2>1
    <3>2. QED
      BY <1>16, <3>1 DEF Dispatch, TypeOK
  <2>4. UNCHANGED <<time, clock, leases, uploads, survey, abandoned, events>>
    BY <1>16 DEF Dispatch
  <2>5. QED
    BY <2>2, <2>3, <2>4 DEF TypeOK
<1>17. ASSUME NEW o \in Owners, Deleted(o)
       PROVE  TypeOK'
  <2>1. owner' \in [Owners -> OwnerState]
    BY <1>17, DeletedEffect
  <2>2. QED
    BY <1>17, <2>1 DEF Deleted, TypeOK
<1>18. CASE UNCHANGED vars
  BY <1>18 DEF vars, TypeOK
<1>19. QED
  BY <1>2, <1>3, <1>4, <1>5, <1>6, <1>7, <1>8, <1>9, <1>10, <1>11, <1>12, <1>13,
     <1>14, <1>15, <1>16, <1>17, <1>18 DEF Next, Yield, Close

------------------------------------------------------------------------------
(* Each action keeps the shape of the owner it acts for.                   *)

(* A new lease is the owner's own, and like the current one of a clock     *)
(* that has not broken since.                                              *)
LEMMA NewLeaseOwn ==
  ASSUME ShapeInv, NEW o \in Owners, NEW kind \in Kinds
  PROVE  /\ OwnLease(o, NewLease(o, kind))
         /\ Dated(NewLease(o, kind))
         /\ Admitted(o) /\ owner[o].primary.epoch = clock[Host[o]].epoch =>
              Alike(NewLease(o, kind), owner[o].primary)
<1> TypeOK
  BY DEF ShapeInv
<1>1. Host[o] \in Devices
  BY HostAssumption
<1>2. clock[Host[o]].epoch \in Nat /\ clock[Host[o]].process \in Nat
  BY <1>1 DEF TypeOK, ClockState
<1>3. clock[Host[o]].process <= clock[Host[o]].epoch
  BY <1>1 DEF ShapeInv, ClockOK
<1>4. OwnLease(o, NewLease(o, kind)) /\ Dated(NewLease(o, kind))
  BY <1>2, <1>3, NewLeaseFacts DEF OwnLease, Dated
<1>5. ASSUME Admitted(o), owner[o].primary.epoch = clock[Host[o]].epoch
      PROVE  Alike(NewLease(o, kind), owner[o].primary)
  <2>1. Dated(owner[o].primary) /\ owner[o].primary.owner = o
    BY <1>5, CurrentFacts DEF OwnLease
  <2>2. QED
    BY <1>5, <2>1, NewLeaseFacts DEF Alike, Dated
<1>6. QED
  BY <1>4, <1>5

(* Own leases stay own leases while the clock stands.                      *)
LEMMA OwnLeasesStand ==
  ASSUME clock' = clock, NEW o \in Owners, NEW l
  PROVE  OwnLease(o, l)' <=> OwnLease(o, l)
BY DEF OwnLease, Dated

LEMMA AdmitShape ==
  ASSUME ShapeInv, NEW o \in Owners, Admit(o)
  PROVE  OwnerOK(o)'
<1> TypeOK /\ OwnerOK(o)
  BY DEF ShapeInv
<1>0. clock' = clock /\ survey' = survey /\ owner[o].step = "idle"
  BY DEF Admit, Idle
<1>1. CASE owner' = owner
  BY <1>0, <1>1 DEF OwnerOK, HoldsOwn, StepOK, CurrentOK, RenewalOK, Admitted, Running, Checking
<1>2. CASE BeginLease(o, wire_kind(owner[o].mode), [owner[o] EXCEPT !.step = "creating"])
  <2> DEFINE kind == wire_kind(owner[o].mode)
             base == [owner[o] EXCEPT !.step = "creating"]
  <2>1. owner[o] \in OwnerState
    BY DEF TypeOK
  <2>2. /\ base \in OwnerState /\ base.step = "creating" /\ base.held = owner[o].held
        /\ base.marker = owner[o].marker /\ base.mode = owner[o].mode
        /\ base.deleting = owner[o].deleting
    BY <2>1 DEF OwnerState
  <2>3. kind \in Kinds /\ BeginLease(o, kind, base)
    BY <1>2, KindFacts, OwnerFields
  <2> HIDE DEF base, kind
  <2>4. /\ owner'[o].making = NewLease(o, kind) /\ owner'[o].step = "creating"
        /\ owner'[o].held = owner[o].held /\ owner'[o].marker = owner[o].marker
        /\ owner'[o].mode = owner[o].mode /\ owner'[o].deleting = owner[o].deleting
    BY <2>2, <2>3, BeginEffect
  <2>5. /\ owner[o].held = {} /\ owner[o].marker = NoLease /\ ~owner[o].deleting
        /\ survey[o] = NoSurvey
    BY <1>0 DEF OwnerOK, StepOK
  <2>6. HoldsOwn(o)'
    BY <1>0, <2>3, <2>4, <2>5, NewLeaseOwn, OwnLeasesStand DEF HoldsOwn
  <2>7. NewLease(o, kind) # NoLease /\ NewLease(o, kind).kind = kind /\ kind # "Deleting"
    BY <2>3, NewLeaseFacts, KindFacts, OwnerFields DEF kind
  <2>8. StepOK(o)'
    BY <1>0, <2>4, <2>5, <2>7 DEF StepOK, kind
  <2>9. CurrentOK(o)' /\ RenewalOK(o)'
    BY <2>4 DEF CurrentOK, RenewalOK, Admitted, Running, Checking
  <2>10. QED
    BY <2>6, <2>8, <2>9 DEF OwnerOK
<1>3. QED
  BY <1>1, <1>2 DEF Admit

(* A confirmed lease becomes current in the place of its like.             *)
LEMMA ConfirmShape ==
  ASSUME ShapeInv, NEW o \in Owners, Confirm(o)
  PROVE  OwnerOK(o)'
<1> TypeOK /\ OwnerOK(o)
  BY DEF ShapeInv
<1> DEFINE l == owner[o].making
<1>0. /\ clock' = clock /\ survey' = survey /\ leases' = leases
      /\ l # NoLease /\ l \in leases
      /\ OwnLease(o, l)
  BY DEF Confirm, OwnerOK, HoldsOwn
<1>1. CASE l.kind = "Deleting"
  <2>1. /\ owner'[o].making = NoLease /\ owner'[o].marker = l
        /\ owner'[o].held = owner[o].held \cup {l}
        /\ owner'[o].step = IF owner[o].step = "marking" THEN "marked" ELSE owner[o].step
        /\ owner'[o].mode = owner[o].mode /\ owner'[o].primary = owner[o].primary
        /\ owner'[o].deleting = owner[o].deleting
    BY <1>1, ConfirmMarkerEffect
  <2>2. owner[o].step \in {"marking", "marked", "batch"}
    BY <1>0, <1>1 DEF OwnerOK, StepOK
  <2>3. HoldsOwn(o)'
    BY <1>0, <2>1, OwnLeasesStand DEF HoldsOwn, OwnerOK
  <2>4. StepOK(o)'
    BY <1>0, <2>1, <2>2 DEF StepOK, OwnerOK
  <2>5. Admitted(o) /\ Alike(l, owner[o].primary)
    BY <1>0, <2>2 DEF OwnerOK, RenewalOK, Admitted, Running
  <2>6. CurrentOK(o)'
    <3>1. /\ owner[o].primary \in owner[o].held \cap leases
          /\ owner[o].primary.kind = wire_kind(owner[o].mode)
          /\ \A m \in owner[o].held : Alike(m, owner[o].primary)
      BY <2>5 DEF OwnerOK, CurrentOK
    <3>2. owner'[o].step \in {"marked", "batch"}
      BY <2>1, <2>2
    <3>3. \A m \in owner'[o].held : Alike(m, owner'[o].primary)
      BY <2>1, <2>5, <3>1
    <3>4. QED
      BY <1>0, <1>1, <2>1, <3>1, <3>2, <3>3 DEF CurrentOK, Alike
  <2>7. RenewalOK(o)'
    BY <2>1 DEF RenewalOK
  <2>8. QED
    BY <2>3, <2>4, <2>6, <2>7 DEF OwnerOK
<1>2. CASE l.kind # "Deleting"
  <2>1. /\ owner'[o].making = NoLease /\ owner'[o].primary = l
        /\ owner'[o].held = owner[o].held \cup {l}
        /\ owner'[o].step = IF owner[o].step = "creating" THEN "checking" ELSE owner[o].step
        /\ owner'[o].mode = owner[o].mode /\ owner'[o].marker = owner[o].marker
        /\ owner'[o].deleting = owner[o].deleting
    BY <1>2, ConfirmPrimaryEffect
  <2>2. owner[o].step \notin {"idle", "checking", "closed", "marking"}
    BY <1>0, <1>2 DEF OwnerOK, StepOK
  <2>3. HoldsOwn(o)'
    BY <1>0, <2>1, OwnLeasesStand DEF HoldsOwn, OwnerOK
  <2>4. StepOK(o)'
    BY <1>0, <2>1, <2>2 DEF StepOK, OwnerOK
  <2>5. owner[o].step # "creating" => Admitted(o)
    <3>1. owner[o].step \in {"idle", "creating", "checking", "working", "marking", "marked",
                             "batch", "closed"}
      BY OwnerFields DEF OwnerState
    <3>2. QED
      BY <2>2, <3>1 DEF Admitted, Running
  <2>6. /\ \A m \in owner'[o].held : Alike(m, l)
        /\ l.kind = wire_kind(owner[o].mode)
        /\ owner[o].marker # NoLease <=> owner'[o].step \in {"marked", "batch"}
        /\ owner[o].marker # NoLease =>
             owner[o].marker \in owner[o].held \cap leases /\ owner[o].marker.kind = "Deleting"
    <3>1. CASE owner[o].step = "creating"
      BY <2>1, <3>1, <1>0 DEF OwnerOK, StepOK, Alike
    <3>2. CASE owner[o].step # "creating"
      <4>1. /\ Alike(l, owner[o].primary) /\ l.kind = owner[o].primary.kind
        BY <1>0, <1>2, <2>5, <3>2 DEF OwnerOK, RenewalOK
      <4>2. /\ \A m \in owner[o].held : Alike(m, owner[o].primary)
            /\ owner[o].primary.kind = wire_kind(owner[o].mode)
            /\ owner[o].marker # NoLease <=> owner[o].step \in {"marked", "batch"}
            /\ owner[o].marker # NoLease =>
                 owner[o].marker \in owner[o].held \cap leases
                 /\ owner[o].marker.kind = "Deleting"
        BY <2>5, <3>2 DEF OwnerOK, CurrentOK
      <4>3. QED
        BY <2>1, <3>2, <4>1, <4>2 DEF Alike
    <3>3. QED
      BY <3>1, <3>2
  <2>7. CurrentOK(o)'
    BY <1>0, <2>1, <2>6 DEF CurrentOK, Alike
  <2>8. RenewalOK(o)'
    BY <2>1 DEF RenewalOK
  <2>9. QED
    BY <2>3, <2>4, <2>7, <2>8 DEF OwnerOK
<1>3. QED
  BY <1>1, <1>2
LEMMA GiveUpShape ==
  ASSUME ShapeInv, NEW o \in Owners, GiveUpLease(o)
  PROVE  OwnerOK(o)'
<1> TypeOK /\ OwnerOK(o)
  BY DEF ShapeInv
<1>0. clock' = clock /\ survey' = survey /\ leases' = leases /\ owner[o].making # NoLease
  BY DEF GiveUpLease
<1>1. CASE owner[o].step = "creating"
  <2>1. survey[o] = NoSurvey
    BY <1>1 DEF OwnerOK, StepOK
  <2>2. QED
    BY <1>0, <1>1, <2>1, GiveUpAdmissionEffect
       DEF OwnerOK, HoldsOwn, StepOK, CurrentOK, RenewalOK, Admitted, Running, Checking
<1>2. CASE owner[o].step # "creating"
  <2>1. /\ owner'[o].making = NoLease /\ owner[o].step # "marking"
        /\ owner'[o].step = owner[o].step /\ owner'[o].mode = owner[o].mode
        /\ owner'[o].primary = owner[o].primary /\ owner'[o].marker = owner[o].marker
        /\ owner'[o].held = owner[o].held /\ owner'[o].deleting = owner[o].deleting
    BY <1>2, GiveUpEffect DEF GiveUpLease
  <2>2. HoldsOwn(o)'
    BY <1>0, <2>1, OwnLeasesStand DEF HoldsOwn, OwnerOK
  <2>3. StepOK(o)'
    BY <1>0, <1>2, <2>1 DEF StepOK, OwnerOK
  <2>4. CurrentOK(o)' /\ RenewalOK(o)'
    BY <1>0, <2>1 DEF CurrentOK, RenewalOK, OwnerOK, Alike, Admitted, Running, Checking
  <2>5. QED
    BY <2>2, <2>3, <2>4 DEF OwnerOK
<1>3. QED
  BY <1>1, <1>2

LEMMA ReleaseAllShape ==
  ASSUME ShapeInv, NEW o \in Owners, ReleaseAll(o)
  PROVE  OwnerOK(o)'
<1>1. TypeOK
  BY DEF ShapeInv
<1>2. survey'[o] = NoSurvey
  BY <1>1 DEF ReleaseAll, TypeOK
<1>3. QED
  BY <1>1, <1>2, ReleaseAllEffect
     DEF OwnerOK, HoldsOwn, StepOK, CurrentOK, RenewalOK, Admitted, Running, Checking

(* A survey is read, or judged.                                            *)
LEMMA SurveyShape ==
  ASSUME ShapeInv, NEW o \in Owners, Survey(o)
  PROVE  OwnerOK(o)'
BY DEF ShapeInv, Survey, OwnerOK, HoldsOwn, OwnLease, Dated, StepOK, CurrentOK, RenewalOK, Alike,
       Admitted, Running, Checking

LEMMA ProceedShape ==
  ASSUME ShapeInv, NEW o \in Owners, Proceed(o)
  PROVE  OwnerOK(o)'
<1> TypeOK /\ OwnerOK(o)
  BY DEF ShapeInv
<1>0. clock' = clock /\ leases' = leases /\ survey[o] # NoSurvey
  BY DEF Proceed
<1>1. /\ \/ owner[o].step = "checking" /\ owner'[o].step = "working"
         \/ owner[o].step = "marked" /\ owner'[o].step = "batch"
      /\ owner'[o].mode = owner[o].mode /\ owner'[o].primary = owner[o].primary
      /\ owner'[o].marker = owner[o].marker /\ owner'[o].making = owner[o].making
      /\ owner'[o].held = owner[o].held /\ owner'[o].deleting = owner[o].deleting
  BY ProceedEffect
<1>2. HoldsOwn(o)'
  BY <1>0, <1>1, OwnLeasesStand DEF HoldsOwn, OwnerOK
<1>3. CurrentOK(o)' /\ RenewalOK(o)'
  BY <1>0, <1>1 DEF CurrentOK, RenewalOK, OwnerOK, Alike, Admitted, Running, Checking
<1>4. StepOK(o)'
  <2>1. survey'[o] = NoSurvey
    BY DEF Proceed, TypeOK
  <2>2. QED
    BY <1>1, <2>1 DEF StepOK, OwnerOK
<1>5. QED
  BY <1>2, <1>3, <1>4 DEF OwnerOK
(* A renewal continues a lease of the same kind, while that is still good.  *)
LEMMA RenewFacts ==
  ASSUME ShapeInv, NEW o \in Owners, Renew(o)
  PROVE  \E previous \in {owner[o].primary, owner[o].marker} \ {NoLease} :
           /\ previous \in Lease
           /\ BeginLease(o, previous.kind, owner[o])
           /\ Running(o) /\ owner[o].making = NoLease
           /\ owner[o].primary.epoch = clock[Host[o]].epoch
           /\ time < owner[o].primary.issued + LEASE_TTL - SAFETY_MARGIN
           /\ previous.issued <= time
<1> TypeOK
  BY DEF ShapeInv
<1>1. PICK previous \in Holding(o, TRUE) :
        time - previous.issued >= RENEW_AFTER /\ BeginLease(o, previous.kind, owner[o])
  BY DEF Renew
<1>2. Running(o) /\ owner[o].making = NoLease /\ check_control(o, FALSE)
  BY DEF Renew
<1>3. owner[o].primary \in Holding(o, FALSE)
  BY DEF Holding
<1>4. /\ owner[o].primary.epoch = clock[Host[o]].epoch
      /\ LEASE_TTL - (time - owner[o].primary.issued) > SAFETY_MARGIN
  BY <1>2, <1>3 DEF check_control, Remaining
<1>5. previous \in {owner[o].primary, owner[o].marker}
  BY DEF Holding
<1>6. previous \in Lease /\ owner[o].primary \in Lease
  BY <1>2, CurrentFacts DEF Holding, Admitted
<1>7. time \in Nat /\ previous.issued \in Nat /\ owner[o].primary.issued \in Nat
  BY <1>6, LeaseFields DEF TypeOK
<1>8. time < owner[o].primary.issued + LEASE_TTL - SAFETY_MARGIN /\ previous.issued <= time
  BY <1>1, <1>4, <1>7, ClockAssumption
<1>9. QED
  BY <1>1, <1>2, <1>4, <1>5, <1>6, <1>8, NoneAssumption

LEMMA RenewShape ==
  ASSUME ShapeInv, NEW o \in Owners, Renew(o)
  PROVE  OwnerOK(o)'
<1> TypeOK /\ OwnerOK(o) /\ owner[o] \in OwnerState
  BY DEF ShapeInv, TypeOK
<1>0. clock' = clock /\ survey' = survey /\ leases' = leases
  BY DEF Renew
<1>1. PICK previous \in {owner[o].primary, owner[o].marker} \ {NoLease} :
           /\ previous \in Lease
           /\ BeginLease(o, previous.kind, owner[o])
           /\ Running(o) /\ owner[o].making = NoLease
           /\ owner[o].primary.epoch = clock[Host[o]].epoch
           /\ time < owner[o].primary.issued + LEASE_TTL - SAFETY_MARGIN
           /\ previous.issued <= time
  BY RenewFacts
<1> DEFINE l == NewLease(o, previous.kind)
<1>2. previous.kind \in Kinds
  BY <1>1, LeaseFields
<1>3. /\ l.kind = previous.kind /\ l.issued = time /\ l # NoLease
  BY <1>2, NewLeaseFacts
<1>4. OwnLease(o, l) /\ Alike(l, owner[o].primary)
  BY <1>1, <1>2, NewLeaseOwn DEF Admitted
<1> HIDE DEF l
<1>5. /\ owner'[o].making = l
      /\ owner'[o].step = owner[o].step /\ owner'[o].mode = owner[o].mode
      /\ owner'[o].primary = owner[o].primary /\ owner'[o].marker = owner[o].marker
      /\ owner'[o].held = owner[o].held /\ owner'[o].deleting = owner[o].deleting
  BY <1>1, <1>2, BeginEffect DEF l
<1>6. /\ owner[o].primary.kind = wire_kind(owner[o].mode)
      /\ owner[o].primary.kind # "Deleting"
      /\ owner[o].marker # NoLease <=> owner[o].step \in {"marked", "batch"}
      /\ owner[o].marker # NoLease => owner[o].marker.kind = "Deleting"
  BY <1>1, KindFacts, OwnerFields DEF OwnerOK, CurrentOK, Admitted
<1>7. HoldsOwn(o)'
  BY <1>0, <1>4, <1>5, OwnLeasesStand DEF HoldsOwn, OwnerOK
<1>8. StepOK(o)'
  BY <1>0, <1>1, <1>3, <1>5, <1>6 DEF StepOK, OwnerOK, Running
<1>9. CurrentOK(o)'
  BY <1>0, <1>5 DEF CurrentOK, OwnerOK, Alike, Admitted, Running, Checking
<1>10. RenewalOK(o)'
  BY <1>1, <1>3, <1>4, <1>5, <1>6 DEF RenewalOK, Alike
<1>11. QED
  BY <1>7, <1>8, <1>9, <1>10 DEF OwnerOK

LEMMA ReleaseOldShape ==
  ASSUME ShapeInv, NEW o \in Owners, ReleaseOld(o)
  PROVE  OwnerOK(o)'
<1> TypeOK /\ OwnerOK(o)
  BY DEF ShapeInv
<1>0. /\ clock' = clock /\ survey' = survey
      /\ {owner[o].primary, owner[o].marker} \cap leases \subseteq leases'
  BY DEF ReleaseOld, Outdated
<1>1. /\ owner'[o].held \subseteq owner[o].held
      /\ owner'[o].held \cap {owner[o].primary, owner[o].marker} =
           owner[o].held \cap {owner[o].primary, owner[o].marker}
      /\ owner'[o].step = owner[o].step /\ owner'[o].mode = owner[o].mode
      /\ owner'[o].primary = owner[o].primary /\ owner'[o].marker = owner[o].marker
      /\ owner'[o].making = owner[o].making /\ owner'[o].deleting = owner[o].deleting
  BY ReleaseOldEffect
<1>2. HoldsOwn(o)'
  BY <1>0, <1>1, OwnLeasesStand DEF HoldsOwn, OwnerOK
<1>3. StepOK(o)'
  BY <1>0, <1>1 DEF StepOK, OwnerOK
<1>4. CurrentOK(o)'
  BY <1>0, <1>1 DEF CurrentOK, OwnerOK, Alike, Admitted, Running, Checking
<1>5. RenewalOK(o)'
  BY <1>1 DEF RenewalOK, OwnerOK, Alike, Admitted, Running, Checking
<1>6. QED
  BY <1>2, <1>3, <1>4, <1>5 DEF OwnerOK

LEMMA PlaceMarkerShape ==
  ASSUME ShapeInv, NEW o \in Owners, PlaceMarker(o)
  PROVE  OwnerOK(o)'
<1> TypeOK /\ OwnerOK(o) /\ owner[o] \in OwnerState
  BY DEF ShapeInv, TypeOK
<1>0. /\ clock' = clock /\ survey' = survey /\ leases' = leases
      /\ owner[o].step = "working" /\ owner[o].mode = "cleanup"
  BY DEF PlaceMarker
<1> DEFINE base == [owner[o] EXCEPT !.step = "marking"]
           l == NewLease(o, "Deleting")
<1>1. /\ base \in OwnerState /\ base.step = "marking" /\ base.mode = owner[o].mode
      /\ base.primary = owner[o].primary /\ base.marker = owner[o].marker
      /\ base.held = owner[o].held /\ base.deleting = owner[o].deleting
  BY DEF OwnerState
<1>2. BeginLease(o, "Deleting", base) /\ "Deleting" \in Kinds
  BY DEF PlaceMarker, Kinds
<1>3. owner[o].primary.epoch = clock[Host[o]].epoch
  BY DEF PlaceMarker, current_limit, check_control, Holding
<1>4. Admitted(o)
  BY <1>0 DEF Admitted, Running
<1>5. l.kind = "Deleting" /\ l # NoLease /\ OwnLease(o, l) /\ Alike(l, owner[o].primary)
  BY <1>2, <1>3, <1>4, NewLeaseOwn, NewLeaseFacts
<1> HIDE DEF l, base
<1>6. /\ owner'[o].making = l
      /\ owner'[o].step = "marking" /\ owner'[o].mode = owner[o].mode
      /\ owner'[o].primary = owner[o].primary /\ owner'[o].marker = owner[o].marker
      /\ owner'[o].held = owner[o].held /\ owner'[o].deleting = owner[o].deleting
  BY <1>1, <1>2, BeginEffect DEF l
<1>7. owner[o].marker = NoLease
  BY <1>0, <1>4 DEF OwnerOK, CurrentOK
<1>8. HoldsOwn(o)'
  BY <1>0, <1>5, <1>6, OwnLeasesStand DEF HoldsOwn, OwnerOK
<1>9. StepOK(o)'
  BY <1>0, <1>5, <1>6, <1>7 DEF StepOK, OwnerOK
<1>10. CurrentOK(o)'
  BY <1>0, <1>4, <1>6, <1>7 DEF CurrentOK, OwnerOK, Alike
<1>11. RenewalOK(o)'
  BY <1>5, <1>6, <1>7 DEF RenewalOK, Alike
<1>12. QED
  BY <1>8, <1>9, <1>10, <1>11 DEF OwnerOK

LEMMA DispatchShape ==
  ASSUME ShapeInv, NEW o \in Owners, Dispatch(o)
  PROVE  OwnerOK(o)'
<1> TypeOK /\ OwnerOK(o)
  BY DEF ShapeInv
<1>0. clock' = clock /\ survey' = survey /\ leases' = leases /\ owner[o].step = "batch"
  BY DEF Dispatch
<1>1. /\ owner'[o].step = owner[o].step /\ owner'[o].mode = owner[o].mode
      /\ owner'[o].primary = owner[o].primary /\ owner'[o].marker = owner[o].marker
      /\ owner'[o].making = owner[o].making /\ owner'[o].held = owner[o].held
  BY DispatchEffect
<1>2. HoldsOwn(o)'
  BY <1>0, <1>1, OwnLeasesStand DEF HoldsOwn, OwnerOK
<1>3. StepOK(o)'
  BY <1>0, <1>1 DEF StepOK, OwnerOK
<1>4. CurrentOK(o)' /\ RenewalOK(o)'
  BY <1>0, <1>1 DEF CurrentOK, RenewalOK, OwnerOK, Alike, Admitted, Running, Checking
<1>5. QED
  BY <1>2, <1>3, <1>4 DEF OwnerOK

LEMMA DeletedShape ==
  ASSUME ShapeInv, NEW o \in Owners, Deleted(o)
  PROVE  OwnerOK(o)'
<1> TypeOK /\ OwnerOK(o)
  BY DEF ShapeInv
<1>0. clock' = clock /\ survey' = survey /\ leases' = leases /\ owner[o].step = "batch"
  BY DEF Deleted
<1>1. /\ owner'[o].step \in {"batch", "marked"} /\ owner'[o].mode = owner[o].mode
      /\ owner'[o].primary = owner[o].primary /\ owner'[o].marker = owner[o].marker
      /\ owner'[o].making = owner[o].making /\ owner'[o].held = owner[o].held
      /\ owner'[o].deleting = FALSE
  BY DeletedEffect
<1>2. HoldsOwn(o)'
  BY <1>0, <1>1, OwnLeasesStand DEF HoldsOwn, OwnerOK
<1>3. StepOK(o)'
  BY <1>0, <1>1 DEF StepOK, OwnerOK
<1>4. CurrentOK(o)' /\ RenewalOK(o)'
  BY <1>0, <1>1 DEF CurrentOK, RenewalOK, OwnerOK, Alike, Admitted, Running, Checking
<1>5. QED
  BY <1>2, <1>3, <1>4 DEF OwnerOK
------------------------------------------------------------------------------
(* The shape is invariant.                                                 *)

(* The actions of one job.                                                 *)
Acts(o) ==
    \/ Admit(o) \/ Confirm(o) \/ GiveUpLease(o) \/ Survey(o) \/ Proceed(o)
    \/ ReleaseAll(o) \/ Renew(o) \/ ReleaseOld(o)
    \/ PlaceMarker(o) \/ Dispatch(o) \/ Deleted(o)

LEMMA ActsShape ==
  ASSUME ShapeInv, NEW o \in Owners, Acts(o)
  PROVE  OwnerOK(o)'
BY AdmitShape, ConfirmShape, GiveUpShape, SurveyShape, ProceedShape, ReleaseAllShape, RenewShape,
   ReleaseOldShape, PlaceMarkerShape, DispatchShape, DeletedShape DEF Acts

(* They leave the clocks, the other jobs and their surveys alone.          *)
LEMMA ActsFrame ==
  ASSUME ShapeInv, NEW o \in Owners, Acts(o)
  PROVE  /\ UNCHANGED <<time, clock>>
         /\ \A q \in Owners \ {o} : owner'[q] = owner[q] /\ survey'[q] = survey[q]
         /\ \A d \in Devices : abandoned'[d] \in {abandoned[d], {}}
         /\ \A q \in Owners \ {o} : Admitted(q) =>
              \A l \in {owner[q].primary, owner[q].marker} : l \in leases => l \in leases'
         /\ \A l \in (leases' \cup uploads') \ (leases \cup uploads) :
              \E kind \in Kinds : l = NewLease(o, kind)
<1> TypeOK
  BY DEF ShapeInv
<1>1. UNCHANGED <<time, clock>>
  BY DEF Acts, Admit, Confirm, GiveUpLease, Survey, Proceed, ReleaseAll, Renew, ReleaseOld,
         PlaceMarker, Dispatch, Deleted
<1>2. \A q \in Owners \ {o} : survey'[q] = survey[q]
  BY DEF Acts, Admit, Confirm, GiveUpLease, Survey, Proceed, ReleaseAll, Renew, ReleaseOld,
         PlaceMarker, Dispatch, Deleted, TypeOK
<1>3. \A d \in Devices : abandoned'[d] \in {abandoned[d], {}}
  BY DEF Acts, Admit, Confirm, GiveUpLease, Survey, Proceed, ReleaseAll, Renew, ReleaseOld,
         PlaceMarker, Dispatch, Deleted, TypeOK
<1>4. \A q \in Owners \ {o} : owner'[q] = owner[q]
  BY DEF Acts, Admit, BeginLease, Confirm, GiveUpLease, Survey, Proceed, ReleaseAll, Renew,
         ReleaseOld, PlaceMarker, Dispatch, Deleted, TypeOK
<1>5. ASSUME NEW q \in Owners \ {o}, Admitted(q)
      PROVE  \A l \in {owner[q].primary, owner[q].marker} : l \in leases => l \in leases'
  <2>1. CASE ReleaseAll(o) \/ ReleaseOld(o) \/ Admit(o)
    BY <1>5, <2>1, ForeignLeasesStay
  <2>2. CASE leases' = leases
    BY <2>2
  <2>3. QED
    BY <2>1, <2>2 DEF Acts, Confirm, GiveUpLease, Survey, Proceed, Renew, PlaceMarker, Dispatch,
                      Deleted
<1>6. ASSUME NEW l \in (leases' \cup uploads') \ (leases \cup uploads)
      PROVE  \E kind \in Kinds : l = NewLease(o, kind)
  <2>1. CASE Admit(o)
    <3>1. wire_kind(owner[o].mode) \in Kinds
      BY KindFacts, OwnerFields
    <3>2. l = NewLease(o, wire_kind(owner[o].mode))
      BY <1>6, <2>1 DEF Admit, BeginLease
    <3>3. QED
      BY <3>1, <3>2
  <2>2. CASE Renew(o)
    <3>1. PICK previous \in Lease : BeginLease(o, previous.kind, owner[o])
      BY <2>2, RenewFacts
    <3>2. previous.kind \in Kinds
      BY LeaseFields
    <3>3. l = NewLease(o, previous.kind)
      BY <1>6, <2>2, <3>1 DEF Renew, BeginLease
    <3>4. QED
      BY <3>2, <3>3
  <2>3. CASE PlaceMarker(o)
    <3>1. l = NewLease(o, "Deleting")
      BY <1>6, <2>3 DEF PlaceMarker, BeginLease
    <3>2. QED
      BY <3>1 DEF Kinds
  <2>4. CASE leases' \subseteq leases /\ uploads' = uploads
    BY <1>6, <2>4
  <2>5. QED
    BY <2>1, <2>2, <2>3, <2>4 DEF Acts, Confirm, GiveUpLease, Survey, Proceed, ReleaseAll,
                                  ReleaseOld, Dispatch, Deleted
<1>7. QED
  BY <1>1, <1>2, <1>3, <1>4, <1>5, <1>6

(* Every step is of a job, of a device, or of the storage.                 *)
LEMMA Steps ==
  ASSUME [Next]_vars
  PROVE  \/ \E o \in Owners : Acts(o)
         \/ \E d \in Devices : Restart(d)
         \/ /\ UNCHANGED <<owner, survey, abandoned>>
            /\ leases \subseteq leases' /\ leases' \cup uploads' = leases \cup uploads
            /\ deletes' \subseteq deletes
BY DEF Next, vars, Acts, Yield, Close, Tick, Observe, ClockBreaks, Land, DeleteLands

LEMMA ShapeStep ==
  ASSUME ShapeInv, [Next]_vars
  PROVE  ShapeInv'
<1> TypeOK
  BY DEF ShapeInv
<1>1. TypeOK'
  BY TypeStep
<1>2. /\ clock' \in [Devices -> ClockState]
      /\ \A d \in Devices : ClockOK(d)' /\ MovesOn(d)
  BY ClockStep DEF ShapeInv
<1>3. \A l \in Lease : Dated(l) => Dated(l)'
  <2> SUFFICES ASSUME NEW l \in Lease, Dated(l)
               PROVE  Dated(l)'
    OBVIOUS
  <2>1. Host[l.owner] \in Devices /\ l.epoch \in Nat
    BY HostAssumption, LeaseFields
  <2>2. clock[Host[l.owner]].epoch \in Nat /\ clock'[Host[l.owner]].epoch \in Nat
    BY <1>2, <2>1 DEF TypeOK, ClockState
  <2>3. QED
    BY <1>2, <2>1, <2>2 DEF Dated, MovesOn
<1>4. ASSUME NEW o \in Owners, Acts(o)
      PROVE  ShapeInv'
  <2>1. \A d \in Devices : AbandonedOK(d)'
    BY <1>4, ActsFrame DEF ShapeInv, AbandonedOK
  <2>2. \A l \in leases' \cup uploads' : Dated(l)'
    <3> SUFFICES ASSUME NEW l \in leases' \cup uploads'
                 PROVE  Dated(l)'
      OBVIOUS
    <3>1. CASE l \in leases \cup uploads
      BY <1>3, <3>1 DEF ShapeInv, TypeOK
    <3>2. CASE l \notin leases \cup uploads
      <4>1. clock' = clock /\ \E kind \in Kinds : l = NewLease(o, kind)
        BY <1>4, <3>2, ActsFrame
      <4>2. Dated(l)
        BY <4>1, NewLeaseOwn
      <4>3. QED
        BY <4>1, <4>2 DEF Dated
    <3>3. QED
      BY <3>1, <3>2
  <2>3. OwnerOK(o)'
    BY <1>4, ActsShape
  <2>4. ASSUME NEW q \in Owners \ {o}
        PROVE  OwnerOK(q)'
    <3>1. /\ clock' = clock
          /\ owner'[q] = owner[q] /\ survey'[q] = survey[q]
          /\ Admitted(q) =>
               \A l \in {owner[q].primary, owner[q].marker} : l \in leases => l \in leases'
      BY <1>4, ActsFrame
    <3>2. Host[q] \in Devices /\ OwnerOK(q)
      BY HostAssumption DEF ShapeInv
    <3>3. QED
      BY <1>2, <3>1, <3>2, OwnerFrame
  <2>5. QED
    BY <1>1, <1>2, <2>1, <2>2, <2>3, <2>4 DEF ShapeInv
<1>5. ASSUME NEW d \in Devices, Restart(d)
      PROVE  ShapeInv'
  <2>1. /\ \A c \in Devices \ {d} : clock'[c] = clock[c]
        /\ clock'[d].epoch = clock[d].epoch + 1 /\ clock'[d].process = clock[d].epoch + 1
        /\ \A o \in Owners : Host[o] = d =>
              /\ owner'[o].step = "idle" /\ owner'[o].marker = NoLease
              /\ owner'[o].making = NoLease /\ owner'[o].held = {}
              /\ owner'[o].deleting = FALSE
              /\ survey'[o] = NoSurvey
        /\ \A o \in Owners : Host[o] # d => owner'[o] = owner[o] /\ survey'[o] = survey[o]
    BY <1>5, RestartEffect
  <2>2. leases' = leases /\ uploads' = uploads
    BY <1>5 DEF Restart
  <2>3. \A l \in leases' \cup uploads' : Dated(l)'
    BY <1>3, <2>2 DEF ShapeInv, TypeOK
  <2>4. ASSUME NEW c \in Devices, NEW l \in abandoned'[c]
        PROVE  Host[l.owner] = c /\ l.epoch < clock'[c].process
    <3>1. \/ l \in abandoned[c]
          \/ c = d /\ l \in leases \cup uploads /\ Host[l.owner] = d
      BY <1>5, <2>4 DEF Restart, TypeOK
    <3>2. /\ l.epoch \in Nat /\ clock[c].process \in Nat /\ clock[c].epoch \in Nat
          /\ clock[c].process <= clock[c].epoch
      BY <3>1, LeaseFields DEF ShapeInv, TypeOK, ClockState, ClockOK
    <3>3. CASE l \in abandoned[c]
      BY <2>1, <3>2, <3>3 DEF ShapeInv, AbandonedOK
    <3>4. CASE c = d /\ l \in leases \cup uploads /\ Host[l.owner] = d
      BY <2>1, <3>2, <3>4 DEF ShapeInv, Dated
    <3>5. QED
      BY <3>1, <3>3, <3>4
  <2>5. ASSUME NEW o \in Owners, Host[o] = d
        PROVE  OwnerOK(o)'
    BY <2>1, <2>5 DEF OwnerOK, HoldsOwn, StepOK, CurrentOK, RenewalOK, Admitted, Running, Checking
  <2>6. ASSUME NEW o \in Owners, Host[o] # d
        PROVE  OwnerOK(o)'
    <3>1. Host[o] \in Devices /\ OwnerOK(o)
      BY HostAssumption DEF ShapeInv
    <3>2. /\ clock'[Host[o]].process = clock[Host[o]].process
          /\ owner'[o] = owner[o] /\ survey'[o] = survey[o]
      BY <2>1, <2>6, <3>1
    <3>3. QED
      BY <1>2, <2>2, <3>1, <3>2, OwnerFrame
  <2>7. QED
    BY <1>1, <1>2, <2>3, <2>4, <2>5, <2>6 DEF ShapeInv, AbandonedOK
<1>6. ASSUME UNCHANGED <<owner, survey, abandoned>>,
             leases \subseteq leases', leases' \cup uploads' = leases \cup uploads,
             \A d \in Devices : ~Restart(d)
      PROVE  ShapeInv'
  <2>1. \A d \in Devices : clock'[d].process = clock[d].process
    BY <1>6, ClockStep
  <2>2. \A d \in Devices : AbandonedOK(d)'
    BY <1>6, <2>1 DEF ShapeInv, AbandonedOK
  <2>3. \A l \in leases' \cup uploads' : Dated(l)'
    BY <1>3, <1>6 DEF ShapeInv, TypeOK
  <2>4. ASSUME NEW o \in Owners
        PROVE  OwnerOK(o)'
    <3>1. Host[o] \in Devices /\ OwnerOK(o)
      BY HostAssumption DEF ShapeInv
    <3>2. QED
      BY <1>2, <1>6, <2>1, <3>1, OwnerFrame
  <2>5. QED
    BY <1>1, <1>2, <2>2, <2>3, <2>4 DEF ShapeInv
<1>7. QED
  BY <1>4, <1>5, <1>6, Steps

LEMMA ShapeInit ==
  ASSUME Init
  PROVE  ShapeInv
<1>1. PICK mix \in JobMixes : owner = [o \in Owners |-> NoOwner("idle", mix[o])]
  BY DEF Init
<1>2. mix \in [Owners -> Modes]
  BY JobsAssumption
<1>3. TypeOK
  <2>1. owner \in [Owners -> OwnerState]
    BY <1>1, <1>2 DEF NoOwner, OwnerState
  <2>2. clock \in [Devices -> ClockState]
    BY ClockAssumption DEF Init, ClockState
  <2>3. QED
    BY <2>1, <2>2 DEF Init, TypeOK
<1>4. \A d \in Devices : ClockOK(d) /\ AbandonedOK(d)
  BY DEF Init, ClockOK, AbandonedOK
<1>5. \A o \in Owners : OwnerOK(o)
  BY <1>1 DEF Init, NoOwner, OwnerOK, HoldsOwn, StepOK, CurrentOK, RenewalOK, Admitted, Running,
              Checking
<1>6. QED
  BY <1>3, <1>4, <1>5 DEF Init, ShapeInv
------------------------------------------------------------------------------
(* Two jobs that have listed the leases: one of them has seen the other,   *)
(* unless the other can no longer be at work.                              *)

Surveyed(o) == Running(o) \/ (Checking(o) /\ survey[o] # NoSurvey)

(* An owner that will never pass check_control again, or whose lease was   *)
(* written by a clock beyond the allowed error: its lease runs out, and    *)
(* what it has sent to renew it comes too late to be confirmed.            *)
Dead(o) ==
    \/ ~WithinError(owner[o].primary.offset)
    \/ owner[o].primary.epoch # clock[Host[o]].epoch
    \/ /\ owner[o].primary.issued + LEASE_TTL <= time + SAFETY_MARGIN
       /\ \/ owner[o].making = NoLease
          \/ owner[o].making.kind = "Deleting"
          \/ owner[o].making.issued + REQUEST_LIMIT < time

(* The survey p judges lists a lease of o that p cannot ignore in time.    *)
Sees(p, o) ==
    /\ Checking(p)
    /\ \E l \in survey[p].found :
         /\ l.owner = o
         /\ l.kind = wire_kind(owner[o].mode)
         /\ l.offset = owner[o].primary.offset
         /\ survey[p].at + REQUEST_LIMIT < l.issued + LEASE_TTL

PairOK(p, o) ==
    \/ Sees(p, o) \/ Sees(o, p)
    \/ Dead(p) \/ Dead(o)
    \/ Compatible(owner[p].mode, owner[o].mode)

PairInv == \A p, o \in Owners : p # o /\ Surveyed(p) /\ Surveyed(o) => PairOK(p, o)

(* What may become of the current lease of a surveyed owner, and of its    *)
(* survey.                                                                 *)
LEMMA SurveyedOwner ==
  ASSUME ShapeInv, [Next]_vars, NEW o \in Owners, Surveyed(o), Surveyed(o)'
  PROVE  /\ owner'[o].mode = owner[o].mode
         /\ owner'[o].primary.offset = owner[o].primary.offset
         /\ \/ /\ owner'[o].primary = owner[o].primary
               /\ \/ owner'[o].making \in {owner[o].making, NoLease}
                  \/ owner'[o].making.kind = "Deleting"
                  \/ Renew(o)
            \/ /\ Confirm(o) /\ owner[o].making.kind # "Deleting"
               /\ owner'[o].primary = owner[o].making
         /\ Checking(o)' => Checking(o) /\ survey'[o] = survey[o]
         /\ Checking(o) /\ ~Checking(o)' => Proceed(o)
<1> TypeOK /\ OwnerOK(o) /\ owner[o] \in OwnerState
  BY DEF ShapeInv, TypeOK
<1> DEFINE Goal ==
         /\ owner'[o].mode = owner[o].mode
         /\ owner'[o].primary.offset = owner[o].primary.offset
         /\ \/ /\ owner'[o].primary = owner[o].primary
               /\ \/ owner'[o].making \in {owner[o].making, NoLease}
                  \/ owner'[o].making.kind = "Deleting"
                  \/ Renew(o)
            \/ /\ Confirm(o) /\ owner[o].making.kind # "Deleting"
               /\ owner'[o].primary = owner[o].making
         /\ Checking(o)' => Checking(o) /\ survey'[o] = survey[o]
         /\ Checking(o) /\ ~Checking(o)' => Proceed(o)
<1>1. CASE owner'[o] = owner[o] /\ survey'[o] = survey[o]
  BY <1>1 DEF Checking
<1>2. ASSUME NEW q \in Owners \ {o}, Acts(q)
      PROVE  Goal
  BY <1>1, <1>2, ActsFrame
<1>3. ASSUME NEW d \in Devices, Restart(d)
      PROVE  Goal
  <2>1. CASE Host[o] = d
    BY <1>3, <2>1, RestartEffect DEF Surveyed, Running, Checking
  <2>2. QED
    BY <1>1, <1>3, <2>1, RestartEffect
<1>4. CASE Admit(o)
  BY <1>4 DEF Admit, Idle, Surveyed, Running, Checking
<1>5. CASE Confirm(o)
  <2>1. survey' = survey
    BY <1>5 DEF Confirm
  <2>2. Admitted(o) /\ owner[o].making # NoLease
    BY <1>5 DEF Confirm, Surveyed, Admitted
  <2>3. Running(o)
    BY <2>2 DEF Admitted, Checking, OwnerOK, StepOK
  <2>4. CASE owner[o].making.kind = "Deleting"
    <3>1. /\ owner'[o].making = NoLease
          /\ owner'[o].step = IF owner[o].step = "marking" THEN "marked" ELSE owner[o].step
          /\ owner'[o].mode = owner[o].mode /\ owner'[o].primary = owner[o].primary
      BY <1>5, <2>4, ConfirmMarkerEffect
    <3>2. ~Checking(o)' /\ ~Checking(o)
      BY <2>3, <3>1 DEF Checking, Running
    <3>3. QED
      BY <3>1, <3>2
  <2>5. CASE owner[o].making.kind # "Deleting"
    <3>1. /\ owner'[o].making = NoLease /\ owner'[o].primary = owner[o].making
          /\ owner'[o].step = IF owner[o].step = "creating" THEN "checking" ELSE owner[o].step
          /\ owner'[o].mode = owner[o].mode
      BY <1>5, <2>5, ConfirmPrimaryEffect
    <3>2. ~Checking(o)' /\ ~Checking(o)
      BY <2>3, <3>1 DEF Checking, Running
    <3>3. owner[o].making.offset = owner[o].primary.offset
      BY <2>2 DEF OwnerOK, RenewalOK, Alike
    <3>4. QED
      BY <1>5, <2>5, <3>1, <3>2, <3>3
  <2>6. QED
    BY <2>4, <2>5
<1>6. CASE GiveUpLease(o)
  <2>1. owner[o].step # "creating" /\ survey' = survey
    BY <1>6 DEF Surveyed, Running, Checking, GiveUpLease
  <2>2. /\ owner'[o].making = NoLease
        /\ owner'[o].step = owner[o].step /\ owner'[o].mode = owner[o].mode
        /\ owner'[o].primary = owner[o].primary
    BY <1>6, <2>1, GiveUpEffect
  <2>3. QED
    BY <2>1, <2>2 DEF Checking
<1>7. CASE Survey(o)
  <2>1. owner' = owner /\ survey[o] = NoSurvey
    BY <1>7 DEF Survey
  <2>2. ~Checking(o) /\ ~Checking(o)'
    BY <2>1 DEF Surveyed, Running, Checking
  <2>3. QED
    BY <2>1, <2>2
<1>8. CASE Proceed(o)
  <2>1. /\ owner'[o].step \in {"working", "batch"}
        /\ owner'[o].mode = owner[o].mode /\ owner'[o].primary = owner[o].primary
        /\ owner'[o].making = owner[o].making
    BY <1>8, ProceedEffect
  <2>2. QED
    BY <1>8, <2>1 DEF Checking
<1>9. CASE ReleaseAll(o)
  BY <1>9, ReleaseAllEffect DEF Surveyed, Running, Checking
<1>10. CASE Renew(o)
  <2>1. PICK previous \in Lease : BeginLease(o, previous.kind, owner[o]) /\ Running(o)
    BY <1>10, RenewFacts
  <2>2. previous.kind \in Kinds
    BY LeaseFields
  <2>3. /\ owner'[o].step = owner[o].step /\ owner'[o].mode = owner[o].mode
        /\ owner'[o].primary = owner[o].primary
    BY <2>1, <2>2, BeginEffect
  <2>4. QED
    BY <1>10, <2>1, <2>3 DEF Checking, Running
<1>11. CASE ReleaseOld(o)
  <2>1. /\ owner'[o].step = owner[o].step /\ owner'[o].mode = owner[o].mode
        /\ owner'[o].primary = owner[o].primary /\ owner'[o].making = owner[o].making
        /\ survey' = survey
    BY <1>11, ReleaseOldEffect DEF ReleaseOld
  <2>2. QED
    BY <2>1 DEF Checking
<1>12. CASE PlaceMarker(o)
  <2> DEFINE base == [owner[o] EXCEPT !.step = "marking"]
  <2>1. /\ base \in OwnerState /\ base.step = "marking" /\ base.mode = owner[o].mode
        /\ base.primary = owner[o].primary
    BY DEF OwnerState
  <2>2. BeginLease(o, "Deleting", base) /\ "Deleting" \in Kinds /\ owner[o].step = "working"
    BY <1>12 DEF PlaceMarker, Kinds
  <2> HIDE DEF base
  <2>3. /\ owner'[o].making.kind = "Deleting" /\ owner'[o].step = "marking"
        /\ owner'[o].mode = owner[o].mode /\ owner'[o].primary = owner[o].primary
    BY <2>1, <2>2, BeginEffect, NewLeaseFacts
  <2>4. QED
    BY <2>2, <2>3 DEF Checking
<1>13. CASE Dispatch(o)
  <2>1. /\ owner'[o].step = owner[o].step /\ owner'[o].mode = owner[o].mode
        /\ owner'[o].primary = owner[o].primary /\ owner'[o].making = owner[o].making
        /\ survey' = survey
    BY <1>13, DispatchEffect DEF Dispatch
  <2>2. QED
    BY <2>1 DEF Checking
<1>14. CASE Deleted(o)
  <2>1. /\ owner'[o].step \in {"batch", "marked"} /\ owner[o].step = "batch"
        /\ owner'[o].mode = owner[o].mode
        /\ owner'[o].primary = owner[o].primary /\ owner'[o].making = owner[o].making
    BY <1>14, DeletedEffect DEF Deleted
  <2>2. QED
    BY <2>1 DEF Checking
<1>15. CASE Acts(o)
  BY <1>4, <1>5, <1>6, <1>7, <1>8, <1>9, <1>10, <1>11, <1>12, <1>13, <1>14, <1>15 DEF Acts
<1>16. QED
  BY <1>1, <1>2, <1>3, <1>15, Steps
(* Nobody comes back to life: a clock that broke has another epoch for     *)
(* ever, and a renewal is confirmed in time or not at all.                 *)
LEMMA DeadStays ==
  ASSUME ShapeInv, [Next]_vars, NEW o \in Owners, Surveyed(o), Surveyed(o)', Dead(o)
  PROVE  Dead(o)'
<1> TypeOK /\ OwnerOK(o) /\ Admitted(o)
  BY DEF ShapeInv, Surveyed, Admitted
<1>1. /\ Host[o] \in Devices
      /\ time \in Nat /\ time' \in Nat /\ time <= time'
      /\ clock[Host[o]].epoch \in Nat /\ clock'[Host[o]].epoch \in Nat
      /\ clock[Host[o]].epoch <= clock'[Host[o]].epoch
  <2>1. Host[o] \in Devices
    BY HostAssumption
  <2>2. clock' \in [Devices -> ClockState] /\ time' \in Nat /\ time <= time' /\ MovesOn(Host[o])
    BY <2>1, ClockStep DEF ShapeInv
  <2>3. QED
    BY <2>1, <2>2 DEF TypeOK, ClockState, MovesOn
<1>2. /\ owner[o].primary \in Lease /\ owner[o].primary.owner = o
      /\ owner[o].primary.epoch <= clock[Host[o]].epoch
  BY CurrentFacts DEF OwnLease, Dated
<1>3. /\ owner[o].primary.epoch \in Nat /\ owner[o].primary.issued \in Nat
      /\ owner[o].making # NoLease => owner[o].making.issued \in Nat
  BY <1>2, OwnerFields, LeaseFields
<1>4. owner'[o].primary.offset = owner[o].primary.offset
  BY SurveyedOwner
<1>5. CASE ~WithinError(owner[o].primary.offset)
  BY <1>4, <1>5 DEF Dead
<1>6. CASE Confirm(o) /\ owner[o].making.kind # "Deleting"
  <2>1. owner[o].primary.epoch = clock[Host[o]].epoch
    BY <1>6 DEF Confirm, OwnerOK, RenewalOK, Alike
  <2>2. owner[o].making # NoLease /\ time - owner[o].making.issued <= REQUEST_LIMIT
    BY <1>6 DEF Confirm
  <2>3. ~(owner[o].making.issued + REQUEST_LIMIT < time)
    BY <1>1, <1>3, <2>2, ClockAssumption
  <2>4. QED
    BY <1>5, <1>6, <2>1, <2>2, <2>3 DEF Dead
<1>7. CASE Renew(o)
  <2>1. /\ owner[o].primary.epoch = clock[Host[o]].epoch
        /\ time < owner[o].primary.issued + LEASE_TTL - SAFETY_MARGIN
    BY <1>7, RenewFacts
  <2>2. ~(owner[o].primary.issued + LEASE_TTL <= time + SAFETY_MARGIN)
    BY <1>1, <1>3, <2>1, ClockAssumption
  <2>3. QED
    BY <1>5, <2>1, <2>2 DEF Dead
<1>8. CASE /\ owner'[o].primary = owner[o].primary
           /\ owner'[o].making \in {owner[o].making, NoLease} \/ owner'[o].making.kind = "Deleting"
  <2>1. CASE owner[o].primary.epoch # clock[Host[o]].epoch
    BY <1>1, <1>2, <1>3, <1>8, <2>1 DEF Dead
  <2>2. CASE /\ owner[o].primary.issued + LEASE_TTL <= time + SAFETY_MARGIN
             /\ \/ owner[o].making = NoLease
                \/ owner[o].making.kind = "Deleting"
                \/ owner[o].making.issued + REQUEST_LIMIT < time
    <3>1. owner[o].primary.issued + LEASE_TTL <= time' + SAFETY_MARGIN
      BY <1>1, <1>3, <2>2, ClockAssumption
    <3>2. owner[o].making # NoLease /\ owner[o].making.issued + REQUEST_LIMIT < time =>
            owner[o].making.issued + REQUEST_LIMIT < time'
      BY <1>1, <1>3, ClockAssumption
    <3>3. \/ owner'[o].making = NoLease
          \/ owner'[o].making.kind = "Deleting"
          \/ owner'[o].making.issued + REQUEST_LIMIT < time'
      BY <1>8, <2>2, <3>2
    <3>4. QED
      BY <1>8, <3>1, <3>3 DEF Dead
  <2>3. QED
    BY <1>5, <2>1, <2>2 DEF Dead
<1>9. QED
  BY <1>6, <1>7, <1>8, SurveyedOwner

(* The verdict on a listing that shows a lease of another owner.           *)
LEMMA ProceedVerdict ==
  ASSUME ShapeInv, NEW p \in Owners, NEW o \in Owners \ {p},
         Proceed(p), Sees(p, o), Surveyed(o)
  PROVE  Dead(o) \/ Compatible(owner[p].mode, owner[o].mode)
<1> TypeOK /\ OwnerOK(p)
  BY DEF ShapeInv
<1>1. PICK l \in survey[p].found :
         /\ l.owner = o
         /\ l.kind = wire_kind(owner[o].mode)
         /\ l.offset = owner[o].primary.offset
         /\ survey[p].at + REQUEST_LIMIT < l.issued + LEASE_TTL
  BY DEF Sees
<1>2. /\ survey[p] \in [at : Nat, found : SUBSET Lease]
      /\ time - survey[p].at <= REQUEST_LIMIT
      /\ Blockers(p, survey[p].found) = {}
  BY DEF Proceed, Clear, TypeOK
<1>3. l \in Lease /\ survey[p].at \in Nat
  BY <1>2
<1>4. l \notin owner[p].held
  BY <1>1 DEF OwnerOK, HoldsOwn, OwnLease
<1>5. \/ owner[p].mode = "shared" /\ l.kind = "Work"
      \/ trusted(Host[p]) /\ foreign_lease_expired(l, Host[p])
  BY <1>2, <1>4 DEF Blockers
<1>6. CASE owner[p].mode = "shared" /\ l.kind = "Work"
  <2>1. owner[o].mode \in Modes /\ owner[o].mode # "cleanup"
    BY <1>1, <1>6, OwnerFields, KindFacts
  <2>2. owner[o].mode \in {"shared", "backup"}
    BY <2>1 DEF Modes
  <2>3. QED
    BY <1>6, <2>2 DEF Compatible
<1>7. CASE trusted(Host[p]) /\ foreign_lease_expired(l, Host[p])
  <2> DEFINE off == clock[Host[p]].offset
  <2>1. Host[p] \in Devices
    BY HostAssumption
  <2>2. WithinError(off) /\ off \in Int /\ time \in Nat
    BY <1>7, <2>1, ClockAssumption DEF ShapeInv, ClockOK, trusted, TypeOK, ClockState
  <2>3. time + off >= l.issued + l.offset + LEASE_TTL + RELATIVE_CLOCK_ERROR
    BY <1>7 DEF foreign_lease_expired, Expires, Wall
  <2> HIDE DEF off
  <2>4. l.issued \in Nat /\ l.offset \in Int
    BY <1>3, LeaseFields
  <2>5. ~WithinError(l.offset)
    BY <1>1, <1>2, <1>3, <2>2, <2>3, <2>4, ClockAssumption DEF WithinError
  <2>6. QED
    BY <1>1, <2>5 DEF Dead
<1>8. QED
  BY <1>5, <1>6, <1>7

(* A survey lists the current lease of every admitted owner.  If it will   *)
(* not outlast the survey, its owner is dead: it can renew it no more.     *)
LEMMA SurveyVerdict ==
  ASSUME ShapeInv, NEW p \in Owners, NEW o \in Owners \ {p},
         Survey(p), Checking(p), Surveyed(o)
  PROVE  Sees(p, o)' \/ Dead(o)
<1> TypeOK /\ OwnerOK(o) /\ Admitted(o)
  BY DEF ShapeInv, Surveyed, Admitted
<1> DEFINE l == owner[o].primary
<1>1. l \in Lease /\ l.owner = o
  BY CurrentFacts DEF OwnLease
<1>2. l \in leases /\ l.kind = wire_kind(owner[o].mode)
  BY DEF OwnerOK, CurrentOK
<1>3. owner' = owner /\ survey'[p].at = time /\ survey'[p].found = leases
  BY DEF Survey, TypeOK
<1>4. /\ time \in Nat /\ l.issued \in Nat
      /\ owner[o].making # NoLease => owner[o].making.issued \in Nat
  BY <1>1, LeaseFields, OwnerFields DEF TypeOK
<1>5. CASE time + REQUEST_LIMIT < l.issued + LEASE_TTL
  BY <1>1, <1>2, <1>3, <1>5 DEF Sees, Checking
<1>6. CASE ~(time + REQUEST_LIMIT < l.issued + LEASE_TTL)
  <2>1. l.issued + LEASE_TTL <= time + SAFETY_MARGIN
    BY <1>4, <1>6, ClockAssumption
  <2>2. owner[o].making # NoLease /\ owner[o].making.kind # "Deleting" =>
          owner[o].making.issued + REQUEST_LIMIT < time
    <3>1. owner[o].making # NoLease /\ owner[o].making.kind # "Deleting" =>
            owner[o].making.issued < l.issued + LEASE_TTL - SAFETY_MARGIN
      BY DEF OwnerOK, RenewalOK
    <3>2. QED
      BY <1>4, <1>6, <3>1, ClockAssumption
  <2>3. QED
    BY <2>1, <2>2 DEF Dead
<1>7. QED
  BY <1>5, <1>6

(* Nobody becomes surveyed but by a survey of its own.                     *)
LEMMA SurveyedBefore ==
  ASSUME ShapeInv, [Next]_vars, NEW o \in Owners, Surveyed(o)', ~Surveyed(o)
  PROVE  Survey(o) /\ Checking(o)
<1> TypeOK /\ OwnerOK(o) /\ owner[o] \in OwnerState
  BY DEF ShapeInv, TypeOK
<1>1. ASSUME owner'[o] = owner[o], survey'[o] = survey[o]
      PROVE  FALSE
  BY <1>1 DEF Surveyed, Running, Checking
<1>2. ASSUME NEW q \in Owners \ {o}, Acts(q)
      PROVE  FALSE
  BY <1>1, <1>2, ActsFrame
<1>3. ASSUME NEW d \in Devices, Restart(d)
      PROVE  FALSE
  <2>1. CASE Host[o] = d
    BY <1>3, <2>1, RestartEffect DEF Surveyed, Running, Checking
  <2>2. QED
    BY <1>1, <1>3, <2>1, RestartEffect
<1>4. CASE Admit(o)
  <2> DEFINE base == [owner[o] EXCEPT !.step = "creating"]
  <2>1. base \in OwnerState /\ base.step = "creating"
    BY DEF OwnerState
  <2>2. wire_kind(owner[o].mode) \in Kinds
    BY OwnerFields, KindFacts
  <2>3. \/ owner' = owner /\ survey' = survey
        \/ BeginLease(o, wire_kind(owner[o].mode), base)
    BY <1>4 DEF Admit
  <2> HIDE DEF base
  <2>4. \/ owner'[o].step = "creating"
        \/ owner' = owner /\ survey' = survey
    BY <2>1, <2>2, <2>3, BeginEffect
  <2>5. QED
    BY <1>1, <2>4 DEF Surveyed, Running, Checking
<1>5. CASE Confirm(o)
  <2>1. survey' = survey
    BY <1>5 DEF Confirm
  <2>2. \/ owner'[o].step = owner[o].step
        \/ owner'[o].step = "checking" /\ owner[o].step = "creating"
        \/ owner'[o].step = "marked" /\ owner[o].step = "marking"
    BY <1>5, ConfirmMarkerEffect, ConfirmPrimaryEffect
  <2>3. owner[o].step = "creating" => survey[o] = NoSurvey
    BY DEF OwnerOK, StepOK
  <2>4. QED
    BY <2>1, <2>2, <2>3 DEF Surveyed, Running, Checking
<1>6. CASE GiveUpLease(o)
  <2>1. survey' = survey /\ owner'[o].step \in {owner[o].step, "closed"}
    BY <1>6, GiveUpEffect, GiveUpAdmissionEffect DEF GiveUpLease
  <2>2. QED
    BY <2>1 DEF Surveyed, Running, Checking
<1>7. CASE Survey(o)
  BY <1>7 DEF Survey, Surveyed, Running, Checking
<1>8. CASE Proceed(o)
  BY <1>8 DEF Proceed, Surveyed, Running, Checking
<1>9. CASE ReleaseAll(o)
  BY <1>9, ReleaseAllEffect DEF Surveyed, Running, Checking
<1>10. CASE Renew(o) \/ ReleaseOld(o) \/ PlaceMarker(o) \/ Dispatch(o) \/ Deleted(o)
  BY <1>10 DEF Renew, ReleaseOld, PlaceMarker, Dispatch, Deleted, Surveyed, Running
<1>11. CASE Acts(o)
  BY <1>4, <1>5, <1>6, <1>7, <1>8, <1>9, <1>10, <1>11 DEF Acts
<1>12. QED
  BY <1>1, <1>2, <1>3, <1>11, Steps
(* What a job has seen it keeps in sight until it proceeds.                *)
LEMMA SeesStays ==
  ASSUME ShapeInv, [Next]_vars, NEW p \in Owners, NEW o \in Owners,
         Surveyed(p), Surveyed(p)', Surveyed(o), Surveyed(o)', Sees(p, o), ~Proceed(p)
  PROVE  Sees(p, o)'
<1>1. /\ owner'[o].mode = owner[o].mode
      /\ owner'[o].primary.offset = owner[o].primary.offset
  BY SurveyedOwner
<1>2. Checking(p)' /\ survey'[p] = survey[p]
  BY SurveyedOwner DEF Sees
<1>3. QED
  BY <1>1, <1>2 DEF Sees

(* One of a pair proceeds or both stay as they are.                        *)
LEMMA PairKept ==
  ASSUME ShapeInv, [Next]_vars, NEW p \in Owners, NEW o \in Owners \ {p},
         Surveyed(p), Surveyed(p)', Surveyed(o), Surveyed(o)',
         Sees(p, o) \/ Dead(p) \/ Compatible(owner[p].mode, owner[o].mode)
  PROVE  PairOK(p, o)'
<1>1. owner'[p].mode = owner[p].mode /\ owner'[o].mode = owner[o].mode
  BY SurveyedOwner
<1>2. CASE Dead(p)
  BY <1>2, DeadStays DEF PairOK
<1>3. CASE Compatible(owner[p].mode, owner[o].mode)
  BY <1>1, <1>3 DEF PairOK, Compatible
<1>4. CASE Sees(p, o) /\ ~Proceed(p)
  BY <1>4, SeesStays DEF PairOK
<1>5. CASE Sees(p, o) /\ Proceed(p)
  <2>1. Dead(o) \/ Compatible(owner[p].mode, owner[o].mode)
    BY <1>5, ProceedVerdict
  <2>2. QED
    BY <1>3, <2>1, DeadStays DEF PairOK
<1>6. QED
  BY <1>2, <1>3, <1>4, <1>5

(* A job that has just read the listing sees every other that has.         *)
LEMMA PairBegins ==
  ASSUME ShapeInv, [Next]_vars, NEW p \in Owners, NEW o \in Owners \ {p},
         ~Surveyed(p), Surveyed(p)', Surveyed(o)'
  PROVE  PairOK(p, o)'
<1>1. Survey(p) /\ Checking(p)
  BY SurveyedBefore
<1>2. Acts(p)
  BY <1>1 DEF Acts
<1>3. owner'[o] = owner[o] /\ survey'[o] = survey[o]
  BY <1>2, ActsFrame
<1>4. Surveyed(o)
  BY <1>3 DEF Surveyed, Running, Checking
<1>5. Sees(p, o)' \/ Dead(o)
  BY <1>1, <1>4, SurveyVerdict
<1>6. QED
  BY <1>4, <1>5, DeadStays DEF PairOK

LEMMA PairStep ==
  ASSUME ShapeInv, PairInv, [Next]_vars
  PROVE  PairInv'
<1> SUFFICES ASSUME NEW p \in Owners, NEW o \in Owners \ {p}, Surveyed(p)', Surveyed(o)'
             PROVE  PairOK(p, o)'
  BY DEF PairInv
<1>0. PairOK(o, p)' => PairOK(p, o)'
  <2>1. {owner'[p].mode, owner'[o].mode} = {owner'[o].mode, owner'[p].mode}
    OBVIOUS
  <2>2. QED
    BY <2>1 DEF PairOK, Compatible
<1>1. CASE Surveyed(p) /\ Surveyed(o)
  <2>1. PairOK(p, o)
    BY <1>1 DEF PairInv
  <2>2. \/ Sees(p, o) \/ Dead(p) \/ Compatible(owner[p].mode, owner[o].mode)
        \/ Sees(o, p) \/ Dead(o)
    BY <2>1 DEF PairOK
  <2>3. CASE Sees(p, o) \/ Dead(p) \/ Compatible(owner[p].mode, owner[o].mode)
    BY <1>1, <2>3, PairKept
  <2>4. CASE Sees(o, p) \/ Dead(o)
    <3>1. PairOK(o, p)'
      BY <1>1, <2>4, PairKept
    <3>2. QED
      BY <1>0, <3>1
  <2>5. QED
    BY <2>2, <2>3, <2>4
<1>2. CASE ~Surveyed(p)
  BY <1>2, PairBegins
<1>3. CASE ~Surveyed(o)
  <2>1. PairOK(o, p)'
    BY <1>3, PairBegins
  <2>2. QED
    BY <1>0, <2>1
<1>4. QED
  BY <1>1, <1>2, <1>3
(* Protected jobs are alive, and have passed their surveys.                *)
LEMMA ProtectedJobs ==
  ASSUME ShapeInv, NEW o \in Owners, Protected(o)
  PROVE  Surveyed(o) /\ ~Checking(o) /\ ~Dead(o)
<1> TypeOK
  BY DEF ShapeInv
<1>1. Running(o) /\ Admitted(o)
  BY DEF Protected, Admitted
<1>2. owner[o].primary \in Lease
  BY <1>1, CurrentFacts
<1>3. time \in Nat /\ owner[o].primary.issued \in Nat
  BY <1>2, LeaseFields DEF TypeOK
<1>4. /\ owner[o].primary.epoch = clock[Host[o]].epoch
      /\ LEASE_TTL - (time - owner[o].primary.issued) > SAFETY_MARGIN
      /\ WithinError(owner[o].primary.offset)
  BY DEF Protected, check_control, Holding, Remaining
<1>5. ~(owner[o].primary.issued + LEASE_TTL <= time + SAFETY_MARGIN)
  BY <1>3, <1>4, ClockAssumption
<1>6. QED
  BY <1>1, <1>4, <1>5 DEF Surveyed, Checking, Running, Dead

LEMMA PairsAreCompatible ==
  ASSUME ShapeInv, PairInv
  PROVE  ProtectedJobsAreCompatible
<1> SUFFICES ASSUME NEW o \in Owners, NEW p \in Owners, o # p, Protected(o), Protected(p)
             PROVE  Compatible(owner[o].mode, owner[p].mode)
  BY DEF ProtectedJobsAreCompatible
<1>1. PairOK(o, p) /\ ~Dead(o) /\ ~Dead(p) /\ ~Checking(o) /\ ~Checking(p)
  BY ProtectedJobs DEF PairInv
<1>2. QED
  BY <1>1 DEF PairOK, Sees

LEMMA PairInit ==
  ASSUME Init
  PROVE  PairInv
BY DEF Init, NoOwner, PairInv, Surveyed, Running, Checking
------------------------------------------------------------------------------
(* A DELETE that the storage may still carry out is announced by a lease   *)
(* that outlasts it, whatever has become of its sender.                    *)

Announces(l, x) ==
    /\ l.owner = x.by
    /\ WithinError(l.offset)
    /\ x.until < l.issued + LEASE_TTL

(* The survey that o judges lists a lease of the sender that o cannot      *)
(* ignore in time.                                                         *)
SeesDelete(o, x) ==
    /\ Checking(o)
    /\ \E l \in survey[o].found :
         /\ l.owner = x.by
         /\ l.kind # "Work"
         /\ WithinError(l.offset)
         /\ \/ x.until < l.issued + LEASE_TTL
            \/ survey[o].at + REQUEST_LIMIT < l.issued + LEASE_TTL

SenderOK(x) ==
    /\ owner[x.by].deleting \/ owner[x.by].step = "closed"
    /\ owner[x.by].deleting => Announces(owner[x.by].marker, x)

ListedOK(x) ==
    \E l \in leases :
      l.kind = "Deleting" /\ Announces(l, x) /\ clock[Host[x.by]].process <= l.epoch

OthersOK(x) ==
    \A o \in Owners \ {x.by} : Surveyed(o) => Dead(o) \/ SeesDelete(o, x)

DeleteOK(x) == time <= x.until /\ SenderOK(x) /\ ListedOK(x) /\ OthersOK(x)

DeleteInv ==
    /\ \A x \in deletes : ~x.restarted => DeleteOK(x)
    /\ \A x, y \in deletes : x.by = y.by /\ ~x.restarted /\ ~y.restarted => x = y

Request(o) == [by |-> o, until |-> time + SAFETY_MARGIN, restarted |-> FALSE]

(* Where a request that is on its way after a step comes from.             *)
LEMMA RequestSteps ==
  ASSUME ShapeInv, [Next]_vars, NEW x \in deletes', ~x.restarted
  PROVE  /\ x \in deletes \/ \E o \in Owners : Dispatch(o) /\ x = Request(o)
         /\ \A d \in Devices : Restart(d) => Host[x.by] # d
<1> TypeOK
  BY DEF ShapeInv
<1>1. ASSUME NEW d \in Devices, Restart(d)
      PROVE  x \in deletes /\ Host[x.by] # d
  <2>1. PICK y \in deletes : x = IF Host[y.by] = d THEN [y EXCEPT !.restarted = TRUE] ELSE y
    BY <1>1 DEF Restart, TypeOK
  <2>2. y \in [by : Owners, until : Nat, restarted : BOOLEAN]
    BY DEF TypeOK
  <2>3. Host[y.by] # d
    BY <2>1, <2>2
  <2>4. QED
    BY <2>1, <2>3
<1>2. ASSUME NEW o \in Owners, Acts(o)
      PROVE  x \in deletes \/ \E q \in Owners : Dispatch(q) /\ x = Request(q)
  BY <1>2 DEF Acts, Admit, Confirm, GiveUpLease, Survey, Proceed, ReleaseAll, Renew, ReleaseOld,
              PlaceMarker, Dispatch, Deleted, Request
<1>3. x \in deletes \/ \E o \in Owners : Dispatch(o) /\ x = Request(o)
  BY <1>1, <1>2, Steps
<1>4. QED
  BY <1>1, <1>3

LEMMA RequestInTime ==
  ASSUME ShapeInv, [Next]_vars, NEW x \in deletes, x \in deletes', time <= x.until
  PROVE  time' <= x.until
<1>1. time \in Nat /\ x.until \in Nat
  BY DEF ShapeInv, TypeOK
<1>2. CASE Tick
  BY <1>1, <1>2 DEF Tick
<1>3. CASE time' = time
  BY <1>3
<1>4. Tick \/ time' = time
  BY DEF Next, vars, Observe, ClockBreaks, Restart, Land, DeleteLands, Admit, Confirm, GiveUpLease,
         Survey, Proceed, Yield, Renew, ReleaseOld, Close, ReleaseAll, PlaceMarker, Dispatch,
         Deleted
<1>5. QED
  BY <1>2, <1>3, <1>4

(* The sender waits for the answer and keeps its marker, or is closed.     *)
LEMMA SenderStays ==
  ASSUME ShapeInv, [Next]_vars, DeleteInv, NEW x \in deletes, x \in deletes', ~x.restarted
  PROVE  SenderOK(x)'
<1> DEFINE o == x.by
<1> o \in Owners /\ TypeOK /\ OwnerOK(o) /\ SenderOK(x)
  BY DEF ShapeInv, TypeOK, DeleteInv, DeleteOK
<1> HIDE DEF o
<1>0. x.by = o
  BY DEF o
<1>1. CASE owner'[o] = owner[o]
  BY <1>0, <1>1 DEF SenderOK, Announces
<1>2. CASE owner'[o].step = "closed" /\ owner'[o].deleting = FALSE
  BY <1>0, <1>2 DEF SenderOK
<1>3. CASE owner[o].deleting
  <2>1. /\ owner[o].step = "batch" /\ Announces(owner[o].marker, x)
    BY <1>0, <1>3 DEF OwnerOK, StepOK, SenderOK
  <2>2. Admitted(o) /\ Running(o)
    BY <2>1 DEF Admitted, Running
  <2>3. CASE owner'[o].deleting /\ owner'[o].marker = owner[o].marker
    BY <1>0, <2>1, <2>3 DEF SenderOK, Announces
  <2>4. CASE Confirm(o) /\ owner[o].making.kind = "Deleting"
    <3>1. /\ owner'[o].marker = owner[o].making /\ owner'[o].deleting = owner[o].deleting
      BY <2>4, ConfirmMarkerEffect
    <3>2. owner[o].marker # NoLease /\ owner[o].marker \in owner[o].held
      BY <2>1, <2>2 DEF OwnerOK, CurrentOK
    <3>3. /\ owner[o].making # NoLease /\ OwnLease(o, owner[o].making)
      BY <2>4 DEF Confirm, OwnerOK, HoldsOwn
    <3>4. /\ owner[o].marker.issued <= owner[o].making.issued
          /\ owner[o].making.offset = owner[o].marker.offset
      BY <2>2, <2>4, <3>2, <3>3 DEF OwnerOK, RenewalOK, CurrentOK, Alike
    <3>5. owner[o].marker.issued \in Nat /\ owner[o].making.issued \in Nat /\ x.until \in Nat
      <4>1. x.until \in Nat
        BY DEF TypeOK
      <4>2. owner[o].marker \in Lease /\ owner[o].making \in Lease
        BY <3>2, <3>3, OwnerFields
      <4>3. QED
        BY <4>1, <4>2, LeaseFields
    <3>6. x.until < owner[o].making.issued + LEASE_TTL
      BY <2>1, <3>4, <3>5, ClockAssumption DEF Announces
    <3>7. Announces(owner[o].making, x)
      BY <1>0, <2>1, <3>3, <3>4, <3>6 DEF Announces, OwnLease
    <3>8. QED
      BY <1>0, <1>3, <3>1, <3>7 DEF SenderOK, Announces
  <2>5. CASE Confirm(o) /\ owner[o].making.kind # "Deleting"
    BY <1>3, <2>3, <2>5, ConfirmPrimaryEffect
  <2>6. CASE GiveUpLease(o)
    BY <1>3, <2>1, <2>3, <2>6, GiveUpEffect
  <2>7. CASE Renew(o)
    <3>1. PICK previous \in Lease : BeginLease(o, previous.kind, owner[o])
      BY <2>7, RenewFacts
    <3>2. previous.kind \in Kinds /\ owner[o] \in OwnerState
      BY LeaseFields, OwnerFields
    <3>3. owner'[o].deleting = owner[o].deleting /\ owner'[o].marker = owner[o].marker
      BY <3>1, <3>2, BeginEffect
    <3>4. QED
      BY <1>3, <2>3, <3>3
  <2>8. CASE ReleaseOld(o)
    BY <1>3, <2>3, <2>8, ReleaseOldEffect
  <2>9. CASE ReleaseAll(o)
    BY <1>2, <2>9, ReleaseAllEffect
  <2>10. ~Deleted(o)
    <3> SUFFICES ASSUME NEW y \in deletes, y.by = o, ~y.restarted, deletes' = deletes \ {y}
                 PROVE  FALSE
      BY DEF Deleted
    <3>1. x = y
      BY <1>0 DEF DeleteInv
    <3>2. QED
      BY <3>1
  <2>11. ~Admit(o) /\ ~Survey(o) /\ ~Proceed(o) /\ ~PlaceMarker(o) /\ ~Dispatch(o)
    BY <1>3, <2>1 DEF Admit, Idle, Survey, Proceed, PlaceMarker, Dispatch
  <2>12. CASE Acts(o)
    BY <2>4, <2>5, <2>6, <2>7, <2>8, <2>9, <2>10, <2>11, <2>12 DEF Acts
  <2>13. ASSUME NEW q \in Owners \ {o}, Acts(q)
         PROVE  SenderOK(x)'
    BY <1>1, <2>13, ActsFrame
  <2>14. ASSUME NEW d \in Devices, Restart(d)
         PROVE  SenderOK(x)'
    BY <1>0, <1>1, <2>14, RequestSteps, RestartEffect
  <2>15. QED
    BY <1>1, <2>12, <2>13, <2>14, Steps
<1>4. CASE owner[o].step = "closed"
  <2>1. owner[o].making = NoLease
    BY <1>4 DEF OwnerOK, StepOK
  <2>2. CASE ReleaseAll(o)
    BY <1>2, <2>2, ReleaseAllEffect
  <2>3. ~Acts(o) \/ ReleaseAll(o)
    BY <1>4, <2>1 DEF Acts, Admit, Idle, Confirm, GiveUpLease, Survey, Proceed, Renew, Running,
                      ReleaseOld, PlaceMarker, Dispatch, Deleted
  <2>4. ASSUME NEW q \in Owners \ {o}, Acts(q)
        PROVE  SenderOK(x)'
    BY <1>1, <2>4, ActsFrame
  <2>5. ASSUME NEW d \in Devices, Restart(d)
        PROVE  SenderOK(x)'
    BY <1>0, <1>1, <2>5, RequestSteps, RestartEffect
  <2>6. QED
    BY <1>1, <2>2, <2>3, <2>4, <2>5, Steps
<1>5. QED
  BY <1>0, <1>3, <1>4 DEF SenderOK
(* Nobody takes the announcement away: a sender that gives up keeps its    *)
(* marker, one that goes on keeps its current marker, and only a later     *)
(* process of the same device may forget it.                               *)
LEMMA AnnouncementStays ==
  ASSUME ShapeInv, [Next]_vars, DeleteInv, NEW x \in deletes, x \in deletes', ~x.restarted
  PROVE  ListedOK(x)'
<1> DEFINE o == x.by
<1> o \in Owners /\ TypeOK /\ OwnerOK(o) /\ SenderOK(x)
  BY DEF ShapeInv, TypeOK, DeleteInv, DeleteOK
<1> HIDE DEF o
<1>0. x.by = o /\ Host[o] \in Devices
  BY HostAssumption DEF o
<1>1. clock'[Host[o]].process = clock[Host[o]].process
  BY <1>0, ClockStep, RequestSteps DEF ShapeInv
<1>2. PICK l \in leases :
        l.kind = "Deleting" /\ Announces(l, x) /\ clock[Host[o]].process <= l.epoch
  BY <1>0 DEF DeleteInv, DeleteOK, ListedOK
<1>3. CASE l \in leases'
  BY <1>0, <1>1, <1>2, <1>3 DEF ListedOK, Announces
<1>4. l \in Lease /\ l.owner = o
  BY <1>0, <1>2 DEF Announces, TypeOK
<1>5. ASSUME NEW q \in Owners, Admit(q)
      PROVE  l \in leases'
  <2>1. Host[q] \in Devices /\ l.epoch \in Nat /\ clock[Host[o]].process \in Nat
    BY <1>0, <1>4, HostAssumption, LeaseFields DEF TypeOK, ClockState
  <2>2. l \notin abandoned[Host[q]]
    BY <1>2, <1>4, <2>1 DEF ShapeInv, AbandonedOK
  <2>3. QED
    BY <1>2, <1>5, <2>2 DEF Admit, Abandoned
<1>6. ASSUME NEW q \in Owners \ {o}, ReleaseOld(q) \/ ReleaseAll(q)
      PROVE  l \in leases'
  <2>1. l \notin owner[q].held
    BY <1>4 DEF ShapeInv, OwnerOK, HoldsOwn, OwnLease
  <2>2. QED
    BY <1>2, <1>6, <2>1 DEF ReleaseOld, Outdated, ReleaseAll, Releasable
<1>7. CASE ReleaseAll(o)
  <2>1. l \notin Releasable(o)
    BY <1>2 DEF SenderOK, OwnerOK, StepOK, Releasable, o
  <2>2. QED
    BY <1>2, <1>3, <1>7, <2>1 DEF ReleaseAll
<1>8. CASE ReleaseOld(o)
  <2>1. Running(o) /\ owner[o].deleting
    BY <1>0, <1>8 DEF ReleaseOld, SenderOK, Running
  <2>2. owner[o].step = "batch" /\ Admitted(o)
    BY <2>1 DEF OwnerOK, StepOK, Admitted
  <2>3. owner[o].marker \in owner[o].held \cap leases /\ owner[o].marker.kind = "Deleting"
    BY <2>2 DEF OwnerOK, CurrentOK
  <2>4. Announces(owner[o].marker, x)
    BY <1>0, <2>1 DEF SenderOK
  <2>5. clock[Host[o]].process <= owner[o].marker.epoch
    BY <2>3 DEF OwnerOK, HoldsOwn, OwnLease
  <2>6. owner[o].marker \in leases'
    BY <1>8, <2>3 DEF ReleaseOld, Outdated
  <2>7. QED
    BY <1>0, <1>1, <2>3, <2>4, <2>5, <2>6 DEF ListedOK, Announces
<1>9. \/ leases \subseteq leases'
      \/ \E q \in Owners : Admit(q) \/ ReleaseOld(q) \/ ReleaseAll(q)
  BY Steps DEF Acts, Restart, Confirm, GiveUpLease, Survey, Proceed, Renew, PlaceMarker, Dispatch,
               Deleted
<1>10. QED
  BY <1>2, <1>3, <1>5, <1>6, <1>7, <1>8, <1>9

(* A job that has the announcement in its listing cannot proceed while the *)
(* request is on its way.                                                  *)
LEMMA SeesDeleteVerdict ==
  ASSUME ShapeInv, NEW x \in deletes, time <= x.until, NEW q \in Owners \ {x.by},
         SeesDelete(q, x)
  PROVE  ~Proceed(q)
<1> SUFFICES ASSUME Proceed(q)
             PROVE  FALSE
  OBVIOUS
<1> TypeOK /\ OwnerOK(q)
  BY DEF ShapeInv
<1>1. PICK l \in survey[q].found :
         /\ l.owner = x.by
         /\ l.kind # "Work"
         /\ WithinError(l.offset)
         /\ \/ x.until < l.issued + LEASE_TTL
            \/ survey[q].at + REQUEST_LIMIT < l.issued + LEASE_TTL
  BY DEF SeesDelete
<1>2. /\ survey[q] \in [at : Nat, found : SUBSET Lease]
      /\ time - survey[q].at <= REQUEST_LIMIT
      /\ Blockers(q, survey[q].found) = {}
  BY DEF Proceed, Clear, TypeOK
<1>3. l \in Lease /\ survey[q].at \in Nat
  BY <1>2
<1>4. l \notin owner[q].held
  BY <1>1 DEF OwnerOK, HoldsOwn, OwnLease
<1>5. trusted(Host[q]) /\ foreign_lease_expired(l, Host[q])
  BY <1>1, <1>2, <1>4 DEF Blockers
<1> DEFINE off == clock[Host[q]].offset
<1>6. Host[q] \in Devices
  BY HostAssumption
<1>7. WithinError(off) /\ off \in Int /\ time \in Nat /\ x.until \in Nat
  BY <1>5, <1>6, ClockAssumption DEF ShapeInv, ClockOK, trusted, TypeOK, ClockState
<1>8. time + off >= l.issued + l.offset + LEASE_TTL + RELATIVE_CLOCK_ERROR
  BY <1>5 DEF foreign_lease_expired, Expires, Wall
<1> HIDE DEF off
<1>9. l.issued \in Nat /\ l.offset \in Int
  BY <1>3, LeaseFields
<1>10. time >= l.issued + LEASE_TTL
  BY <1>1, <1>7, <1>8, <1>9, ClockAssumption DEF WithinError
<1>11. time < l.issued + LEASE_TTL
  BY <1>1, <1>2, <1>3, <1>7, <1>9, ClockAssumption
<1>12. QED
  BY <1>7, <1>9, <1>10, <1>11, ClockAssumption

LEMMA OthersStay ==
  ASSUME ShapeInv, [Next]_vars, DeleteInv, NEW x \in deletes, x \in deletes', ~x.restarted
  PROVE  OthersOK(x)'
<1> SUFFICES ASSUME NEW q \in Owners \ {x.by}, Surveyed(q)'
             PROVE  (Dead(q) \/ SeesDelete(q, x))'
  BY DEF OthersOK
<1>1. DeleteOK(x)
  BY DEF DeleteInv
<1>2. CASE Surveyed(q) /\ Dead(q)
  BY <1>2, DeadStays
<1>3. CASE Surveyed(q) /\ SeesDelete(q, x)
  <2>1. ~Proceed(q)
    BY <1>1, <1>3, SeesDeleteVerdict DEF DeleteOK
  <2>2. Checking(q)' /\ survey'[q] = survey[q]
    BY <1>3, <2>1, SurveyedOwner DEF SeesDelete
  <2>3. QED
    BY <1>3, <2>2 DEF SeesDelete
<1>4. CASE ~Surveyed(q)
  <2>1. Survey(q) /\ Checking(q)
    BY <1>4, SurveyedBefore
  <2>2. owner' = owner /\ survey'[q].found = leases
    BY <2>1 DEF Survey, ShapeInv, TypeOK
  <2>3. PICK l \in leases : l.kind = "Deleting" /\ Announces(l, x)
    BY <1>1 DEF DeleteOK, ListedOK
  <2>4. QED
    BY <2>1, <2>2, <2>3 DEF SeesDelete, Checking, Announces
<1>5. QED
  BY <1>1, <1>2, <1>3, <1>4 DEF DeleteOK, OthersOK

(* A clean-up that sends a DELETE: whoever has listed the leases has seen  *)
(* its own, and its marker outlasts the request.                           *)
LEMMA DispatchOK ==
  ASSUME ShapeInv, PairInv, [Next]_vars, NEW o \in Owners, Dispatch(o)
  PROVE  DeleteOK(Request(o))'
<1> TypeOK /\ OwnerOK(o)
  BY DEF ShapeInv
<1> PICK x : x = Request(o)
  OBVIOUS
<1>0. /\ Host[o] \in Devices /\ owner[o].step = "batch" /\ current_limit(o)
      /\ UNCHANGED <<time, clock, leases, survey>>
  BY HostAssumption DEF Dispatch
<1>1. Running(o) /\ Admitted(o) /\ Surveyed(o) /\ ~Checking(o) /\ owner[o].mode = "cleanup"
  BY <1>0 DEF Running, Admitted, Surveyed, Checking, OwnerOK, StepOK
<1>2. /\ owner[o].marker # NoLease
      /\ owner[o].marker \in owner[o].held \cap leases /\ owner[o].marker.kind = "Deleting"
      /\ owner[o].primary \in owner[o].held
  BY <1>0, <1>1 DEF OwnerOK, CurrentOK
<1>3. /\ OwnLease(o, owner[o].marker) /\ OwnLease(o, owner[o].primary)
  BY <1>2 DEF OwnerOK, HoldsOwn
<1>4. \A l \in {owner[o].primary, owner[o].marker} :
        l.epoch = clock[Host[o]].epoch /\ LEASE_TTL - (time - l.issued) > SAFETY_MARGIN
  BY <1>0, <1>2 DEF current_limit, check_control, Holding, Remaining
<1>5. WithinError(clock[Host[o]].offset)
  BY <1>0 DEF current_limit, check_control, trusted, ShapeInv, ClockOK
<1>6. WithinError(owner[o].marker.offset) /\ WithinError(owner[o].primary.offset)
  BY <1>3, <1>4, <1>5 DEF OwnLease, Dated
<1>7. time \in Nat /\ owner[o].marker.issued \in Nat /\ owner[o].primary.issued \in Nat
  BY <1>3, LeaseFields DEF OwnLease, TypeOK
<1>8. time + SAFETY_MARGIN < owner[o].marker.issued + LEASE_TTL
  BY <1>4, <1>7, ClockAssumption
<1>9. ~(owner[o].primary.issued + LEASE_TTL <= time + SAFETY_MARGIN)
  BY <1>4, <1>7, ClockAssumption
<1>10. ~Dead(o)
  BY <1>4, <1>6, <1>9 DEF Dead
<1>11. /\ x.by = o /\ x.until = time + SAFETY_MARGIN
  BY DEF Request
<1>12. Request(o)' = x
  BY <1>0 DEF Request
<1>13. Announces(owner[o].marker, x)
  BY <1>3, <1>6, <1>8, <1>11 DEF Announces, OwnLease
<1>14. owner'[o].deleting = TRUE /\ owner'[o].marker = owner[o].marker
  BY DispatchEffect
<1>15. \A q \in Owners \ {o} : owner'[q] = owner[q]
  BY DispatchEffect
<1>16. time' <= x.until
  BY <1>0, <1>7, <1>11, ClockAssumption
<1>17. SenderOK(x)'
  BY <1>11, <1>13, <1>14 DEF SenderOK, Announces
<1>18. ListedOK(x)'
  BY <1>0, <1>2, <1>3, <1>11, <1>13 DEF ListedOK, Announces, OwnLease
<1>19. ASSUME NEW q \in Owners \ {o}, Surveyed(q)
       PROVE  Dead(q) \/ SeesDelete(q, x)
  <2>1. PairOK(q, o)
    BY <1>1, <1>19 DEF PairInv
  <2>2. ~Sees(o, q)
    BY <1>1 DEF Sees
  <2>3. ~Compatible(owner[q].mode, owner[o].mode)
    BY <1>1 DEF Compatible
  <2>4. ASSUME Sees(q, o)
        PROVE  SeesDelete(q, x)
    <3>1. PICK l \in survey[q].found :
             /\ l.owner = o
             /\ l.kind = wire_kind(owner[o].mode)
             /\ l.offset = owner[o].primary.offset
             /\ survey[q].at + REQUEST_LIMIT < l.issued + LEASE_TTL
      BY <2>4 DEF Sees
    <3>2. l.kind # "Work"
      BY <1>1, <3>1 DEF wire_kind
    <3>3. QED
      BY <1>6, <1>11, <2>4, <3>1, <3>2 DEF SeesDelete, Sees
  <2>5. QED
    BY <1>10, <2>1, <2>2, <2>3, <2>4 DEF PairOK
<1>20. OthersOK(x)'
  <2>1. \A q \in Owners \ {o} : /\ Surveyed(q)' <=> Surveyed(q)
                                /\ Dead(q)' <=> Dead(q)
                                /\ SeesDelete(q, x)' <=> SeesDelete(q, x)
    BY <1>0, <1>15 DEF Surveyed, Running, Checking, Dead, SeesDelete
  <2>2. QED
    BY <1>11, <1>19, <2>1 DEF OthersOK
<1>21. DeleteOK(x)'
  BY <1>16, <1>17, <1>18, <1>20 DEF DeleteOK
<1>22. QED
  BY <1>12, <1>21
LEMMA DeleteStep ==
  ASSUME ShapeInv, PairInv, DeleteInv, [Next]_vars
  PROVE  DeleteInv'
<1>1. ASSUME NEW x \in deletes', ~x.restarted
      PROVE  DeleteOK(x)'
  <2>1. CASE x \in deletes
    <3>1. time <= x.until
      BY <1>1, <2>1 DEF DeleteInv, DeleteOK
    <3>2. QED
      BY <1>1, <2>1, <3>1, RequestInTime, SenderStays, AnnouncementStays, OthersStay DEF DeleteOK
  <2>2. ASSUME NEW o \in Owners, Dispatch(o), x = Request(o)
        PROVE  DeleteOK(x)'
    <3>1. x = Request(o)'
      BY <2>2 DEF Dispatch, Request
    <3>2. DeleteOK(Request(o))'
      BY <2>2, DispatchOK
    <3>3. QED
      BY <3>1, <3>2 DEF DeleteOK, SenderOK, ListedOK, OthersOK, Announces, SeesDelete
  <2>3. QED
    BY <1>1, <2>1, <2>2, RequestSteps
<1>2. ASSUME NEW x \in deletes', NEW y \in deletes', x.by = y.by, ~x.restarted, ~y.restarted,
             x \in deletes, y \notin deletes
      PROVE  FALSE
  <2>1. PICK o \in Owners : Dispatch(o) /\ y = Request(o)
    BY <1>2, RequestSteps
  <2>2. x.by = o
    BY <1>2, <2>1 DEF Request
  <2>3. SenderOK(x)
    BY <1>2 DEF DeleteInv, DeleteOK
  <2>4. QED
    BY <2>1, <2>2, <2>3 DEF SenderOK, Dispatch
<1>3. ASSUME NEW x \in deletes', NEW y \in deletes', x.by = y.by, ~x.restarted, ~y.restarted
      PROVE  x = y
  <2>1. CASE x \in deletes /\ y \in deletes
    BY <1>3, <2>1 DEF DeleteInv
  <2>2. CASE x \notin deletes /\ y \notin deletes
    <3>1. PICK o \in Owners : x = Request(o)
      BY <1>3, <2>2, RequestSteps
    <3>2. PICK q \in Owners : y = Request(q)
      BY <1>3, <2>2, RequestSteps
    <3>3. QED
      BY <1>3, <3>1, <3>2 DEF Request
  <2>3. QED
    BY <1>2, <1>3, <2>1, <2>2
<1>4. QED
  BY <1>1, <1>3 DEF DeleteInv

LEMMA DeletesMeetNobody ==
  ASSUME ShapeInv, DeleteInv
  PROVE  DeletesMeetNoOtherJob
<1> SUFFICES ASSUME NEW x \in deletes, NEW o \in Owners, ~x.restarted, o # x.by, Protected(o)
             PROVE  FALSE
  BY DEF DeletesMeetNoOtherJob
<1>1. Surveyed(o) /\ ~Checking(o) /\ ~Dead(o)
  BY ProtectedJobs
<1>2. QED
  BY <1>1 DEF DeleteInv, DeleteOK, OthersOK, SeesDelete

LEMMA WorkingLeasesListed ==
  ASSUME ShapeInv
  PROVE  WorkingLeasesStayListed
BY DEF ShapeInv, OwnerOK, CurrentOK, Admitted, WorkingLeasesStayListed

------------------------------------------------------------------------------
(* The theorems.                                                           *)

(* The whole invariant: the shape of every owner, one of each pair in the  *)
(* sight of the other, and every DELETE on its way announced.              *)
THEOREM LeaseInvariance == Spec => [](ShapeInv /\ PairInv /\ DeleteInv)
<1>1. Init => ShapeInv /\ PairInv /\ DeleteInv
  BY ShapeInit, PairInit DEF Init, DeleteInv
<1>2. ShapeInv /\ PairInv /\ DeleteInv /\ [Next]_vars => (ShapeInv /\ PairInv /\ DeleteInv)'
  BY ShapeStep, PairStep, DeleteStep
<1>3. QED
  BY <1>1, <1>2, PTL DEF Spec

(* The bookkeeping of LeaseOwner, of the clocks and of the local ledger    *)
(* stays well formed in every behaviour: its steps, leases, markers,       *)
(* surveys and requests have their types.                                  *)
THEOREM LeasesTypeCorrect == Spec => []TypeOK
<1>1. ShapeInv => TypeOK
  BY DEF ShapeInv
<1>2. QED
  BY <1>1, LeaseInvariance, PTL

(* No step of another device, no giving back of renewed leases and no      *)
(* admission after a restart takes away the lease an admitted job works    *)
(* under (release_all, release_retired_lease, admit_mode).                 *)
THEOREM LeasesStayListed == Spec => []WorkingLeasesStayListed
<1>1. ShapeInv => WorkingLeasesStayListed
  BY WorkingLeasesListed
<1>2. QED
  BY <1>1, LeaseInvariance, PTL

(* However requests are delayed or lost, clocks break and devices restart, *)
(* two protected jobs are at work together only if one is shared work and  *)
(* the other no clean-up (LeaseOwner::recheck, blocker_for).               *)
THEOREM Exclusion == Spec => []ProtectedJobsAreCompatible
<1>1. ShapeInv /\ PairInv => ProtectedJobsAreCompatible
  BY PairsAreCompatible
<1>2. QED
  BY <1>1, LeaseInvariance, PTL

(* While the storage may still carry out a DELETE no other protected job   *)
(* is at work, though its sender may have given up (release_all keeps the  *)
(* marker of an unanswered delete).                                        *)
THEOREM DeletesAreAlone == Spec => []DeletesMeetNoOtherJob
<1>1. ShapeInv /\ DeleteInv => DeletesMeetNoOtherJob
  BY DeletesMeetNobody
<1>2. QED
  BY <1>1, LeaseInvariance, PTL
=============================================================================
