---------------------------- MODULE StorageLeases ----------------------------
(***************************************************************************)
(* The leases by which the devices that share one external storage keep    *)
(* their repository work and their clean-ups apart.  The storage offers    *)
(* no locks: an owner writes a lease object, lists all leases and yields   *)
(* to any other that it cannot ignore.  A lease is ignored when a verified *)
(* clock says that it ran out, so the protocol leans on clocks that are    *)
(* only roughly right.                                                     *)
(***************************************************************************)
EXTENDS Integers, FiniteSets

CONSTANTS
    Owners,           \* repository jobs, each of them one LeaseOwner at a time
    Devices,          \* the installations the jobs run on
    Host,             \* the device of a job
    JobMixes,         \* the kinds of the jobs: "backup", "shared" work or "cleanup"
    Offsets,          \* how far a wall clock may be off
    StartOffset,      \* how far each wall clock is off at first
    TrustedOffset,    \* MAX_SERVER_OFFSET_MS: how far a verified clock may be off
    LEASE_TTL, RENEW_AFTER, RELATIVE_CLOCK_ERROR, SAFETY_MARGIN, CLEANUP_RUN_LIMIT,
    REQUEST_LIMIT,    \* how long create_lease and a survey may take: their requests
                      \* end within CONTROL_DEADLINE_MS each
    NoLease,          \* an owner that holds no lease of that sort
    NoSurvey,         \* no survey is being judged
    Never             \* a clock without a usable sample

CONSTANTS             \* bounds of an instance:
    MaxTime,          \* ticks
    MaxEvents         \* renewals, failed requests, clock breaks and restarts together

ASSUME HostAssumption == Host \in [Owners -> Devices]
ASSUME ClockAssumption ==
    /\ Offsets \subseteq Int
    /\ StartOffset \in [Devices -> Offsets]
    /\ {TrustedOffset, RELATIVE_CLOCK_ERROR, RENEW_AFTER, SAFETY_MARGIN, CLEANUP_RUN_LIMIT} \subseteq Nat
    /\ LEASE_TTL \in Nat /\ REQUEST_LIMIT \in Nat
    /\ 2 * REQUEST_LIMIT <= SAFETY_MARGIN
    /\ 2 * TrustedOffset <= RELATIVE_CLOCK_ERROR
Modes == {"backup", "shared", "cleanup"}
ASSUME JobsAssumption == JobMixes \subseteq [Owners -> Modes]

VARIABLES
    time,       \* the true time; every monotonic clock runs with it
    clock,      \* the SystemLeaseClock of each device
    leases,     \* the lease objects in the storage
    uploads,    \* lease objects on their way to the storage
    owner,      \* the LeaseOwner of each job and how far its job is
    survey,     \* the listing a recheck has read and not judged yet
    deletes,    \* DELETE requests for repository objects on their way
    abandoned,  \* the rows of each device's LocalLeaseLedger from earlier processes
    events      \* what MaxEvents bounds

vars == <<time, clock, leases, uploads, owner, survey, deletes, abandoned, events>>

Kinds == {"Work", "Cleanup", "Deleting"}
WireMode(mode) == mode                            \* mutant: a kind no reader knows
wire_kind(mode) == IF mode = "cleanup" THEN "Cleanup" ELSE "Work"

(* The document of a lease; its expiry follows from the wall clock at its  *)
(* creation, and issued and epoch are what the handle remembers.           *)
Lease == [owner : Owners, kind : Kinds, issued : Nat, offset : Offsets, epoch : Nat]

Expires(l) == l.issued + l.offset + LEASE_TTL
Wall(d) == time + clock[d].offset

ASSUME NoneAssumption ==
    /\ NoLease \notin Lease
    /\ NoSurvey \notin [at : Nat, found : SUBSET Lease]
    /\ Never \notin Nat

(* What the device of a job knows of its clock: when it was last verified, *)
(* its epoch, and the epoch in which its process began.                    *)
ClockState == [offset : Offsets, verified : Nat \cup {Never}, foreground : BOOLEAN,
               epoch : Nat, process : Nat]

OwnerState ==
    [step     : {"idle", "creating", "checking", "working", "marking", "marked", "batch",
                 "closed"},
     mode     : Modes,
     primary  : Lease \cup {NoLease},
     marker   : Lease \cup {NoLease},
     making   : Lease \cup {NoLease},       \* the lease create_lease is writing
     held     : SUBSET Lease,
     deleting : BOOLEAN,                    \* delete_in_flight
     started  : [time : Nat, epoch : Nat]]

Idle(o) == owner[o].step = "idle"
Running(o) == owner[o].step \in {"working", "marking", "marked", "batch"}

NoOwner(step, mode) ==
    [step |-> step, mode |-> mode, primary |-> NoLease, marker |-> NoLease,
     making |-> NoLease, held |-> {}, deleting |-> FALSE, started |-> [time |-> 0, epoch |-> 0]]

Init ==
    /\ time = 0
    /\ clock = [d \in Devices |-> [offset |-> StartOffset[d], verified |-> Never,
                                   foreground |-> TRUE, epoch |-> 0, process |-> 0]]
    /\ events = 0
    /\ leases = {} /\ uploads = {} /\ deletes = {}
    /\ \E mix \in JobMixes : owner = [o \in Owners |-> NoOwner("idle", mix[o])]
    /\ survey = [o \in Owners |-> NoSurvey]
    /\ abandoned = [d \in Devices |-> {}]

------------------------------------------------------------------------------
(* Clocks.                                                                 *)

WithinError(offset) == -TrustedOffset <= offset /\ offset <= TrustedOffset

(* ClockReading::trusted; a sample counts until it is RENEW_AFTER old.     *)
trusted(d) == clock[d].foreground /\ clock[d].verified # Never

(* A request that lands after the margin its sender left is taken for lost.*)
Tick ==
    /\ time < MaxTime
    /\ time' = time + 1
    /\ clock' = [d \in Devices |-> [clock[d] EXCEPT !.verified =
                     IF @ # Never /\ time + 1 - @ < RENEW_AFTER THEN @ ELSE Never]]
    /\ deletes' = {x \in deletes : x.until > time}
    /\ UNCHANGED <<leases, uploads, owner, survey, abandoned, events>>

(* A response with a Date: SystemLeaseClock::observe.                      *)
Observe(d) ==
    /\ clock' = [clock EXCEPT ![d].verified =
                     IF clock[d].foreground /\ WithinError(clock[d].offset) THEN time ELSE Never]
    /\ UNCHANGED <<time, leases, uploads, owner, survey, deletes, abandoned, events>>

Event == events < MaxEvents /\ events' = events + 1

Invalidated(c, offset, foreground) ==
    [offset |-> offset, verified |-> Never, foreground |-> foreground,
     epoch |-> c.epoch + 1, process |-> c.process]

(* The wall clock is set, or the application is suspended or resumed.      *)
ClockBreaks(d) ==
    /\ Event
    /\ \E offset \in Offsets, foreground \in BOOLEAN :
         clock' = [clock EXCEPT ![d] = Invalidated(@, offset, foreground)]
    /\ UNCHANGED <<time, leases, uploads, owner, survey, deletes, abandoned>>

------------------------------------------------------------------------------
(* What an owner knows about its own protection.                           *)

Remaining(l) == LEASE_TTL - (time - l.issued)

(* remaining_ms: a destructive request is also bounded by the marker.      *)
Holding(o, destructive) ==
    IF destructive /\ owner[o].marker # NoLease
    THEN {owner[o].primary, owner[o].marker} ELSE {owner[o].primary}

(* LeaseOwner::check_control.                                              *)
check_control(o, destructive) ==
    /\ clock[Host[o]].foreground
    /\ destructive => trusted(Host[o])
    /\ \A l \in Holding(o, destructive) :
         /\ l.epoch = clock[Host[o]].epoch
         /\ Remaining(l) > SAFETY_MARGIN

ExpiredAtOnce(l, d) == Wall(d) >= Expires(l)      \* mutant: the other clock is trusted fully
foreign_lease_expired(l, d) == Wall(d) >= Expires(l) + RELATIVE_CLOCK_ERROR

(* LeaseSurvey::blocker_for: the leases among `found` that o must yield to.*)
Blockers(o, found) ==
    {l \in found \ owner[o].held :
        /\ ~(owner[o].mode = "shared" /\ l.kind = "Work")
        /\ ~(trusted(Host[o]) /\ foreign_lease_expired(l, Host[o]))}

(* current_limit of the clean-up.                                          *)
current_limit(o) ==
    /\ clock[Host[o]].epoch = owner[o].started.epoch
    /\ time - owner[o].started.time < CLEANUP_RUN_LIMIT
    /\ check_control(o, TRUE)

------------------------------------------------------------------------------
(* Writing a lease.                                                        *)

NewLease(o, kind) ==
    [owner |-> o, kind |-> kind, issued |-> time,
     offset |-> clock[Host[o]].offset, epoch |-> clock[Host[o]].epoch]

(* create_lease up to the request.  The ledger's row is written before;    *)
(* it is kept here as the lease itself, which it is of no use without.     *)
BeginLease(o, kind, base) ==
    LET l == NewLease(o, kind) IN
    /\ clock[Host[o]].foreground
    /\ l \notin leases \cup uploads \cup owner[o].held
    /\ owner' = [owner EXCEPT ![o] = [base EXCEPT !.making = l]]
    /\ uploads' = uploads \cup {l}

(* The storage stores a lease, whether or not its writer still waits.      *)
Land(l) ==
    /\ l \in uploads
    /\ uploads' = uploads \ {l}
    /\ leases' = leases \cup {l}
    /\ UNCHANGED <<time, clock, owner, survey, deletes, abandoned, events>>

(* What becomes of the owner when the lease it makes is confirmed: the     *)
(* first one of an admission, the marker, or a renewal of either.          *)
Installed(o) ==
    LET l == owner[o].making
        held == owner[o].held \cup {l}
    IN  IF l.kind = "Deleting"
        THEN [owner[o] EXCEPT !.making = NoLease, !.held = held, !.marker = l,
                              !.step = IF @ = "marking" THEN "marked" ELSE @]
        ELSE [owner[o] EXCEPT !.making = NoLease, !.held = held, !.primary = l,
                              !.step = IF @ = "creating" THEN "checking" ELSE @]

(* create_lease from the answer on: the lease is read back, and was        *)
(* written in good time under a clock that did not break meanwhile.        *)
Confirm(o) ==
    /\ owner[o].making # NoLease
    /\ owner[o].making \in leases
    /\ clock[Host[o]].foreground
    /\ owner[o].making.epoch = clock[Host[o]].epoch
    /\ time - owner[o].making.issued < LEASE_TTL - SAFETY_MARGIN
    /\ time - owner[o].making.issued <= REQUEST_LIMIT
    /\ owner' = [owner EXCEPT ![o] = Installed(o)]
    /\ UNCHANGED <<time, clock, leases, uploads, survey, deletes, abandoned, events>>

(* create_lease fails: an admission ends without an owner, a renewal is    *)
(* tried again later.  What was sent may still arrive.                     *)
GiveUpLease(o) ==
    /\ owner[o].making # NoLease
    /\ owner[o].step # "marking"
    /\ Event
    /\ owner' = [owner EXCEPT ![o] = IF @.step = "creating" THEN NoOwner("closed", @.mode)
                                     ELSE [@ EXCEPT !.making = NoLease]]
    /\ UNCHANGED <<time, clock, leases, uploads, survey, deletes, abandoned>>

------------------------------------------------------------------------------
(* Giving leases back.                                                     *)

AllHeld(o) == owner[o].held      \* mutant: the marker of an unanswered delete goes too
Releasable(o) ==
    {l \in owner[o].held : ~(l.kind = "Deleting" /\ owner[o].deleting)}

(* release_all, of which any request may fail or run into the deadline.    *)
ReleaseAll(o) ==
    \E given \in SUBSET Releasable(o) :
      /\ leases' = leases \ given
      /\ \/ given = Releasable(o) /\ UNCHANGED events
         \/ given # Releasable(o) /\ Event
      /\ owner' = [owner EXCEPT ![o] = NoOwner("closed", @.mode)]
      /\ survey' = [survey EXCEPT ![o] = NoSurvey]
      /\ UNCHANGED <<time, clock, uploads, deletes, abandoned>>

(* The job ends: done, failed, cancelled, or dropped by the renewal loop.  *)
Close(o) == Running(o) /\ ReleaseAll(o)

------------------------------------------------------------------------------
(* Admission.                                                              *)

(* admit_mode up to its upload.  Leases that an earlier process of this    *)
(* device left behind, by its own ledger, are deleted first; rows of such  *)
(* leases that are not listed are forgotten.                               *)
Abandoned(d) == leases \cap abandoned[d]

Admit(o) ==
    LET d == Host[o]
        others == leases \ Abandoned(d)
    IN
    /\ Idle(o)
    /\ clock[d].foreground
    /\ leases' = others
    /\ abandoned' = [abandoned EXCEPT ![d] = {}]
    /\ \/ /\ Blockers(o, others) # {}
          /\ UNCHANGED <<owner, uploads>>
       \/ /\ Blockers(o, others) = {}
          /\ BeginLease(o, wire_kind(owner[o].mode), [owner[o] EXCEPT !.step = "creating"])
    /\ UNCHANGED <<time, clock, survey, deletes, events>>

------------------------------------------------------------------------------
(* Rechecks and renewals.                                                  *)

(* LeaseOwner::recheck, its listing.                                       *)
Survey(o) ==
    /\ owner[o].step \in {"checking", "marked"}
    /\ survey[o] = NoSurvey
    /\ check_control(o, FALSE)
    /\ survey' = [survey EXCEPT ![o] = [at |-> time, found |-> leases]]
    /\ UNCHANGED <<time, clock, leases, uploads, owner, deletes, abandoned, events>>

(* LeaseOwner::recheck, its verdict on the listing: the leases it holds by *)
(* now must have been listed, and nothing that blocks it.                  *)
Clear(o) ==
    /\ Holding(o, TRUE) \subseteq survey[o].found
    /\ check_control(o, FALSE)
    /\ Blockers(o, survey[o].found) = {}

Started(o) ==
    IF owner[o].mode # "cleanup" THEN [time |-> 0, epoch |-> 0]
    ELSE [time |-> time, epoch |-> clock[Host[o]].epoch]

(* A clean-up starts only with a verified clock, and puts up its marker    *)
(* before it may delete; other jobs work as soon as they are admitted.     *)
Proceed(o) ==
    /\ survey[o] # NoSurvey
    /\ time - survey[o].at <= REQUEST_LIMIT
    /\ Clear(o)
    /\ survey' = [survey EXCEPT ![o] = NoSurvey]
    /\ \/ /\ owner[o].step = "checking"
          /\ owner[o].mode = "cleanup" => trusted(Host[o])
          /\ owner' = [owner EXCEPT ![o].step = "working", ![o].started = Started(o)]
       \/ /\ owner[o].step = "marked"
          /\ owner' = [owner EXCEPT ![o].step = "batch"]
    /\ UNCHANGED <<time, clock, leases, uploads, deletes, abandoned, events>>

(* An admission whose recheck fails or does not pass.                      *)
Yield(o) == owner[o].step = "checking" /\ ReleaseAll(o)

(* renew_if_due for one of the current leases, while nothing else is       *)
(* being written: renewals and place_marker exclude each other.            *)
Renew(o) ==
    /\ Running(o)
    /\ owner[o].making = NoLease
    /\ check_control(o, FALSE)
    /\ Event
    /\ \E previous \in Holding(o, TRUE) :
         /\ previous.epoch = clock[Host[o]].epoch
         /\ time - previous.issued >= RENEW_AFTER
         /\ BeginLease(o, previous.kind, owner[o])
    /\ UNCHANGED <<time, clock, leases, survey, deletes, abandoned>>

(* The predecessor of a renewed lease is given back; it stays held while   *)
(* that has not succeeded.                                                 *)
EarlierKinds(o) == {l \in owner[o].held : l.issued < time}     \* mutant: the current lease may be among them
Outdated(o) == owner[o].held \ {owner[o].primary, owner[o].marker}

ReleaseOld(o) ==
    /\ Running(o)
    /\ \E l \in Outdated(o) :
         /\ leases' = leases \ {l}
         /\ owner' = [owner EXCEPT ![o].held = @ \ {l}]
    /\ UNCHANGED <<time, clock, uploads, survey, deletes, abandoned, events>>

------------------------------------------------------------------------------
(* Clean-up.                                                               *)

(* place_marker, once the candidates are known.                            *)
PlaceMarker(o) ==
    /\ owner[o].step = "working"
    /\ owner[o].mode = "cleanup"
    /\ owner[o].making = NoLease
    /\ current_limit(o)
    /\ BeginLease(o, "Deleting", [owner[o] EXCEPT !.step = "marking"])
    /\ UNCHANGED <<time, clock, leases, survey, deletes, abandoned, events>>

(* A candidate is deleted, directly after a look at the limits.  The       *)
(* storage may carry the request out until the margin has passed.          *)
Dispatch(o) ==
    /\ owner[o].step = "batch"
    /\ ~owner[o].deleting
    /\ current_limit(o)
    /\ owner' = [owner EXCEPT ![o].deleting = TRUE]
    /\ deletes' = deletes \cup {[by |-> o, until |-> time + SAFETY_MARGIN, restarted |-> FALSE]}
    /\ UNCHANGED <<time, clock, leases, uploads, survey, abandoned, events>>

(* The storage has deleted the object and the owner hears of it.  The next *)
(* object of the batch follows, or the next batch with its own recheck.    *)
Deleted(o) ==
    \E x \in deletes, next \in {"batch", "marked"} :
      /\ owner[o].step = "batch" /\ owner[o].deleting
      /\ x.by = o /\ ~x.restarted
      /\ deletes' = deletes \ {x}
      /\ owner' = [owner EXCEPT ![o].deleting = FALSE, ![o].step = next]
      /\ UNCHANGED <<time, clock, leases, uploads, survey, abandoned, events>>

(* The storage deletes an object whose sender no longer waits.             *)
DeleteLands(x) ==
    /\ x \in deletes
    /\ deletes' = deletes \ {x}
    /\ UNCHANGED <<time, clock, leases, uploads, owner, survey, abandoned, events>>

(* The process dies with every job in it.  The next one reads the ledger:  *)
(* what is recorded there was abandoned.  The epochs of its clock are      *)
(* numbered on from those of its predecessor, from `process` onwards.      *)
Restart(d) ==
    LET Jobs == {o \in Owners : Host[o] = d} IN
    /\ Event
    /\ clock' = [clock EXCEPT ![d] =
                    [offset |-> @.offset, verified |-> Never, foreground |-> TRUE,
                     epoch |-> @.epoch + 1, process |-> @.epoch + 1]]
    /\ owner' = [o \in Owners |-> IF o \in Jobs THEN NoOwner("idle", owner[o].mode) ELSE owner[o]]
    /\ survey' = [o \in Owners |-> IF o \in Jobs THEN NoSurvey ELSE survey[o]]
    /\ deletes' = {IF x.by \in Jobs THEN [x EXCEPT !.restarted = TRUE] ELSE x : x \in deletes}
    /\ abandoned' = [abandoned EXCEPT ![d] = @ \cup
          {l \in leases \cup uploads : Host[l.owner] = d /\ l.epoch >= clock[d].process}]
    /\ UNCHANGED <<time, leases, uploads>>

------------------------------------------------------------------------------
Next ==
    \/ Tick
    \/ \E d \in Devices : Observe(d) \/ ClockBreaks(d) \/ Restart(d)
    \/ \E l \in uploads : Land(l)
    \/ \E x \in deletes : DeleteLands(x)
    \/ \E o \in Owners :
         \/ Admit(o) \/ Confirm(o) \/ GiveUpLease(o)
         \/ Survey(o) \/ Proceed(o) \/ Yield(o)
         \/ Renew(o) \/ ReleaseOld(o) \/ Close(o)
         \/ PlaceMarker(o) \/ Dispatch(o) \/ Deleted(o)

Spec == Init /\ [][Next]_vars

------------------------------------------------------------------------------
(* Properties.                                                             *)

TypeOK ==
    /\ time \in Nat
    /\ clock \in [Devices -> ClockState]
    /\ leases \subseteq Lease /\ uploads \subseteq Lease
    /\ owner \in [Owners -> OwnerState]
    /\ survey \in [Owners -> [at : Nat, found : SUBSET Lease] \cup {NoSurvey}]
    /\ deletes \subseteq [by : Owners, until : Nat, restarted : BOOLEAN]
    /\ abandoned \in [Devices -> SUBSET Lease]
    /\ events \in Nat

(* The owner may go on with its work by its own account, and its lease was *)
(* written under a clock within the error the protocol allows for.  A job  *)
(* other than a clean-up may be admitted with any clock; its lease then    *)
(* says nothing reliable, and nothing is claimed for it.                   *)
Protected(o) ==
    /\ Running(o)
    /\ check_control(o, FALSE)
    /\ WithinError(owner[o].primary.offset)

Compatible(m, n) == {m, n} \in {{"shared"}, {"shared", "backup"}}

(* However uploads are delayed, lost or answered late, clocks break and    *)
(* devices restart: two jobs are at work together only if one is shared    *)
(* work and the other is no clean-up.                                      *)
ProtectedJobsAreCompatible ==
    \A o, p \in Owners :
        o # p /\ Protected(o) /\ Protected(p) => Compatible(owner[o].mode, owner[p].mode)

(* While the storage may still carry out a DELETE that a clean-up sent, no *)
(* other job is at work, also when the clean-up has long given up waiting  *)
(* for the answer.                                                         *)
DeletesMeetNoOtherJob ==
    \A x \in deletes, o \in Owners : ~x.restarted /\ o # x.by => ~Protected(o)

(* Nobody takes away the lease that an admitted job works under.           *)
WorkingLeasesStayListed ==
    \A o \in Owners : Running(o) =>
        owner[o].primary \in leases /\ (owner[o].marker # NoLease => owner[o].marker \in leases)
=============================================================================
