---------------------------- MODULE ReviewScheduler ----------------------------
(***************************************************************************)
(* The coordinators of agent priority reviews                              *)
(* (apps/radar/server/agent-coordinator.ts) of every application instance, *)
(* with the routes that create and cancel a review.  An instance queues    *)
(* reviews per owner, dispatches them fairly to at most Concurrency        *)
(* worker fibers, one per owner, recovers queued rows and fails expired    *)
(* ones.  A worker's protocol races a heartbeat that renews its lease.     *)
(*                                                                         *)
(* Between two asynchronous operations Effect code runs undisturbed, so    *)
(* such a stretch is one step.  Only dispatch(), which runs at the end of  *)
(* many operations, and the loop of recovery have steps of their own, one  *)
(* per review; nothing else happens until they are over (turn).            *)
(***************************************************************************)
EXTENDS ReviewRows, Sequences, FiniteSets

CONSTANTS Instance,       \* application processes sharing the database
          Owner,          \* browser sessions
          OwnerOf,        \* the owner of each review
          Concurrency,    \* agentReviewGlobalConcurrency
          PerOwnerLimit,  \* agentReviewPerOwnerQueueLimit
          GlobalLimit,    \* agentReviewGlobalQueueLimit
          Cancellable,    \* bound: the reviews somebody may cancel
          MaxMishaps      \* bound on crashes, shutdowns, failed calls, stalls

ASSUME SchedulerAssumption ==
  /\ OwnerOf \in [Review -> Owner]
  /\ Cancellable \subseteq Review
  /\ None \notin Instance \cup (Instance \X {"dispatching", "recovering"})
  /\ {Concurrency, PerOwnerLimit, GlobalLimit} \subseteq Nat \ {0}
  /\ MaxMishaps \in Nat

VARIABLES request,     \* each createPriorityReview request
          cancel,      \* each cancelPriorityReview request
          pending,     \* per instance and owner, the queued reviews
          ownerOrder,  \* per instance, the rotation of owners
          active,      \* per instance, the dispatched reviews
          activeOwners, \* per instance, their owners
          cancelled,   \* per instance, active reviews that were cancelled
          turn,        \* the synchronous stretch under way, if it has more steps
          worker,      \* per instance and review, its worker fiber
          recovery,    \* per instance, what recovery listed; None while it sleeps
          stopping,    \* per instance, what a shutdown interrupts; None while up
          mishaps      \* crashes, shutdowns, failed calls and stalls so far

schedulerVars == <<pending, ownerOrder, active, activeOwners, cancelled>>
vars == <<reviews, overlays, request, cancel, schedulerVars, turn, worker,
          recovery, stopping, mishaps>>

\* A worker: where its protocol is, its token and the expiry in leaseRef, and the
\* stored expiry on its way back to the heartbeat, None while that sleeps.
Worker == [pc : {"idle", "claiming", "working", "completing", "completed",
                 "failing", "releasing"},
           token : Token \cup {None}, lease : 0..MaxRenewals,
           beat : (0..MaxRenewals) \cup {None}]
IdleWorker == [pc |-> "idle", token |-> None, lease |-> 0, beat |-> None]
At(pc) == [IdleWorker EXCEPT !.pc = pc]

NoQueue == [o \in Owner |-> <<>>]

\* The instance and what it is about.
Dispatching(i) == <<i, "dispatching">>
Recovering(i) == <<i, "recovering">>

\* A request before it is made and after it is answered.
Answered(pc) == [pc |-> pc, at |-> None]
CancelAnswered(pc) == [pc |-> pc, at |-> None, active |-> FALSE]

Up(i) == stopping[i] = None

Init ==
  /\ RowsInit
  /\ request = [r \in Review |-> Answered("idle")]
  /\ cancel = [r \in Review |-> CancelAnswered("idle")]
  /\ pending = [i \in Instance |-> NoQueue]
  /\ ownerOrder = [i \in Instance |-> <<>>]
  /\ active = [i \in Instance |-> {}]
  /\ activeOwners = [i \in Instance |-> {}]
  /\ cancelled = [i \in Instance |-> {}]
  /\ turn = None
  /\ worker = [i \in Instance |-> [r \in Review |-> IdleWorker]]
  /\ recovery = [i \in Instance |-> None]
  /\ stopping = [i \in Instance |-> None]
  /\ mishaps = 0

Mishap == mishaps < MaxMishaps /\ mishaps' = mishaps + 1

\* randomUUIDv7: a token nobody has.
UnusedTokens ==
  Token \ ({reviews[r].token : r \in Review}
             \cup {worker[i][r].token : i \in Instance, r \in Review})
NewToken == CHOOSE tok \in UnusedTokens : TRUE

-----------------------------------------------------------------------------
(***************************************************************************)
(* The scheduler state.                                                    *)
(***************************************************************************)

Elements(seq) == {seq[k] : k \in DOMAIN seq}
Queued(i) == UNION {Elements(pending[i][o]) : o \in Owner}
Existing(i) == active[i] \cup Queued(i)

\* pendingCount.
PendingCount(i) ==
  Cardinality(UNION {{o} \X DOMAIN pending[i][o] : o \in Owner})

WithPending(i) == {o \in Owner : pending[i][o] # <<>>}

\* Array.filter: the elements of a sequence that are in S, in their order.  It is
\* SelectSeq without its recursion: element n is the one in the n-th place kept.
Kept(seq, S) == {k \in DOMAIN seq : seq[k] \in S}
Place(kept, k) == Cardinality({j \in kept : j <= k})
Filter(seq, S) ==
  LET kept == Kept(seq, S)
  IN [n \in 1..Cardinality(kept) |-> seq[CHOOSE k \in kept : Place(kept, k) = n]]

\* filter(item => item.review.id !== reviewId).
Without(seq, r) == Filter(seq, Elements(seq) \ {r})

\* Append a review to its owner's queue and the owner to the rotation.
AddPending(i, r) ==
  LET o == OwnerOf[r] IN
  /\ pending' = [pending EXCEPT ![i][o] = Append(@, r)]
  /\ ownerOrder' = [ownerOrder EXCEPT
       ![i] = IF o \in Elements(@) THEN @ ELSE Append(@, o)]
  /\ UNCHANGED <<active, activeOwners, cancelled>>

\* selectFairOwner: the first owner of the rotation with a queued and without an
\* active review.
Eligible(i, o) == pending[i][o] # <<>> /\ o \notin activeOwners[i]
Selected(i, o) ==
  \E k \in DOMAIN ownerOrder[i] :
    /\ ownerOrder[i][k] = o
    /\ Eligible(i, o)
    /\ \A j \in 1..(k - 1) : ~Eligible(i, ownerOrder[i][j])

\* Mutation of ServedOrder: the owner keeps its place.
ServedOrderKept(i, o) ==
  Filter(ownerOrder[i], WithPending(i) \ (IF Len(pending[i][o]) = 1 THEN {o} ELSE {}))

\* The rotation after owner o was served: o is last, if more of its reviews wait.
ServedOrder(i, o) ==
  LET others == Filter(ownerOrder[i], WithPending(i) \ {o})
  IN IF Tail(pending[i][o]) = <<>> THEN others ELSE Append(others, o)

\* One turn of dispatch(): dequeueFair, and the fork of the worker fiber.
Dequeue(i, o) ==
  LET r == Head(pending[i][o]) IN
  /\ Cardinality(active[i]) < Concurrency
  /\ Selected(i, o)
  /\ pending' = [pending EXCEPT ![i][o] = Tail(@)]
  /\ ownerOrder' = [ownerOrder EXCEPT ![i] = ServedOrder(i, o)]
  /\ active' = [active EXCEPT ![i] = @ \cup {r}]
  /\ activeOwners' = [activeOwners EXCEPT ![i] = @ \cup {o}]
  /\ worker' = [worker EXCEPT ![i][r] = At("claiming")]
  /\ UNCHANGED <<rowVars, request, cancel, cancelled, turn, recovery, stopping, mishaps>>

\* dequeueFair finds nothing to dispatch.
DispatchEnds(i) ==
  /\ Cardinality(active[i]) >= Concurrency \/ \A o \in Owner : ~Selected(i, o)
  /\ turn' = None
  /\ UNCHANGED <<rowVars, request, cancel, schedulerVars, worker, recovery,
                 stopping, mishaps>>

-----------------------------------------------------------------------------
(***************************************************************************)
(* The routes: createPriorityReview, then coordinator.enqueue.             *)
(***************************************************************************)

\* store.createReview: the row is inserted, or the call fails, before or after.
CreateReview(i, r) ==
  /\ Up(i)
  /\ request[r].pc = "idle"
  /\ \/ /\ CreateRow(r)
        /\ \/ request' = [request EXCEPT ![r] = [pc |-> "created", at |-> i]] /\ UNCHANGED mishaps
           \/ request' = [request EXCEPT ![r] = Answered("failed")] /\ Mishap
     \/ /\ request' = [request EXCEPT ![r] = Answered("failed")]
        /\ Mishap
        /\ UNCHANGED rowVars
  /\ UNCHANGED <<cancel, schedulerVars, turn, worker, recovery, stopping>>

\* Mutation of Enqueue: it does not look for the review first.
EnqueueUnchecked(r) ==
  LET i == request[r].at IN
  /\ request[r].pc = "created"
  /\ AddPending(i, r)
  /\ turn' = Dispatching(i)
  /\ request' = [request EXCEPT ![r] = Answered("accepted")]
  /\ UNCHANGED <<rowVars, cancel, worker, recovery, stopping, mishaps>>

\* enqueue: a duplicate, no room, or accepted and dispatched.
Enqueue(r) ==
  LET i == request[r].at
      full == \/ Len(pending[i][OwnerOf[r]]) >= PerOwnerLimit
              \/ PendingCount(i) >= GlobalLimit
  IN
  /\ request[r].pc = "created"
  /\ \/ /\ r \in Existing(i)
        /\ request' = [request EXCEPT ![r] = Answered("duplicate")]
        /\ UNCHANGED <<schedulerVars, turn>>
     \/ /\ r \notin Existing(i) /\ full
        /\ request' = [request EXCEPT ![r].pc = "rejecting"]
        /\ UNCHANGED <<schedulerVars, turn>>
     \/ /\ r \notin Existing(i) /\ ~full
        /\ AddPending(i, r)
        /\ turn' = Dispatching(i)
        /\ request' = [request EXCEPT ![r] = Answered("accepted")]
  /\ UNCHANGED <<rowVars, cancel, worker, recovery, stopping, mishaps>>

\* No room: failReviewIfActive, then the error; or the call fails.
Reject(r) ==
  /\ request[r].pc = "rejecting"
  /\ \/ /\ FailRow(r)
        /\ \/ request' = [request EXCEPT ![r] = Answered("rejected")] /\ UNCHANGED mishaps
           \/ request' = [request EXCEPT ![r] = Answered("failed")] /\ Mishap
     \/ /\ request' = [request EXCEPT ![r] = Answered("failed")]
        /\ Mishap
        /\ UNCHANGED rowVars
  /\ UNCHANGED <<cancel, schedulerVars, turn, worker, recovery, stopping>>

\* cancelPriorityReview, at any instance, by the owner who knows the review.
Cancel(i, r) ==
  LET o == OwnerOf[r]
      mine == r \in active[i]
  IN
  /\ Up(i)
  /\ request[r].pc = "accepted"
  /\ r \in Cancellable
  /\ cancel[r].pc = "idle"
  /\ pending' = [pending EXCEPT ![i][o] = Without(@, r)]
  /\ ownerOrder' = [ownerOrder EXCEPT
       ![i] = Filter(@, WithPending(i)')]
  /\ cancelled' = [cancelled EXCEPT ![i] = IF mine THEN @ \cup {r} ELSE @]
  /\ cancel' = [cancel EXCEPT ![r] = [pc |-> "storing", at |-> i, active |-> mine]]
  /\ UNCHANGED <<rowVars, request, active, activeOwners, turn, worker,
                 recovery, stopping, mishaps>>

\* store.cancelReview.
CancelStored(r) ==
  /\ cancel[r].pc = "storing"
  /\ \/ /\ FailRow(r)
        /\ \/ cancel' = [cancel EXCEPT ![r].pc = "stored"] /\ UNCHANGED mishaps
           \/ cancel' = [cancel EXCEPT ![r] = CancelAnswered("failed")] /\ Mishap
     \/ /\ cancel' = [cancel EXCEPT ![r] = CancelAnswered("failed")]
        /\ Mishap
        /\ UNCHANGED rowVars
  /\ UNCHANGED <<request, schedulerVars, turn, worker, recovery, stopping>>

\* Interrupt a worker fiber: whatever it does, only its release is left.
Interrupted(w) == IF w.pc = "idle" THEN w ELSE At("releasing")

\* If the review was active here, interrupt its fiber; then dispatch.
CancelEnds(r) ==
  LET i == cancel[r].at IN
  /\ cancel[r].pc = "stored"
  /\ worker' = [worker EXCEPT ![i][r] = IF cancel[r].active THEN Interrupted(@) ELSE @]
  /\ turn' = Dispatching(i)
  /\ cancel' = [cancel EXCEPT ![r] = CancelAnswered("done")]
  /\ UNCHANGED <<rowVars, request, schedulerVars, recovery, stopping, mishaps>>

-----------------------------------------------------------------------------
(***************************************************************************)
(* performReview and the end of its fiber.                                 *)
(***************************************************************************)

\* What a step of a worker leaves alone, whatever becomes of the row.
WorkerStep(i, r, w) ==
  /\ worker' = [worker EXCEPT ![i][r] = w]
  /\ UNCHANGED <<request, cancel, schedulerVars, turn, recovery, stopping>>

\* store.claimReview: claimed; refused; or failed, before or after it took effect.
Claim(i, r) ==
  /\ worker[i][r].pc = "claiming"
  /\ \/ /\ UnusedTokens # {}
        /\ ClaimRow(r, NewToken)
        /\ \/ /\ WorkerStep(i, r, [At("working") EXCEPT !.token = NewToken])
              /\ UNCHANGED mishaps
           \/ WorkerStep(i, r, At("failing")) /\ Mishap
     \/ /\ ~Claimable(r)
        /\ WorkerStep(i, r, At("failing"))
        /\ UNCHANGED <<rowVars, mishaps>>
     \/ /\ WorkerStep(i, r, At("failing"))
        /\ Mishap
        /\ UNCHANGED rowVars

\* renewCurrentReviewLease by the protocol; a step that failed is tried once more.
Renew(i, r) ==
  LET w == worker[i][r] IN
  /\ w.pc = "working"
  /\ \/ /\ RenewRow(r, w.token)
        /\ WorkerStep(i, r, [w EXCEPT !.lease = reviews'[r].expiry])
        /\ UNCHANGED mishaps
     \/ /\ ~HeldBy(r, w.token)
        /\ WorkerStep(i, r, At("failing"))
        /\ UNCHANGED <<rowVars, mishaps>>
     \/ /\ WorkerStep(i, r, At("failing"))
        /\ Mishap
        /\ UNCHANGED rowVars

\* The review is cancelled, its scan not verified, its profile not connected, or
\* the provider's answers not valid.
ProtocolFails(i, r) ==
  /\ worker[i][r].pc = "working"
  /\ WorkerStep(i, r, At("failing"))
  /\ UNCHANGED <<rowVars, mishaps>>

\* The overlay is complete: read leaseRef.
ProtocolEnds(i, r) ==
  /\ worker[i][r].pc = "working"
  /\ WorkerStep(i, r, [worker[i][r] EXCEPT !.pc = "completing"])
  /\ UNCHANGED <<rowVars, mishaps>>

\* completeReviewWithOverlay, with the lease read before.
Complete(i, r) ==
  LET w == worker[i][r]
      done == [w EXCEPT !.pc = "completed"]
  IN
  /\ w.pc = "completing"
  /\ \/ /\ CompleteRow(r, w.token, w.lease)
        /\ \/ WorkerStep(i, r, done) /\ UNCHANGED mishaps
           \/ WorkerStep(i, r, At("failing")) /\ Mishap
     \/ /\ ~Completable(r, w.token, w.lease)
        /\ WorkerStep(i, r, At("failing"))
        /\ UNCHANGED <<rowVars, mishaps>>
     \/ /\ WorkerStep(i, r, At("failing"))
        /\ Mishap
        /\ UNCHANGED rowVars

\* The protocol wins the race.
ProtocolWins(i, r) ==
  /\ worker[i][r].pc = "completed"
  /\ WorkerStep(i, r, At("releasing"))
  /\ UNCHANGED <<rowVars, mishaps>>

\* catchCause: failReviewIfActive, whose failure is ignored.
FailReview(i, r) ==
  /\ worker[i][r].pc = "failing"
  /\ WorkerStep(i, r, At("releasing"))
  /\ \/ FailRow(r) /\ UNCHANGED mishaps
     \/ Mishap /\ UNCHANGED rowVars

\* Mutation of Release: the owner stays active.
ReleaseReviewOnly(i, r) ==
  /\ worker[i][r].pc = "releasing"
  /\ worker' = [worker EXCEPT ![i][r] = IdleWorker]
  /\ active' = [active EXCEPT ![i] = @ \ {r}]
  /\ cancelled' = [cancelled EXCEPT ![i] = @ \ {r}]
  /\ turn' = Dispatching(i)
  /\ UNCHANGED <<rowVars, request, cancel, pending, ownerOrder, activeOwners,
                 recovery, stopping, mishaps>>

\* ensuring: releaseReview, then dispatch().
Release(i, r) ==
  /\ worker[i][r].pc = "releasing"
  /\ worker' = [worker EXCEPT ![i][r] = IdleWorker]
  /\ active' = [active EXCEPT ![i] = @ \ {r}]
  /\ activeOwners' = [activeOwners EXCEPT ![i] = @ \ {OwnerOf[r]}]
  /\ cancelled' = [cancelled EXCEPT ![i] = @ \ {r}]
  /\ turn' = Dispatching(i)
  /\ UNCHANGED <<rowVars, request, cancel, pending, ownerOrder, recovery,
                 stopping, mishaps>>

-----------------------------------------------------------------------------
(***************************************************************************)
(* The heartbeat, in race with the protocol.                               *)
(***************************************************************************)

Beating(i, r) == worker[i][r].pc \in {"working", "completing", "completed"}

\* After a minute the lease is renewed, unless the review is cancelled; that, a
\* refusal or a failed call ends the race.
BeatRenews(i, r) ==
  LET w == worker[i][r] IN
  /\ Beating(i, r)
  /\ w.beat = None
  /\ \/ /\ r \notin cancelled[i]
        /\ RenewRow(r, w.token)
        /\ \/ /\ WorkerStep(i, r, [w EXCEPT !.beat = reviews'[r].expiry])
              /\ UNCHANGED mishaps
           \/ WorkerStep(i, r, At("failing")) /\ Mishap
     \/ /\ r \in cancelled[i] \/ ~HeldBy(r, w.token)
        /\ WorkerStep(i, r, At("failing"))
        /\ UNCHANGED <<rowVars, mishaps>>

\* leaseRef keeps the later of the two expiries; a completion has read it already.
BeatAnswered(i, r) ==
  LET w == worker[i][r]
      later == IF w.pc = "working" /\ w.beat > w.lease THEN w.beat ELSE w.lease
  IN
  /\ Beating(i, r)
  /\ w.beat # None
  /\ WorkerStep(i, r, [w EXCEPT !.lease = later, !.beat = None])
  /\ UNCHANGED <<rowVars, mishaps>>

-----------------------------------------------------------------------------
(***************************************************************************)
(* The recovery and expiry fibers.                                         *)
(***************************************************************************)

\* listQueuedReviews; a failed call is retried a minute later.
RecoveryLists(i) ==
  /\ recovery[i] = None
  /\ recovery' = [recovery EXCEPT ![i] = {r \in Review : reviews[r].status = "queued"}]
  /\ UNCHANGED <<rowVars, request, cancel, schedulerVars, turn, worker, stopping, mishaps>>

\* The list arrives; by now it may be out of date.
RecoveryResumes(i) ==
  /\ recovery[i] # None
  /\ turn' = Recovering(i)
  /\ UNCHANGED <<rowVars, request, cancel, schedulerVars, worker, recovery,
                 stopping, mishaps>>

\* enqueueRecoveredReview, in any order (the code: oldest first): unknown reviews
\* are queued while there is room, without regard to the limit per owner.
RecoveryQueues(i, r) ==
  /\ r \in recovery[i]
  /\ recovery' = [recovery EXCEPT ![i] = @ \ {r}]
  /\ IF r \in Existing(i) \/ PendingCount(i) >= GlobalLimit
     THEN UNCHANGED schedulerVars
     ELSE AddPending(i, r)
  /\ UNCHANGED <<rowVars, request, cancel, turn, worker, stopping, mishaps>>

\* Then dispatch, and sleep.
RecoverySleeps(i) ==
  /\ recovery[i] = {}
  /\ recovery' = [recovery EXCEPT ![i] = None]
  /\ turn' = Dispatching(i)
  /\ UNCHANGED <<rowVars, request, cancel, schedulerVars, worker, stopping, mishaps>>

\* failExpiredReviews, at startup and every minute; a failed call is ignored.
Expire ==
  /\ ExpireRows
  /\ UNCHANGED <<request, cancel, schedulerVars, turn, worker, recovery,
                 stopping, mishaps>>

-----------------------------------------------------------------------------
(***************************************************************************)
(* Shutdown, crash and time.                                               *)
(***************************************************************************)

Reset(i) ==
  /\ request' = [r \in Review |->
       IF request[r].at = i /\ request[r].pc \in {"created", "rejecting"}
       THEN Answered("failed") ELSE request[r]]
  /\ cancel' = [r \in Review |->
       IF cancel[r].at = i /\ cancel[r].pc \in {"storing", "stored"}
       THEN CancelAnswered("failed") ELSE cancel[r]]
  /\ pending' = [pending EXCEPT ![i] = NoQueue]
  /\ ownerOrder' = [ownerOrder EXCEPT ![i] = <<>>]
  /\ active' = [active EXCEPT ![i] = {}]
  /\ activeOwners' = [activeOwners EXCEPT ![i] = {}]
  /\ cancelled' = [cancelled EXCEPT ![i] = {}]
  /\ turn' = None
  /\ worker' = [worker EXCEPT ![i] = [r \in Review |-> IdleWorker]]
  /\ recovery' = [recovery EXCEPT ![i] = None]
  /\ stopping' = [stopping EXCEPT ![i] = None]

\* The process dies and starts again.
Crash(i) ==
  /\ Mishap
  /\ Reset(i)
  /\ UNCHANGED rowVars

\* The finalizer of the layer interrupts every worker fiber it finds.
ShutdownBegins(i) ==
  /\ Up(i)
  /\ Mishap
  /\ stopping' = [stopping EXCEPT ![i] = active[i]]
  /\ worker' = [worker EXCEPT ![i] = [r \in Review |-> Interrupted(worker[i][r])]]
  /\ UNCHANGED <<rowVars, request, cancel, schedulerVars, turn, recovery>>

\* When those fibers ended, it fails what is active by then, and the process ends.
ShutdownEnds(i) ==
  /\ ~Up(i)
  /\ \A r \in stopping[i] : worker[i][r].pc = "idle"
  /\ reviews' = [r \in Review |-> IF r \in active[i] /\ Failable(r)
                                   THEN Unleased("failed")
                                   ELSE reviews[r]]
  /\ Reset(i)
  /\ UNCHANGED <<overlays, mishaps>>

Attended(r) ==
  /\ reviews[r].expiry < MaxRenewals
  /\ \E i \in Instance : Beating(i, r) /\ worker[i][r].token = reviews[r].token

\* A lease lapses: nobody renews it, the deadline is reached, or the worker stalls.
Lapse(r) ==
  /\ LapseRow(r)
  /\ IF Attended(r) THEN Mishap ELSE UNCHANGED mishaps
  /\ UNCHANGED <<request, cancel, schedulerVars, turn, worker, recovery, stopping>>

-----------------------------------------------------------------------------

Route(r) == Enqueue(r) \/ Reject(r) \/ CancelStored(r) \/ CancelEnds(r)
Protocol(i, r) ==
  \/ Claim(i, r) \/ Renew(i, r) \/ ProtocolFails(i, r) \/ ProtocolEnds(i, r)
  \/ Complete(i, r) \/ ProtocolWins(i, r) \/ FailReview(i, r) \/ Release(i, r)
Heartbeat(i, r) == BeatRenews(i, r) \/ BeatAnswered(i, r)
Recover(i) == RecoveryLists(i) \/ RecoveryResumes(i)

\* The rest of the synchronous stretch at instance i.
Continue(i) ==
  \/ turn = Dispatching(i) /\ ((\E o \in Owner : Dequeue(i, o)) \/ DispatchEnds(i))
  \/ turn = Recovering(i) /\ ((\E r \in Review : RecoveryQueues(i, r)) \/ RecoverySleeps(i))

Begin ==
  \/ \E r \in Review : Route(r) \/ Lapse(r)
  \/ \E i \in Instance :
       \/ \E r \in Review : \/ CreateReview(i, r)
                            \/ Cancel(i, r)
                            \/ Protocol(i, r)
                            \/ Heartbeat(i, r)
       \/ Recover(i)
       \/ Crash(i)
       \/ ShutdownBegins(i)
       \/ ShutdownEnds(i)
  \/ Expire

Next ==
  \/ \E i \in Instance : Continue(i)
  \/ turn = None /\ Begin

Spec == Init /\ [][Next]_vars

-----------------------------------------------------------------------------
(***************************************************************************)
(* Properties.                                                             *)
(***************************************************************************)

\* Every variable has its type.
TypeOK ==
  /\ reviews \in [Review -> Row]
  /\ overlays \subseteq Review
  /\ request \in [Review -> [pc : {"idle", "created", "accepted", "duplicate",
                                   "rejecting", "rejected", "failed"},
                             at : Instance \cup {None}]]
  /\ cancel \in [Review -> [pc : {"idle", "storing", "stored", "done", "failed"},
                            at : Instance \cup {None}, active : BOOLEAN]]
  /\ pending \in [Instance -> [Owner -> Seq(Review)]]
  /\ ownerOrder \in [Instance -> Seq(Owner)]
  /\ active \in [Instance -> SUBSET Review]
  /\ activeOwners \in [Instance -> SUBSET Owner]
  /\ cancelled \in [Instance -> SUBSET Review]
  /\ turn \in {None} \cup (Instance \X {"dispatching", "recovering"})
  /\ worker \in [Instance -> [Review -> Worker]]
  /\ recovery \in [Instance -> (SUBSET Review) \cup {None}]
  /\ stopping \in [Instance -> (SUBSET Review) \cup {None}]
  /\ mishaps \in 0..MaxMishaps

\* No worker fiber runs unaccounted for: a review is active exactly while its
\* worker exists, its owner is active exactly then, no owner has two, and only
\* active reviews stay marked as cancelled.
WorkersAccounted ==
  \A i \in Instance :
    /\ active[i] = {r \in Review : worker[i][r].pc # "idle"}
    /\ activeOwners[i] = {OwnerOf[r] : r \in active[i]}
    /\ \A r, q \in active[i] : OwnerOf[r] = OwnerOf[q] => r = q
    /\ cancelled[i] \subseteq active[i]

\* The rotation and the queues fit: exactly the owners with queued reviews take
\* turns, once each, and no review is queued twice or while it is active,
\* whichever of a request, a cancel and recovery touched it last.
QueuesAccounted ==
  \A i \in Instance :
    /\ Elements(ownerOrder[i]) = WithPending(i)
    /\ Len(ownerOrder[i]) = Cardinality(WithPending(i))
    /\ PendingCount(i) = Cardinality(Queued(i))
    /\ \A o \in Owner : \A r \in Elements(pending[i][o]) : OwnerOf[r] = o
    /\ active[i] \cap Queued(i) = {}

\* Owners take turns: while two owners wait, the one behind never gets ahead of the
\* other, and an owner that was just served is behind all who wait.
Before(order, p, o) ==
  \E j, k \in DOMAIN order : j < k /\ order[j] = p /\ order[k] = o
Served(i) == {OwnerOf[r] : r \in active'[i] \ active[i]}
TurnsRotate ==
  [][\A i \in Instance : \A p, o \in WithPending(i) :
       /\ pending'[i][p] # <<>> /\ pending'[i][o] # <<>> /\ p # o
       /\ p \notin Served(i)
       /\ o \in Served(i) \/ Before(ownerOrder[i], p, o)
       => Before(ownerOrder'[i], p, o)]_vars

\* A review is at its provider from one worker only, in all instances together.
OneRunPerReview ==
  \A r \in Review, i, j \in Instance :
    Beating(i, r) /\ Beating(j, r) => i = j

\* A review has an overlay exactly when it is completed, and a lease exactly when
\* it is running.
OverlayWithCompletion ==
  \A r \in Review :
    /\ r \in overlays <=> reviews[r].status = "completed"
    /\ reviews[r].token # None <=> reviews[r].status = "running"

\* What a caller was told stays true: a review reported as cancelled or as refused
\* for lack of room never runs or waits again.
AnswersHold ==
  \A r \in Review :
    cancel[r].pc \in {"stored", "done"} \/ request[r].pc = "rejected"
      => reviews[r].status \in Ended

\* An ended review never changes again, whatever late worker, sweep, cancel or
\* recovery still acts on it.
EndedForGood ==
  [][\A r \in Review : reviews[r].status \in Ended => reviews'[r] = reviews[r]]_vars

-----------------------------------------------------------------------------
(***************************************************************************)
(* Liveness.  Fibers go on, a provider run ends (its process has a time    *)
(* limit), the sweep and the recovery come round, time passes.  A review   *)
(* takes finitely many of the steps in Progress, so fairness to all of     *)
(* them together is fairness to each.  It is strong because a synchronous  *)
(* stretch holds all of them up for a moment.                              *)
(***************************************************************************)

Progress ==
  \/ Expire
  \/ \E r \in Review : Route(r) \/ (Lapse(r) /\ ~Attended(r))
  \/ \E i \in Instance :
       \/ ShutdownEnds(i)
       \/ \E r \in Review : Protocol(i, r) /\ ~Renew(i, r)

FairSpec ==
  /\ Spec
  /\ SF_vars(turn = None /\ Progress)
  /\ \A i \in Instance : WF_vars(Continue(i)) /\ SF_vars(turn = None /\ Recover(i))

\* Every stored review ends, completed or failed, through crashes, shutdowns,
\* lost replies and stalls.
EveryReviewEnds ==
  \A r \in Review : (reviews[r].status \in Active) ~> (reviews[r].status \in Ended)
=============================================================================
