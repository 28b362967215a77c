--------------------------- MODULE ScanRunnerProofs ---------------------------
(***************************************************************************)
(* What the scan coordinators promise for any number of instances, scans,  *)
(* leases and mishaps and any queue bound.  The assumptions are            *)
(* RowsAssumption and RunnerAssumption: the null value is none of the      *)
(* identifiers, a queue has room for at least one scan, and the bounds are *)
(* numbers.                                                                *)
(***************************************************************************)
EXTENDS ScanRunner, ScanRowsProofs, SequenceTheorems, FiniteSetTheorems, TLAPS

-----------------------------------------------------------------------------
(***************************************************************************)
(* The inductive invariant.                                                *)
(***************************************************************************)

(* A request that has not begun has no instance and no createdAt; one under  *)
(* way has both.                                                             *)
RequestAgrees(s) ==
  /\ api[s].pc = "idle" => api[s].at = None /\ api[s].createdAt = 0
  /\ api[s].pc \in {"inserting", "created", "releasing"} =>
       api[s].at \in Instance /\ api[s].createdAt > 0

(* What a queue, a poller and a worker have in hand while they are where     *)
(* they are.                                                                 *)
IsUnclaimed(it) == it.token = None /\ it = Unclaimed(it.scan)
IsClaim(it) == it.token # None

Working == {"renewing", "starting", "analyzing", "completing", "completed", "failing"}

QueueAgrees(q) == \A k \in DOMAIN q : IsUnclaimed(q[k]) \/ IsClaim(q[k])

PollerAgrees(p) ==
  \/ p.pc \in {"idle", "claiming"} /\ p.hand = <<>>
  \/ p.pc = "offering" /\ Len(p.hand) = 1 /\ IsClaim(p.hand[1])

WorkerAgrees(w) ==
  \/ w.pc \in {"idle", "dead"} /\ w.hand = <<>> /\ ~w.own
  \/ w.pc = "claiming" /\ w.own /\ Len(w.hand) = 1 /\ IsUnclaimed(w.hand[1])
  \/ w.pc \in Working /\ Len(w.hand) = 1 /\ IsClaim(w.hand[1])

Shape ==
  /\ TypeOK
  /\ \A s \in Scan : RequestAgrees(s)
  /\ \A i \in Instance : /\ QueueAgrees(queue[i])
                         /\ PollerAgrees(poller[i])
                         /\ WorkerAgrees(worker[i])

(* Every time a process has read has passed.                                 *)
TimesAgree(i) ==
  /\ poller[i].claimedAt <= clock
  /\ \A it \in ClaimsAt(i) : it.since <= clock
  /\ worker[i].pc = "completing" => worker[i].completedAt \in InHand(i).since..clock

(* No claim is twice in a queue q, a poller's hand p and a worker's hand w.  *)
Once(q) == \A k, l \in DOMAIN q : q[k].token = q[l].token /\ q[k].token # None => k = l
Apart(q, p) == \A k \in DOMAIN q, l \in DOMAIN p : q[k].token = p[l].token => q[k].token = None
OncePerPlace(q, p, w) == Once(q) /\ Apart(q, p) /\ Apart(q, w) /\ Apart(p, w)

ClaimTokens(i) == {it.token : it \in ClaimsAt(i)}

ClaimsOnce ==
  /\ \A i \in Instance : OncePerPlace(queue[i], poller[i].hand, worker[i].hand)
  /\ \A i, j \in Instance : i # j => ClaimTokens(i) \cap ClaimTokens(j) = {}

(* A scan waits without a claim, or is worked on as this instance's own, in  *)
(* one place of the instance its request was made of, and only once that     *)
(* request has queued it.                                                    *)
WaitsIn(q, s) == {k \in DOMAIN q : q[k] = Unclaimed(s)}
OwnIn(w, s) == w.own /\ w.hand[1].scan = s

Entered(i, s) == OwnIn(worker[i], s) \/ WaitsIn(queue[i], s) # {}

EnteredOnce(i, s) ==
  /\ \A k, l \in WaitsIn(queue[i], s) : k = l
  /\ OwnIn(worker[i], s) => WaitsIn(queue[i], s) = {}
  /\ Entered(i, s) => api[s].at = i /\ api[s].pc \in {"releasing", "done"}

RunnerInv ==
  /\ Shape
  /\ \A i \in Instance : TimesAgree(i)
  /\ ClaimsOnce
  /\ \A i \in Instance, s \in Scan : EnteredOnce(i, s)
  /\ AdmissionsAccounted

-----------------------------------------------------------------------------
(***************************************************************************)
(* What one step does to an instance: its queue becomes q, its poller p    *)
(* and its worker w.                                                       *)
(***************************************************************************)

Poller == [pc : {"idle", "claiming", "offering"}, claimedAt : Nat, hand : Seq(Item)]
Worker == [pc : {"idle", "claiming", "renewing", "starting", "analyzing", "completing",
                 "completed", "failing", "dead"},
           hand : Seq(Item), own : BOOLEAN, completedAt : Nat]

(* The claim a store call is about to return, and the transaction that makes *)
(* it.                                                                       *)
NewClaim(s) == [scan |-> s, token |-> NewToken, baseline |-> BaselineFor(s), since |-> clock]

Granted(s) ==
  /\ UnusedTokens # {}
  /\ \/ ClaimRow(s, NewToken, clock)
     \/ \E i \in Instance : ClaimRow(s, NewToken, PollClaimedAt(i))

Becomes(i, q, p, w) ==
  /\ queue' = [queue EXCEPT ![i] = q]
  /\ poller' = [poller EXCEPT ![i] = p]
  /\ worker' = [worker EXCEPT ![i] = w]

WellShaped(q, p, w) ==
  /\ q \in Seq(Item) /\ p \in Poller /\ w \in Worker
  /\ QueueAgrees(q) /\ PollerAgrees(p) /\ WorkerAgrees(w)

Keeps(i, q, p, w) ==
  /\ q = queue[i] /\ p.hand = poller[i].hand
  /\ w.hand = worker[i].hand /\ w.own = worker[i].own
Queues(i, q, p, w) ==
  /\ \E s \in Scan : q = Append(queue[i], Unclaimed(s))
  /\ p = poller[i] /\ w = worker[i]
Polls(i, q, p, w) ==
  /\ \E s \in Scan : Granted(s) /\ p.hand = <<NewClaim(s)>>
  /\ q = queue[i] /\ w = worker[i]
Offers(i, q, p, w) ==
  /\ q = queue[i] \o poller[i].hand /\ p.hand = <<>>
  /\ w = worker[i]
Takes(i, q, p, w) ==
  /\ queue[i] # <<>> /\ q = Tail(queue[i])
  /\ w.hand = <<Head(queue[i])>>
  /\ p = poller[i]
Claims(i, q, p, w) ==
  /\ \E s \in Scan : Granted(s) /\ w.hand = <<NewClaim(s)>>
  /\ q = queue[i] /\ p = poller[i]
Ends(i, q, p, w) ==
  /\ w.hand = <<>>
  /\ \/ q = queue[i] /\ p = poller[i]
     \/ q = <<>> /\ p.hand = <<>>

Moves(i, q, p, w) ==
  /\ Becomes(i, q, p, w)
  /\ WellShaped(q, p, w)
  /\ \/ Keeps(i, q, p, w) \/ Queues(i, q, p, w) \/ Polls(i, q, p, w)
     \/ Offers(i, q, p, w) \/ Takes(i, q, p, w) \/ Claims(i, q, p, w)
     \/ Ends(i, q, p, w)

SomeMove == \E i \in Instance : \E q, p, w : Moves(i, q, p, w)

\* An instance's part of the shape.
LEMMA InstanceShape ==
  ASSUME Shape, NEW i \in Instance
  PROVE  WellShaped(queue[i], poller[i], worker[i])
BY DEF Shape, TypeOK, WellShaped, Poller, Worker

\* A sequence of one item.
LEMMA OneItem ==
  ASSUME NEW it \in Item
  PROVE  /\ <<it>> \in Seq(Item) /\ Len(<<it>>) = 1 /\ <<it>>[1] = it
         /\ DOMAIN <<it>> = {1}
OBVIOUS

\* A scan queued without a claim.
LEMMA UnclaimedType ==
  ASSUME NEW s \in Scan
  PROVE  Unclaimed(s) \in Item /\ IsUnclaimed(Unclaimed(s)) /\ Unclaimed(s).scan = s
         /\ Unclaimed(s).token = None
BY DEF Unclaimed, Item, IsUnclaimed

\* A new lease token is one that nobody has.
LEMMA NewTokenIsNew ==
  ASSUME UnusedTokens # {}
  PROVE  NewToken \in Token /\ NewToken \in UnusedTokens /\ NewToken # None
<1>1. NewToken \in UnusedTokens
  BY DEF NewToken
<1> QED
  BY <1>1, RowsAssumption DEF UnusedTokens

\* A new claim.
LEMMA NewClaimType ==
  ASSUME Shape, NEW s \in Scan, UnusedTokens # {}
  PROVE  NewClaim(s) \in Item /\ IsClaim(NewClaim(s)) /\ NewClaim(s).token = NewToken
<1>1. clock \in Nat /\ BaselineFor(s) \in Scan \cup {None}
  BY BaselineType DEF Shape, TypeOK
<1> QED
  BY <1>1, NewTokenIsNew DEF NewClaim, Item, IsClaim

-----------------------------------------------------------------------------
(***************************************************************************)
(* Every step is one of those moves.                                       *)
(***************************************************************************)

\* A step that leaves the queues, pollers and workers alone.
LEMMA QuietMove ==
  ASSUME Shape, NEW i \in Instance, UNCHANGED <<queue, poller, worker>>
  PROVE  SomeMove
<1>1. Becomes(i, queue[i], poller[i], worker[i])
  BY DEF Becomes, Shape, TypeOK
<1> QED
  BY <1>1, InstanceShape DEF SomeMove, Moves, Keeps

\* The worker goes on with what it has in hand.
LEMMA WorkerMove ==
  ASSUME Shape, NEW i \in Instance, UNCHANGED <<queue, poller>>,
         worker[i].pc \in Working, NEW pc \in Working, NEW n \in Nat,
         \/ Goto(i, pc)
         \/ worker' = [worker EXCEPT ![i].pc = pc, ![i].completedAt = n]
  PROVE  SomeMove
<1> DEFINE w == IF Goto(i, pc) THEN [worker[i] EXCEPT !.pc = pc]
                ELSE [worker[i] EXCEPT !.pc = pc, !.completedAt = n]
<1>1. WellShaped(queue[i], poller[i], worker[i])
  BY InstanceShape
<1>2. worker' = [worker EXCEPT ![i] = w] /\ worker \in [Instance -> Worker]
  BY DEF Goto, Shape, TypeOK, Worker
<1>3. worker[i] \in Worker
  BY <1>2
<1>4. /\ w \in Worker /\ w.pc = pc
      /\ w.hand = worker[i].hand /\ w.own = worker[i].own
  BY <1>3 DEF Worker, Working
<1> HIDE DEF w
<1>5. Becomes(i, queue[i], poller[i], w)
  BY <1>2 DEF Becomes, Shape, TypeOK
<1>6. WellShaped(queue[i], poller[i], w)
  BY <1>1, <1>4 DEF WellShaped, WorkerAgrees, Working
<1> QED
  BY <1>4, <1>5, <1>6 DEF SomeMove, Moves, Keeps

\* The worker is done with what it had in hand.
LEMMA FinishMove ==
  ASSUME Shape, NEW i \in Instance, UNCHANGED <<queue, poller>>,
         NEW pc \in {"idle", "dead"}, Finish(i, pc)
  PROVE  SomeMove
<1> DEFINE w == [IdleWorker EXCEPT !.pc = pc]
<1>1. WellShaped(queue[i], poller[i], worker[i])
  BY InstanceShape
<1>2. w \in Worker /\ WorkerAgrees(w) /\ w.hand = <<>>
  <2>1. IdleWorker \in Worker
    BY DEF IdleWorker, Worker
  <2>2. w \in Worker /\ w.pc = pc
    BY <2>1 DEF Worker
  <2>3. w.hand = <<>> /\ ~w.own
    BY DEF IdleWorker
  <2> QED
    BY <2>2, <2>3 DEF WorkerAgrees
<1>3. worker' = [worker EXCEPT ![i] = w]
  BY DEF Finish
<1> HIDE DEF w
<1>4. Becomes(i, queue[i], poller[i], w)
  BY <1>3 DEF Becomes, Shape, TypeOK
<1>5. WellShaped(queue[i], poller[i], w)
  BY <1>1, <1>2 DEF WellShaped
<1> QED
  BY <1>2, <1>4, <1>5 DEF SomeMove, Moves, Ends

\* The queue of one instance changes.
LEMMA QueueMove ==
  ASSUME Shape, NEW i \in Instance, NEW q, queue' = [queue EXCEPT ![i] = q],
         UNCHANGED <<poller, worker>>
  PROVE  Becomes(i, q, poller[i], worker[i])
BY DEF Becomes, Shape, TypeOK

\* admission.enqueue.
LEMMA EnqueueMove ==
  ASSUME Shape, NEW s \in Scan, Enqueue(s)
  PROVE  /\ api[s].at \in Instance
         /\ SomeMove
<1> DEFINE i == api[s].at
           q == Append(queue[i], Unclaimed(s))
<1>1. i \in Instance
  BY DEF Enqueue, Shape, RequestAgrees
<1>2. WellShaped(queue[i], poller[i], worker[i])
  BY <1>1, InstanceShape
<1>3. queue' = [queue EXCEPT ![i] = q] /\ UNCHANGED <<poller, worker>>
  BY DEF Enqueue
<1>4. Becomes(i, q, poller[i], worker[i])
  BY <1>1, <1>3, QueueMove
<1>5. q \in Seq(Item) /\ Len(q) = Len(queue[i]) + 1 /\ q[Len(q)] = Unclaimed(s)
      /\ \A k \in 1..Len(queue[i]) : q[k] = queue[i][k]
  BY <1>2, UnclaimedType DEF WellShaped
<1>6. QueueAgrees(q)
  BY <1>2, <1>5, UnclaimedType DEF WellShaped, QueueAgrees
<1>7. WellShaped(q, poller[i], worker[i])
  BY <1>2, <1>5, <1>6 DEF WellShaped
<1>8. Queues(i, q, poller[i], worker[i])
  BY DEF Queues
<1> QED
  BY <1>1, <1>4, <1>7, <1>8 DEF SomeMove, Moves

\* The poller of one instance changes.
LEMMA PollerMove ==
  ASSUME Shape, NEW i \in Instance, NEW p \in Poller, PollerAgrees(p),
         poller' = [poller EXCEPT ![i] = p], UNCHANGED <<queue, worker>>
  PROVE  /\ Becomes(i, queue[i], p, worker[i])
         /\ WellShaped(queue[i], p, worker[i])
<1>1. WellShaped(queue[i], poller[i], worker[i])
  BY InstanceShape
<1>2. Becomes(i, queue[i], p, worker[i])
  BY DEF Becomes, Shape, TypeOK
<1> QED
  BY <1>1, <1>2 DEF WellShaped

\* The idle poller.
LEMMA IdlePollerType ==
  /\ IdlePoller \in Poller
  /\ PollerAgrees(IdlePoller)
  /\ IdlePoller.hand = <<>>
<1>1. IdlePoller \in Poller
  BY DEF IdlePoller, Poller
<1>2. IdlePoller.pc = "idle" /\ IdlePoller.hand = <<>>
  BY DEF IdlePoller
<1> QED
  BY <1>1, <1>2 DEF PollerAgrees

\* A poller with nothing in hand that comes back with nothing.
LEMMA IdleMove ==
  ASSUME Shape, NEW i \in Instance, poller[i].pc = "claiming",
         poller' = [poller EXCEPT ![i] = IdlePoller], UNCHANGED <<queue, worker>>
  PROVE  SomeMove
<1>1. poller[i].hand = <<>>
  BY InstanceShape DEF WellShaped, PollerAgrees
<1>2. Becomes(i, queue[i], IdlePoller, worker[i]) /\ WellShaped(queue[i], IdlePoller, worker[i])
  BY IdlePollerType, PollerMove
<1>3. Keeps(i, queue[i], IdlePoller, worker[i])
  BY <1>1, IdlePollerType DEF Keeps
<1> QED
  BY <1>2, <1>3 DEF SomeMove, Moves

\* A poller that begins notes the clock, and has claimed nothing yet.
LEMMA PollStartMove ==
  ASSUME Shape, NEW i \in Instance, PollStart(i)
  PROVE  SomeMove
<1> DEFINE p == [IdlePoller EXCEPT !.pc = "claiming", !.claimedAt = clock]
<1>1. poller[i].hand = <<>>
  BY InstanceShape DEF WellShaped, PollerAgrees, PollStart
<1>2. clock \in Nat
  BY DEF Shape, TypeOK
<1>3. p \in Poller /\ p.pc = "claiming" /\ p.hand = <<>>
  BY <1>2, IdlePollerType DEF Poller
<1>4. poller' = [poller EXCEPT ![i] = p] /\ UNCHANGED <<queue, worker>>
  BY DEF PollStart
<1> HIDE DEF p
<1>5. PollerAgrees(p)
  BY <1>3 DEF PollerAgrees
<1>6. Becomes(i, queue[i], p, worker[i]) /\ WellShaped(queue[i], p, worker[i])
  BY <1>3, <1>4, <1>5, PollerMove
<1> QED
  BY <1>1, <1>3, <1>6 DEF SomeMove, Moves, Keeps

\* A poller claims the oldest scan the store has for it, or none.
LEMMA PollClaimMove ==
  ASSUME Shape, NEW i \in Instance, PollClaim(i)
  PROVE  SomeMove
<1> DEFINE Offering(s) == [IdlePoller EXCEPT !.pc = "offering", !.hand = <<NewClaim(s)>>]
<1>1. CASE poller' = [poller EXCEPT ![i] = IdlePoller]
  BY <1>1, IdleMove DEF PollClaim
<1>2. ASSUME NEW s \in Scan, Granted(s), poller' = [poller EXCEPT ![i] = Offering(s)]
      PROVE  SomeMove
  <2> DEFINE p == [IdlePoller EXCEPT !.pc = "offering", !.hand = <<NewClaim(s)>>]
  <2>1. NewClaim(s) \in Item /\ IsClaim(NewClaim(s))
    BY <1>2, NewClaimType DEF Granted
  <2>2. <<NewClaim(s)>> \in Seq(Item) /\ Len(<<NewClaim(s)>>) = 1
        /\ <<NewClaim(s)>>[1] = NewClaim(s)
    BY <2>1, OneItem
  <2>3. poller' = [poller EXCEPT ![i] = p] /\ UNCHANGED <<queue, worker>>
    BY <1>2 DEF PollClaim
  <2>4. p \in Poller /\ p.pc = "offering" /\ p.hand = <<NewClaim(s)>>
    BY <2>2, IdlePollerType DEF Poller
  <2> HIDE DEF p
  <2>5. PollerAgrees(p)
    BY <2>1, <2>2, <2>4 DEF PollerAgrees
  <2>6. Becomes(i, queue[i], p, worker[i]) /\ WellShaped(queue[i], p, worker[i])
    BY <2>3, <2>4, <2>5, PollerMove
  <2>7. Polls(i, queue[i], p, worker[i])
    BY <1>2, <2>4 DEF Polls
  <2> QED
    BY <2>6, <2>7 DEF SomeMove, Moves
<1>3. NextClaimable(i) \subseteq Scan
  BY DEF NextClaimable
<1>4. \/ poller' = [poller EXCEPT ![i] = IdlePoller]
      \/ \E s \in Scan : Granted(s) /\ poller' = [poller EXCEPT ![i] = Offering(s)]
  BY <1>3 DEF PollClaim, NewClaim, Granted
<1> QED
  BY <1>1, <1>2, <1>4

\* A poller offers its claim to the queue of its instance.
LEMMA PollOfferMove ==
  ASSUME Shape, NEW i \in Instance, PollOffer(i)
  PROVE  SomeMove
<1> DEFINE h == poller[i].hand
           q == queue[i] \o h
<1>1. WellShaped(queue[i], poller[i], worker[i])
  BY InstanceShape
<1>2. h \in Seq(Item) /\ Len(h) = 1 /\ IsClaim(h[1]) /\ queue[i] \in Seq(Item)
  BY <1>1 DEF WellShaped, PollerAgrees, Poller, PollOffer
<1>3. /\ q \in Seq(Item) /\ Len(q) = Len(queue[i]) + 1
      /\ \A k \in 1..Len(q) : q[k] = IF k <= Len(queue[i]) THEN queue[i][k] ELSE h[1]
  <2>1. /\ q \in Seq(Item) /\ Len(q) = Len(queue[i]) + Len(h)
        /\ \A k \in 1..Len(queue[i]) + Len(h) :
             q[k] = IF k <= Len(queue[i]) THEN queue[i][k] ELSE h[k - Len(queue[i])]
    BY <1>2, ConcatProperties
  <2>2. Len(queue[i]) \in Nat
    BY <1>2, LenProperties
  <2> HIDE DEF q, h
  <2> QED
    BY <1>2, <2>1, <2>2
<1>4. Becomes(i, q, IdlePoller, worker[i])
  BY DEF PollOffer, Becomes, Shape, TypeOK
<1>5. QueueAgrees(q)
  <2>1. \A k \in 1..Len(queue[i]) : IsUnclaimed(queue[i][k]) \/ IsClaim(queue[i][k])
    BY <1>1 DEF WellShaped, QueueAgrees
  <2>2. Len(queue[i]) \in Nat /\ DOMAIN q = 1..Len(q)
    BY <1>2, <1>3, LenProperties
  <2> HIDE DEF q, h
  <2>3. ASSUME NEW k \in DOMAIN q PROVE IsUnclaimed(q[k]) \/ IsClaim(q[k])
    <3>1. CASE k <= Len(queue[i])
      BY <1>3, <2>1, <2>2, <3>1
    <3>2. CASE ~(k <= Len(queue[i]))
      BY <1>2, <1>3, <2>2, <3>2
    <3> QED
      BY <3>1, <3>2
  <2> QED
    BY <2>3 DEF QueueAgrees
<1>6. WellShaped(q, IdlePoller, worker[i])
  BY <1>1, <1>3, <1>5, IdlePollerType DEF WellShaped
<1>7. Offers(i, q, IdlePoller, worker[i])
  BY IdlePollerType DEF Offers
<1> QED
  BY <1>4, <1>6, <1>7 DEF SomeMove, Moves


\* A worker takes the first claim of the queue.
LEMMA TakeMove ==
  ASSUME Shape, NEW i \in Instance, Take(i)
  PROVE  SomeMove
<1> DEFINE it == Head(queue[i])
           own == it.token = None
           w == [IdleWorker EXCEPT !.pc = IF own THEN "claiming" ELSE "renewing",
                                   !.hand = <<it>>, !.own = own]
<1>1. WellShaped(queue[i], poller[i], worker[i])
  BY InstanceShape
<1>2. queue[i] \in Seq(Item) /\ queue[i] # <<>> /\ QueueAgrees(queue[i])
  BY <1>1 DEF WellShaped, Take
<1>3. /\ it \in Item /\ it = queue[i][1] /\ 1 \in DOMAIN queue[i]
      /\ Tail(queue[i]) \in Seq(Item) /\ DOMAIN queue[i] = 1..Len(queue[i])
      /\ Len(queue[i]) \in Nat /\ Len(Tail(queue[i])) = Len(queue[i]) - 1
      /\ \A k \in 1..Len(Tail(queue[i])) : Tail(queue[i])[k] = queue[i][k + 1]
      /\ DOMAIN Tail(queue[i]) = 1..Len(Tail(queue[i]))
  BY <1>2, HeadTailProperties, LenProperties
<1>4. IsUnclaimed(it) \/ IsClaim(it)
  BY <1>2, <1>3 DEF QueueAgrees
<1>5. QueueAgrees(Tail(queue[i]))
  <2> DEFINE rest == Tail(queue[i])
  <2>1. ASSUME NEW k \in DOMAIN rest PROVE IsUnclaimed(rest[k]) \/ IsClaim(rest[k])
    <3>1. k \in 1..Len(rest) /\ k + 1 \in DOMAIN queue[i]
      BY <1>3, <2>1
    <3>2. rest[k] = queue[i][k + 1]
      BY <1>3, <3>1
    <3> QED
      BY <1>2, <3>1, <3>2 DEF QueueAgrees
  <2> QED
    BY <2>1 DEF QueueAgrees
<1>6. /\ queue' = [queue EXCEPT ![i] = Tail(queue[i])]
      /\ worker' = [worker EXCEPT ![i] = w]
      /\ UNCHANGED poller
  BY DEF Take
<1>7. Becomes(i, Tail(queue[i]), poller[i], w)
  BY <1>6 DEF Becomes, Shape, TypeOK
<1>8. <<it>> \in Seq(Item) /\ Len(<<it>>) = 1 /\ <<it>>[1] = it
  BY <1>3, OneItem
<1> HIDE DEF it
<1>9. IdleWorker \in Worker /\ own \in BOOLEAN
  BY DEF IdleWorker, Worker
<1> HIDE DEF own
<1>10. w \in Worker
  BY <1>8, <1>9 DEF Worker
<1>11. w.hand = <<it>> /\ w.own = own /\ w.pc = IF own THEN "claiming" ELSE "renewing"
  BY <1>9 DEF Worker
<1> HIDE DEF w
<1>12. WorkerAgrees(w)
  <2>1. CASE own
    <3>1. IsUnclaimed(it)
      BY <1>4, <2>1 DEF own, IsClaim
    <3> QED
      BY <1>8, <1>11, <2>1, <3>1 DEF WorkerAgrees
  <2>2. CASE ~own
    <3>1. IsClaim(it)
      BY <2>2 DEF own, IsClaim
    <3> QED
      BY <1>8, <1>11, <2>2, <3>1 DEF WorkerAgrees, Working
  <2> QED
    BY <2>1, <2>2
<1>13. WellShaped(Tail(queue[i]), poller[i], w)
  BY <1>1, <1>3, <1>5, <1>10, <1>12 DEF WellShaped
<1>14. Takes(i, Tail(queue[i]), poller[i], w)
  BY <1>2, <1>11 DEF Takes, it
<1> QED
  BY <1>7, <1>13, <1>14 DEF SomeMove, Moves

\* store.claimScan answered with a claim.
LEMMA ClaimedMove ==
  ASSUME Shape, NEW i \in Instance, NEW s \in Scan, Granted(s),
         worker' = [worker EXCEPT ![i].pc = "renewing", ![i].hand = <<NewClaim(s)>>],
         UNCHANGED <<queue, poller>>
  PROVE  SomeMove
<1> DEFINE w == [worker[i] EXCEPT !.pc = "renewing", !.hand = <<NewClaim(s)>>]
<1>1. WellShaped(queue[i], poller[i], worker[i])
  BY InstanceShape
<1>2. NewClaim(s) \in Item /\ IsClaim(NewClaim(s))
  BY NewClaimType DEF Granted
<1>3. <<NewClaim(s)>> \in Seq(Item) /\ Len(<<NewClaim(s)>>) = 1
      /\ <<NewClaim(s)>>[1] = NewClaim(s)
  BY <1>2, OneItem
<1>4. worker' = [worker EXCEPT ![i] = w]
  BY DEF Shape, TypeOK
<1>5. w \in Worker /\ w.pc = "renewing" /\ w.hand = <<NewClaim(s)>>
  BY <1>1, <1>3 DEF WellShaped, Worker
<1> HIDE DEF w
<1>6. Becomes(i, queue[i], poller[i], w)
  BY <1>4 DEF Becomes, Shape, TypeOK
<1>7. WorkerAgrees(w)
  BY <1>2, <1>3, <1>5 DEF WorkerAgrees, Working
<1>8. WellShaped(queue[i], poller[i], w)
  BY <1>1, <1>5, <1>7 DEF WellShaped
<1>9. Claims(i, queue[i], poller[i], w)
  BY <1>5 DEF Claims
<1> QED
  BY <1>6, <1>8, <1>9 DEF SomeMove, Moves

\* The scan in a worker's hand.
LEMMA HandType ==
  ASSUME Shape, NEW i \in Instance, worker[i].pc \in Working \cup {"claiming"}
  PROVE  InHand(i) \in Item
<1>1. worker[i].hand \in Seq(Item) /\ Len(worker[i].hand) = 1
  BY InstanceShape DEF WellShaped, WorkerAgrees, Worker, Working
<1> QED
  BY <1>1 DEF InHand

\* A claim in a worker's hand.
LEMMA HeldClaim ==
  ASSUME Shape, NEW i \in Instance, worker[i].pc \in Working
  PROVE  /\ InHand(i) \in Item /\ InHand(i).token \in Token
         /\ InHand(i).scan \in Scan /\ InHand(i).since \in Nat
         /\ InHand(i) \in ClaimsAt(i)
<1>1. worker[i].hand \in Seq(Item) /\ Len(worker[i].hand) = 1 /\ IsClaim(worker[i].hand[1])
  BY InstanceShape DEF WellShaped, WorkerAgrees, Worker, Working
<1>2. InHand(i) \in Item /\ InHand(i).token # None /\ 1 \in DOMAIN worker[i].hand
  BY <1>1 DEF InHand, IsClaim
<1> QED
  BY <1>2 DEF Item, ClaimsAt, InHand

\* A worker claims the scan of its own request.
LEMMA ClaimOwnMove ==
  ASSUME Shape, NEW i \in Instance, ClaimOwn(i)
  PROVE  SomeMove
<1> DEFINE s == InHand(i).scan
<1>1. s \in Scan /\ UNCHANGED <<queue, poller>>
  BY HandType DEF ClaimOwn, At, Item
<1> HIDE DEF s
<1>2. \/ Finish(i, "dead") \/ Finish(i, "idle")
      \/ /\ Granted(s)
         /\ worker' = [worker EXCEPT ![i].pc = "renewing", ![i].hand = <<NewClaim(s)>>]
  BY DEF ClaimOwn, NewClaim, Granted, s
<1> QED
  BY <1>1, <1>2, FinishMove, ClaimedMove

\* A crash empties the queue and the hands of one instance.
LEMMA CrashMove ==
  ASSUME Shape, NEW i \in Instance, Crash(i)
  PROVE  SomeMove
<1>1. Becomes(i, <<>>, IdlePoller, IdleWorker)
  BY DEF Becomes, Crash
<1>2. IdleWorker \in Worker /\ <<>> \in Seq(Item) /\ QueueAgrees(<<>>)
  BY DEF IdleWorker, Worker, QueueAgrees
<1>3. IdleWorker.hand = <<>> /\ ~IdleWorker.own /\ IdleWorker.pc = "idle"
  BY DEF IdleWorker
<1>4. WellShaped(<<>>, IdlePoller, IdleWorker)
  BY <1>2, <1>3, IdlePollerType DEF WellShaped, WorkerAgrees
<1>5. Ends(i, <<>>, IdlePoller, IdleWorker)
  BY <1>3, IdlePollerType DEF Ends
<1> QED
  BY <1>1, <1>4, <1>5 DEF SomeMove, Moves

\* Every step moves one instance, or leaves all queues and hands alone.
LEMMA EveryStepMoves ==
  ASSUME Shape, [Next]_vars
  PROVE  SomeMove \/ UNCHANGED <<queue, poller, worker>>
<1>1. ASSUME NEW s \in Scan, Request(s) \/ Lapse(s)
      PROVE  SomeMove \/ UNCHANGED <<queue, poller, worker>>
  BY <1>1, EnqueueMove DEF Request, CreateScan, Release, Lapse
<1>2. ASSUME NEW i \in Instance, NEW s \in Scan, Reserve(i, s)
      PROVE  UNCHANGED <<queue, poller, worker>>
  BY <1>2 DEF Reserve
<1>3. ASSUME NEW i \in Instance, Poll(i) PROVE SomeMove
  BY <1>3, PollStartMove, PollClaimMove, PollOfferMove DEF Poll
<1>4. ASSUME NEW i \in Instance, Protocol(i) PROVE SomeMove
  <2>1. CASE Take(i) \/ ClaimOwn(i)
    BY <2>1, TakeMove, ClaimOwnMove
  <2>2. CASE FirstRenewal(i)
    BY <2>2, WorkerMove DEF FirstRenewal, At, Working
  <2>3. CASE StartProtocol(i)
    BY <2>3, WorkerMove DEF StartProtocol, At, Working
  <2>4. CASE CompleteClaimed(i)
    BY <2>4, WorkerMove DEF CompleteClaimed, At, Working
  <2>5. CASE ProtocolDone(i)
    BY <2>5, FinishMove DEF ProtocolDone
  <2>6. CASE FailClaimed(i)
    BY <2>6, FinishMove DEF FailClaimed
  <2> QED
    BY <1>4, <2>1, <2>2, <2>3, <2>4, <2>5, <2>6 DEF Protocol
<1>5. ASSUME NEW i \in Instance, AnalysisEnds(i) PROVE SomeMove
  <2>1. clock \in Nat
    BY DEF Shape, TypeOK
  <2> QED
    BY <1>5, <2>1, WorkerMove DEF AnalysisEnds, At, Working
<1>6. ASSUME NEW i \in Instance, Heartbeat(i)
      PROVE  SomeMove \/ UNCHANGED <<queue, poller, worker>>
  BY <1>6, WorkerMove DEF Heartbeat, Working
<1>7. ASSUME NEW i \in Instance, NEW p \in 0..FullProgress, Observe(i, p)
      PROVE  UNCHANGED <<queue, poller, worker>>
  BY <1>7 DEF Observe
<1>8. CASE UNCHANGED vars
  BY <1>8 DEF vars
<1> QED
  BY <1>1, <1>2, <1>3, <1>4, <1>5, <1>6, <1>7, <1>8, CrashMove DEF Next


-----------------------------------------------------------------------------
(***************************************************************************)
(* Types and shapes are inductive.                                         *)
(***************************************************************************)

\* What a move leaves in every instance.
LEMMA MoveKeepsShape ==
  ASSUME Shape, SomeMove
  PROVE  /\ queue' \in [Instance -> Seq(Item)]
         /\ poller' \in [Instance -> Poller]
         /\ worker' \in [Instance -> Worker]
         /\ \A j \in Instance : /\ QueueAgrees(queue'[j])
                                /\ PollerAgrees(poller'[j])
                                /\ WorkerAgrees(worker'[j])
<1>1. PICK i \in Instance : \E q, p, w : Moves(i, q, p, w)
  BY DEF SomeMove
<1>2. PICK q, p, w : Moves(i, q, p, w)
  BY <1>1
<1>3. Becomes(i, q, p, w) /\ WellShaped(q, p, w)
  BY <1>2 DEF Moves
<1>4. /\ queue \in [Instance -> Seq(Item)]
      /\ poller \in [Instance -> Poller]
      /\ worker \in [Instance -> Worker]
  BY DEF Shape, TypeOK, Poller, Worker
<1>5. ASSUME NEW j \in Instance
      PROVE  /\ QueueAgrees(queue'[j])
             /\ PollerAgrees(poller'[j])
             /\ WorkerAgrees(worker'[j])
  <2>1. CASE j = i
    BY <1>3, <1>4, <2>1 DEF Becomes, WellShaped
  <2>2. CASE j # i
    BY <1>3, <1>4, <2>2 DEF Becomes, Shape
  <2> QED
    BY <2>1, <2>2
<1> QED
  BY <1>3, <1>4, <1>5 DEF Becomes, WellShaped

\* A worker's transactions on the row of the claim it holds.
WorkerWrites(i) ==
  LET it == InHand(i) IN
  /\ worker[i].pc \in Working
  /\ \/ RenewRow(it.scan, it.token)
     \/ \E p \in 0..FullProgress : UpdateRow(it.scan, it.token, p, clock)
     \/ /\ worker[i].pc = "completing"
        /\ CompleteRow(it.scan, it.token, it.baseline, worker[i].completedAt, clock)
     \/ /\ worker[i].pc = "failing"
        /\ FailRow(it.scan, it.token, clock)

\* What a step may do to the rows, and who does it.
LEMMA EveryStepWrites ==
  ASSUME Shape, [Next]_vars
  PROVE  \/ UNCHANGED rows
         \/ \E s \in Scan : api[s].pc = "inserting" /\ InsertRow(s, api[s].createdAt)
         \/ \E s \in Scan : Granted(s)
         \/ \E i \in Instance : WorkerWrites(i)
         \/ \E s \in Scan : Lapse(s)
<1>1. ASSUME NEW s \in Scan, Request(s) \/ Lapse(s)
      PROVE  \/ UNCHANGED rows
             \/ api[s].pc = "inserting" /\ InsertRow(s, api[s].createdAt)
             \/ Lapse(s)
  BY <1>1 DEF Request, CreateScan, Enqueue, Release
<1>2. ASSUME NEW i \in Instance, NEW s \in Scan, Reserve(i, s) PROVE UNCHANGED rows
  BY <1>2 DEF Reserve
<1>3. ASSUME NEW i \in Instance, Poll(i)
      PROVE  \/ UNCHANGED rows
             \/ \E s \in Scan : Granted(s)
  BY <1>3 DEF Poll, PollStart, PollClaim, PollOffer, NextClaimable, Granted
<1>4. ASSUME NEW i \in Instance, Protocol(i)
      PROVE  \/ UNCHANGED rows
             \/ \E s \in Scan : Granted(s)
             \/ WorkerWrites(i)
  <2>1. CASE ClaimOwn(i)
    BY <2>1, HandType DEF ClaimOwn, At, Item, Granted
  <2>2. CASE FirstRenewal(i)
    BY <2>2 DEF FirstRenewal, At, Working, WorkerWrites
  <2>3. CASE StartProtocol(i)
    <3>1. 0 \in 0..FullProgress
      BY RowsAssumption
    <3> QED
      BY <2>3, <3>1 DEF StartProtocol, At, Working, WorkerWrites
  <2>4. CASE CompleteClaimed(i)
    BY <2>4 DEF CompleteClaimed, At, Working, WorkerWrites
  <2>5. CASE FailClaimed(i)
    BY <2>5 DEF FailClaimed, At, Working, WorkerWrites
  <2>6. CASE Take(i) \/ ProtocolDone(i)
    BY <2>6 DEF Take, ProtocolDone
  <2> QED
    BY <1>4, <2>1, <2>2, <2>3, <2>4, <2>5, <2>6 DEF Protocol
<1>5. ASSUME NEW i \in Instance, AnalysisEnds(i) \/ Crash(i) PROVE UNCHANGED rows
  BY <1>5 DEF AnalysisEnds, Crash
<1>6. ASSUME NEW i \in Instance, Heartbeat(i) PROVE UNCHANGED rows \/ WorkerWrites(i)
  BY <1>6 DEF Heartbeat, Working, WorkerWrites
<1>7. ASSUME NEW i \in Instance, NEW p \in 0..FullProgress, Observe(i, p) PROVE WorkerWrites(i)
  BY <1>7 DEF Observe, At, Working, WorkerWrites
<1>8. CASE UNCHANGED vars
  BY <1>8 DEF vars
<1> QED
  BY <1>1, <1>2, <1>3, <1>4, <1>5, <1>6, <1>7, <1>8 DEF Next

\* Every step keeps the rows of the store typed.
LEMMA RowsNext ==
  ASSUME Shape, [Next]_vars
  PROVE  rows' \in [Scan -> Row]
<1>1. RowsTyped /\ clock \in Nat
  BY DEF Shape, TypeOK, RowsTyped
<1>2. ASSUME NEW s \in Scan, InsertRow(s, api[s].createdAt) PROVE RowsTyped'
  <2>1. api[s].createdAt \in Nat
    BY DEF Shape, TypeOK
  <2> QED
    BY <1>1, <1>2, <2>1, InsertType
<1>3. ASSUME NEW s \in Scan, Granted(s) PROVE RowsTyped'
  <2>1. \A i \in Instance : PollClaimedAt(i) \in Nat
    BY <1>1 DEF PollClaimedAt, Shape, TypeOK
  <2>2. NewToken \in Token
    BY <1>3, NewTokenIsNew DEF Granted
  <2> QED
    BY <1>1, <1>3, <2>1, <2>2, ClaimType DEF Granted
<1>5. ASSUME NEW i \in Instance, WorkerWrites(i) PROVE RowsTyped'
  <2>1. InHand(i).scan \in Scan
    BY <1>5, HeldClaim DEF WorkerWrites
  <2>2. worker[i].completedAt \in Nat
    BY DEF Shape, TypeOK
  <2> QED
    BY <1>1, <1>5, <2>1, <2>2, LeaseType, UpdateType, CompleteType, FailType DEF WorkerWrites
<1>6. ASSUME NEW s \in Scan, Lapse(s) PROVE RowsTyped'
  BY <1>1, <1>6, LeaseType DEF Lapse
<1>7. RowsTyped'
  BY <1>1, <1>2, <1>3, <1>5, <1>6, EveryStepWrites DEF RowsTyped
<1> QED
  BY <1>7 DEF RowsTyped


\* What a step may do to a request.
RequestRecord == [pc : {"idle", "inserting", "created", "releasing", "done"},
             at : Instance \cup {None}, createdAt : Nat]

RequestMoves(s) ==
  \/ api'[s] = api[s]
  \/ /\ api[s].pc = "idle"
     /\ api'[s].pc = "inserting" /\ api'[s].at \in Instance /\ api'[s].createdAt = clock + 1
     /\ clock' = clock + 1
  \/ /\ api'[s].at = api[s].at /\ api'[s].createdAt = api[s].createdAt
     /\ \/ api[s].pc = "inserting" /\ api'[s].pc \in {"created", "releasing"}
        \/ api[s].pc = "created" /\ api'[s].pc = "releasing"
        \/ api[s].at \in Instance /\ api'[s].pc = "done"

\* Every step keeps requests, admissions and mishaps typed, and moves the clock by one at most.
LEMMA RequestsMove ==
  ASSUME Shape, [Next]_vars
  PROVE  /\ api' \in [Scan -> RequestRecord]
         /\ \A s \in Scan : RequestMoves(s)
         /\ clock' \in {clock, clock + 1}
         /\ admissions' \in [Instance -> [Scan -> {"none", "reserved", "attached"}]]
         /\ mishaps' \in 0..MaxMishaps
<1> DEFINE Goal == /\ api' \in [Scan -> RequestRecord]
                   /\ \A s \in Scan : RequestMoves(s)
                   /\ clock' \in {clock, clock + 1}
                   /\ admissions' \in [Instance -> [Scan -> {"none", "reserved", "attached"}]]
                   /\ mishaps' \in 0..MaxMishaps
<1>1. /\ api \in [Scan -> RequestRecord] /\ clock \in Nat
      /\ admissions \in [Instance -> [Scan -> {"none", "reserved", "attached"}]]
      /\ mishaps \in 0..MaxMishaps /\ MaxMishaps \in Nat
  BY RunnerAssumption DEF Shape, TypeOK, RequestRecord
<1>2. \A call : Fault(call) => mishaps' \in 0..MaxMishaps
  BY <1>1 DEF Fault, Mishap
<1>3. \A s \in Scan : UNCHANGED api => RequestMoves(s)
  BY DEF RequestMoves
<1>4. ASSUME NEW s \in Scan, CreateScan(s) PROVE Goal
  <2>1. UNCHANGED <<clock, admissions>> /\ mishaps' \in 0..MaxMishaps /\ api[s].pc = "inserting"
    BY <1>1, <1>2, <1>4 DEF CreateScan
  <2>2. \E pc \in {"created", "releasing"} : api' = [api EXCEPT ![s].pc = pc]
    BY <1>4 DEF CreateScan
  <2> QED
    BY <1>1, <2>1, <2>2 DEF RequestMoves, RequestRecord
<1>5. ASSUME NEW s \in Scan, Enqueue(s) PROVE Goal
  BY <1>1, <1>5 DEF Enqueue, RequestMoves, RequestRecord
<1>6. ASSUME NEW s \in Scan, Release(s) PROVE Goal
  <2>1. UNCHANGED <<clock, mishaps>> /\ api' = [api EXCEPT ![s].pc = "done"]
        /\ api[s].at \in Instance
    BY <1>6 DEF Release, Shape, RequestAgrees
  <2>2. api' \in [Scan -> RequestRecord] /\ \A t \in Scan : RequestMoves(t)
    BY <1>1, <2>1 DEF RequestMoves, RequestRecord
  <2>3. admissions' \in [Instance -> [Scan -> {"none", "reserved", "attached"}]]
    BY <1>1, <1>6 DEF Release
  <2> QED
    BY <1>1, <2>1, <2>2, <2>3
<1>7. ASSUME NEW s \in Scan, Lapse(s) PROVE Goal
  BY <1>1, <1>3, <1>7 DEF Lapse, Mishap
<1>8. ASSUME NEW i \in Instance, NEW s \in Scan, Reserve(i, s) PROVE Goal
  <2>1. /\ clock' = clock + 1 /\ UNCHANGED mishaps /\ api[s].pc = "idle"
        /\ api' = [api EXCEPT ![s] = [pc |-> "inserting", at |-> i, createdAt |-> clock + 1]]
    BY <1>8 DEF Reserve
  <2>2. api' \in [Scan -> RequestRecord] /\ \A t \in Scan : RequestMoves(t)
    BY <1>1, <2>1 DEF RequestMoves, RequestRecord
  <2>3. admissions' \in [Instance -> [Scan -> {"none", "reserved", "attached"}]]
    BY <1>1, <1>8 DEF Reserve
  <2> QED
    BY <1>1, <2>1, <2>2, <2>3
<1>9. ASSUME NEW i \in Instance, Poll(i) PROVE Goal
  BY <1>1, <1>2, <1>3, <1>9 DEF Poll, PollStart, PollClaim, PollOffer
<1>10. ASSUME NEW i \in Instance, NEW pc, Finish(i, pc)
       PROVE  admissions' \in [Instance -> [Scan -> {"none", "reserved", "attached"}]]
  BY <1>1, <1>10 DEF Finish
<1>11. ASSUME NEW i \in Instance, Protocol(i) PROVE Goal
  <2>1. UNCHANGED <<clock, api>>
    BY <1>11 DEF Protocol, Take, ClaimOwn, FirstRenewal, StartProtocol, CompleteClaimed,
                 ProtocolDone, FailClaimed
  <2>2. mishaps' \in 0..MaxMishaps
    BY <1>1, <1>2, <1>11 DEF Protocol, Take, ClaimOwn, FirstRenewal, StartProtocol,
                             CompleteClaimed, ProtocolDone, FailClaimed
  <2>3. UNCHANGED admissions \/ \E pc : Finish(i, pc)
    BY <1>11 DEF Protocol, Take, ClaimOwn, FirstRenewal, StartProtocol, CompleteClaimed,
                 ProtocolDone, FailClaimed
  <2> QED
    BY <1>1, <1>3, <1>10, <2>1, <2>2, <2>3
<1>12. ASSUME NEW i \in Instance, AnalysisEnds(i) PROVE Goal
  BY <1>1, <1>3, <1>12 DEF AnalysisEnds
<1>13. ASSUME NEW i \in Instance, Heartbeat(i) PROVE Goal
  BY <1>1, <1>2, <1>3, <1>13 DEF Heartbeat
<1>14. ASSUME NEW i \in Instance, NEW p \in 0..FullProgress, Observe(i, p) PROVE Goal
  BY <1>1, <1>3, <1>14 DEF Observe
<1>15. ASSUME NEW i \in Instance, Crash(i) PROVE Goal
  <2>1. /\ api' = [s \in Scan |-> IF api[s].at = i THEN [api[s] EXCEPT !.pc = "done"] ELSE api[s]]
        /\ UNCHANGED clock
        /\ admissions' = [admissions EXCEPT ![i] = [s \in Scan |-> "none"]]
        /\ mishaps' \in 0..MaxMishaps
    BY <1>1, <1>15 DEF Crash, Mishap
  <2>2. ASSUME NEW s \in Scan PROVE RequestMoves(s) /\ api'[s] \in RequestRecord
    BY <1>1, <2>1 DEF RequestMoves, RequestRecord
  <2> QED
    BY <1>1, <2>1, <2>2
<1>16. CASE UNCHANGED vars
  BY <1>1, <1>3, <1>16 DEF vars
<1> QED
  BY <1>4, <1>5, <1>6, <1>7, <1>8, <1>9, <1>11, <1>12, <1>13, <1>14, <1>15, <1>16
     DEF Next, Request

\* The initial states have their shape.
LEMMA ShapeInit == Init => Shape
<1> SUFFICES ASSUME Init PROVE Shape
  OBVIOUS
<1> USE DEF Init, RowsInit
<1>1. NoRow \in Row
  BY RowsAssumption DEF NoRow, Row
<1>2. rows \in [Scan -> Row] /\ clock \in Nat /\ mishaps \in 0..MaxMishaps
  BY <1>1, RunnerAssumption
<1>3. api \in [Scan -> RequestRecord] /\ \A s \in Scan : RequestAgrees(s)
  BY DEF RequestRecord, RequestAgrees
<1>4. admissions \in [Instance -> [Scan -> {"none", "reserved", "attached"}]]
  OBVIOUS
<1>5. queue \in [Instance -> Seq(Item)] /\ \A i \in Instance : QueueAgrees(queue[i])
  BY DEF QueueAgrees
<1>6. poller \in [Instance -> Poller] /\ \A i \in Instance : PollerAgrees(poller[i])
  BY IdlePollerType
<1>7. worker \in [Instance -> Worker] /\ \A i \in Instance : WorkerAgrees(worker[i])
  <2>1. IdleWorker \in Worker /\ WorkerAgrees(IdleWorker)
    BY DEF IdleWorker, Worker, WorkerAgrees
  <2> QED
    BY <2>1
<1> QED
  BY <1>2, <1>3, <1>4, <1>5, <1>6, <1>7 DEF Shape, TypeOK, RequestRecord, Poller, Worker

\* Every step keeps the shape of the coordinators.
LEMMA ShapeNext ==
  ASSUME Shape, [Next]_vars
  PROVE  Shape'
<1>1. /\ queue' \in [Instance -> Seq(Item)]
      /\ poller' \in [Instance -> Poller]
      /\ worker' \in [Instance -> Worker]
      /\ \A j \in Instance : /\ QueueAgrees(queue'[j])
                             /\ PollerAgrees(poller'[j])
                             /\ WorkerAgrees(worker'[j])
  <2>1. CASE SomeMove
    BY <2>1, MoveKeepsShape
  <2>2. CASE UNCHANGED <<queue, poller, worker>>
    BY <2>2 DEF Shape, TypeOK, Poller, Worker
  <2> QED
    BY <2>1, <2>2, EveryStepMoves
<1>2. rows' \in [Scan -> Row]
  BY RowsNext
<1>3. clock \in Nat
  BY DEF Shape, TypeOK
<1>4. TypeOK'
  BY <1>1, <1>2, <1>3, RequestsMove DEF TypeOK, RequestRecord, Poller, Worker
<1>5. ASSUME NEW s \in Scan PROVE RequestAgrees(s)'
  <2>1. RequestMoves(s) /\ RequestAgrees(s) /\ api[s] \in RequestRecord
    BY RequestsMove DEF Shape, TypeOK, RequestRecord
  <2> QED
    BY <1>3, <2>1 DEF RequestMoves, RequestAgrees, RequestRecord
<1> QED
  BY <1>1, <1>4, <1>5 DEF Shape

\* Types and shapes hold in every reachable state.
LEMMA ShapeAlways == Spec => []Shape
BY ShapeInit, ShapeNext, PTL DEF Spec

\* Every variable of the coordinators keeps its type.
THEOREM RunnerTypeCorrect == Spec => []TypeOK
<1>1. Shape => TypeOK
  BY DEF Shape
<1> QED
  BY <1>1, ShapeAlways, PTL


-----------------------------------------------------------------------------
(***************************************************************************)
(* Claims are in one place.                                                *)
(***************************************************************************)

\* A new token is no token of a claim in hand.
LEMMA NewTokenIsNotHeld ==
  ASSUME UnusedTokens # {}, NEW i \in Instance, NEW it \in ClaimsAt(i)
  PROVE  it.token # NewToken
<1>1. NewToken \in UnusedTokens
  BY NewTokenIsNew
<1>2. [token |-> it.token, since |-> it.since] \in Held
  BY DEF Held
<1>3. it.token \in {h.token : h \in Held}
  BY <1>2
<1> QED
  BY <1>1, <1>3 DEF UnusedTokens

\* Where a claim is.
LEMMA ClaimPlace ==
  ASSUME NEW i \in Instance
  PROVE  /\ \A k \in DOMAIN queue[i] :
              queue[i][k].token # None => queue[i][k] \in ClaimsAt(i)
         /\ \A k \in DOMAIN poller[i].hand :
              poller[i].hand[k].token # None => poller[i].hand[k] \in ClaimsAt(i)
         /\ \A k \in DOMAIN worker[i].hand :
              worker[i].hand[k].token # None => worker[i].hand[k] \in ClaimsAt(i)
BY DEF ClaimsAt

\* What lies behind the first m of m + n items, when n is at most one.
LEMMA LastOne ==
  ASSUME NEW m \in Nat, NEW n \in {0, 1}, NEW k \in 1..m + n, ~(k <= m)
  PROVE  n = 1 /\ k = m + 1 /\ k - m = 1
OBVIOUS

\* A move keeps the claims of an instance in one place each.
LEMMA MoveKeepsOnce ==
  ASSUME Shape, ClaimsOnce, NEW i \in Instance, NEW q, NEW p, NEW w, Moves(i, q, p, w)
  PROVE  OncePerPlace(q, p.hand, w.hand)
<1> DEFINE Q == queue[i]
           P == poller[i].hand
           W == worker[i].hand
<1>1. /\ Q \in Seq(Item) /\ P \in Seq(Item) /\ W \in Seq(Item)
      /\ PollerAgrees(poller[i]) /\ WorkerAgrees(worker[i])
  BY InstanceShape DEF WellShaped, Poller, Worker
<1>2. /\ Len(Q) \in Nat /\ DOMAIN Q = 1..Len(Q)
      /\ Len(P) \in Nat /\ DOMAIN P = 1..Len(P)
      /\ Len(W) \in Nat /\ DOMAIN W = 1..Len(W)
  BY <1>1, LenProperties
<1>3. Once(Q) /\ Apart(Q, P) /\ Apart(Q, W) /\ Apart(P, W)
  BY DEF ClaimsOnce, OncePerPlace
<1>4. UnusedTokens # {} =>
        /\ \A k \in DOMAIN Q : Q[k].token # NewToken
        /\ \A k \in DOMAIN P : P[k].token # NewToken
        /\ \A k \in DOMAIN W : W[k].token # NewToken
  BY ClaimPlace, NewTokenIsNotHeld, NewTokenIsNew
<1>5. \A h : Apart(h, <<>>) /\ Apart(<<>>, h) /\ Once(<<>>)
  BY DEF Apart, Once
<1> HIDE DEF Q, P, W
<1>6. CASE Keeps(i, q, p, w)
  BY <1>3, <1>6 DEF Keeps, OncePerPlace, Q, P, W
<1>7. CASE Queues(i, q, p, w)
  <2>1. PICK s \in Scan : q = Append(Q, Unclaimed(s))
    BY <1>7 DEF Queues, Q
  <2>2. /\ DOMAIN q = 1..Len(Q) + 1 /\ q[Len(Q) + 1].token = None
        /\ \A k \in DOMAIN Q : q[k] = Q[k]
    BY <1>1, <1>2, <2>1, UnclaimedType
  <2>3. \A k \in DOMAIN q : q[k].token # None => k \in DOMAIN Q
    BY <1>2, <2>2
  <2>4. Once(q) /\ Apart(q, P) /\ Apart(q, W)
    BY <1>3, <2>2, <2>3 DEF Once, Apart
  <2> QED
    BY <1>3, <1>7, <2>4 DEF Queues, OncePerPlace, P, W
<1>8. CASE Polls(i, q, p, w)
  <2>1. PICK s \in Scan : Granted(s) /\ p.hand = <<NewClaim(s)>>
    BY <1>8 DEF Polls
  <2>2. DOMAIN p.hand = {1} /\ p.hand[1].token = NewToken
    BY <2>1, NewClaimType, OneItem DEF Granted
  <2>3. Apart(Q, p.hand) /\ Apart(p.hand, W)
    BY <1>4, <2>1, <2>2 DEF Apart, Granted
  <2> QED
    BY <1>3, <1>8, <2>3 DEF Polls, OncePerPlace, Q, W
<1>9. CASE Offers(i, q, p, w)
  <2>1. Len(P) \in {0, 1}
    <3>1. P = <<>> \/ Len(P) = 1
      BY <1>1 DEF PollerAgrees, P
    <3>2. Len(<<>>) = 0
      OBVIOUS
    <3> QED
      BY <3>1, <3>2
  <2>2. /\ DOMAIN q = 1..Len(Q) + Len(P)
        /\ \A k \in 1..Len(Q) + Len(P) : q[k] = IF k <= Len(Q) THEN Q[k] ELSE P[k - Len(Q)]
    <3>1. q = Q \o P
      BY <1>9 DEF Offers, P, Q
    <3>2. q \in Seq(Item) /\ Len(q) = Len(Q) + Len(P)
      BY <1>1, <3>1, ConcatProperties
    <3> QED
      BY <1>1, <3>1, <3>2, ConcatProperties, LenProperties
  <2>3. ASSUME NEW k \in DOMAIN q
        PROVE  \/ k \in DOMAIN Q /\ q[k] = Q[k]
               \/ k = Len(Q) + 1 /\ 1 \in DOMAIN P /\ q[k] = P[1]
    <3>1. k \in 1..Len(Q) + Len(P)
      BY <2>2, <2>3
    <3>2. CASE k <= Len(Q)
      BY <1>2, <2>2, <3>1, <3>2
    <3>3. CASE ~(k <= Len(Q))
      <4>1. Len(P) = 1 /\ k = Len(Q) + 1 /\ k - Len(Q) = 1
        BY <1>2, <2>1, <3>1, <3>3, LastOne
      <4>2. q[k] = P[k - Len(Q)]
        BY <2>2, <3>1, <3>3
      <4> QED
        BY <1>2, <4>1, <4>2
    <3> QED
      BY <3>2, <3>3
  <2>4. Once(q)
    <3> SUFFICES ASSUME NEW k \in DOMAIN q, NEW l \in DOMAIN q,
                        q[k].token = q[l].token, q[k].token # None
                 PROVE  k = l
      BY DEF Once
    <3>1. CASE k \in DOMAIN Q /\ q[k] = Q[k]
      BY <1>3, <2>3, <3>1 DEF Once, Apart
    <3>2. CASE k = Len(Q) + 1 /\ 1 \in DOMAIN P /\ q[k] = P[1]
      BY <1>3, <2>3, <3>2 DEF Apart
    <3> QED
      BY <2>3, <3>1, <3>2
  <2>5. Apart(q, W)
    BY <1>3, <2>3 DEF Apart
  <2> QED
    BY <1>5, <1>9, <2>4, <2>5 DEF Offers, OncePerPlace, W
<1>10. CASE Takes(i, q, p, w)
  <2>1. Q # <<>> /\ q = Tail(Q) /\ w.hand = <<Head(Q)>> /\ p.hand = P
    BY <1>10 DEF Takes, Q, P
  <2>2. /\ 1 \in DOMAIN Q /\ Head(Q) = Q[1] /\ Head(Q) \in Item
        /\ \A k \in DOMAIN q : k + 1 \in DOMAIN Q /\ q[k] = Q[k + 1] /\ k + 1 # 1 /\ k \in Nat
    <3>1. /\ Head(Q) \in Item /\ q \in Seq(Item) /\ Len(q) = Len(Q) - 1
          /\ \A k \in 1..Len(q) : q[k] = Q[k + 1]
      BY <1>1, <2>1, HeadTailProperties
    <3>2. Len(Q) # 0 /\ Head(Q) = Q[1]
      BY <1>1, <2>1
    <3>3. DOMAIN q = 1..Len(q)
      BY <3>1, LenProperties
    <3> QED
      BY <1>2, <3>1, <3>2, <3>3
  <2>3. DOMAIN w.hand = {1} /\ w.hand[1] = Q[1]
    BY <2>1, <2>2, OneItem
  <2>4. Once(q)
    <3> SUFFICES ASSUME NEW k \in DOMAIN q, NEW l \in DOMAIN q,
                        q[k].token = q[l].token, q[k].token # None
                 PROVE  k = l
      BY DEF Once
    <3>1. k + 1 = l + 1
      BY <1>3, <2>2 DEF Once
    <3> QED
      BY <2>2, <3>1
  <2>5. Apart(q, P)
    BY <1>3, <2>2 DEF Apart
  <2>6. Apart(q, w.hand)
    BY <1>3, <2>2, <2>3 DEF Apart, Once
  <2>7. Apart(P, w.hand)
    BY <1>3, <2>2, <2>3 DEF Apart
  <2> QED
    BY <2>1, <2>4, <2>5, <2>6, <2>7 DEF OncePerPlace
<1>11. CASE Claims(i, q, p, w)
  <2>1. PICK s \in Scan : Granted(s) /\ w.hand = <<NewClaim(s)>>
    BY <1>11 DEF Claims
  <2>2. DOMAIN w.hand = {1} /\ w.hand[1].token = NewToken
    BY <2>1, NewClaimType, OneItem DEF Granted
  <2>3. Apart(Q, w.hand) /\ Apart(P, w.hand)
    BY <1>4, <2>1, <2>2 DEF Apart, Granted
  <2> QED
    BY <1>3, <1>11, <2>3 DEF Claims, OncePerPlace, Q, P
<1>12. CASE Ends(i, q, p, w)
  BY <1>3, <1>5, <1>12 DEF Ends, OncePerPlace, Q, P
<1> QED
  BY <1>6, <1>7, <1>8, <1>9, <1>10, <1>11, <1>12 DEF Moves


\* A move adds at most a new claim to those in hand, and only at one instance.
LEMMA MoveClaims ==
  ASSUME Shape, NEW i \in Instance, NEW q, NEW p, NEW w, Moves(i, q, p, w)
  PROVE  /\ \A j \in Instance \ {i} : ClaimsAt(j)' = ClaimsAt(j)
         /\ \/ ClaimsAt(i)' \subseteq ClaimsAt(i)
            \/ \E s \in Scan : Granted(s) /\ ClaimsAt(i)' \subseteq ClaimsAt(i) \cup {NewClaim(s)}
<1> DEFINE Q == queue[i]
           P == poller[i].hand
           W == worker[i].hand
           In(h) == {h[k] : k \in DOMAIN h}
           Carried == In(q) \cup In(p.hand) \cup In(w.hand)
<1>1. /\ Q \in Seq(Item) /\ P \in Seq(Item) /\ W \in Seq(Item)
  BY InstanceShape DEF WellShaped, Poller, Worker
<1>2. /\ Len(Q) \in Nat /\ DOMAIN Q = 1..Len(Q)
      /\ Len(P) \in Nat /\ DOMAIN P = 1..Len(P)
  BY <1>1, LenProperties
<1>3. /\ queue' = [queue EXCEPT ![i] = q]
      /\ poller' = [poller EXCEPT ![i] = p]
      /\ worker' = [worker EXCEPT ![i] = w]
      /\ DOMAIN queue = Instance /\ DOMAIN poller = Instance /\ DOMAIN worker = Instance
  BY DEF Moves, Becomes, Shape, TypeOK
<1>4. \A j \in Instance \ {i} : ClaimsAt(j)' = ClaimsAt(j)
  BY <1>3 DEF ClaimsAt
<1>5. queue'[i] = q /\ poller'[i] = p /\ worker'[i] = w
  BY <1>3
<1>6. /\ ClaimsAt(i)' = {it \in Carried : it.token # None}
      /\ ClaimsAt(i) = {it \in In(Q) \cup In(P) \cup In(W) : it.token # None}
  BY <1>5 DEF ClaimsAt
<1> HIDE DEF Q, P, W
<1>7. Carried \subseteq In(Q) \cup In(P) \cup In(W) => ClaimsAt(i)' \subseteq ClaimsAt(i)
  BY <1>6
<1>8. CASE Keeps(i, q, p, w)
  <2>1. Carried = In(Q) \cup In(P) \cup In(W)
    BY <1>8 DEF Keeps, Q, P, W
  <2> QED
    BY <1>4, <1>7, <2>1
<1>9. CASE Queues(i, q, p, w)
  <2>1. PICK s \in Scan : q = Append(Q, Unclaimed(s))
    BY <1>9 DEF Queues, Q
  <2>2. /\ DOMAIN q = 1..Len(Q) + 1 /\ q[Len(Q) + 1].token = None
        /\ \A k \in DOMAIN Q : q[k] = Q[k]
    BY <1>1, <1>2, <2>1, UnclaimedType
  <2>3. \A k \in DOMAIN q : q[k].token # None => k \in DOMAIN Q
    BY <1>2, <2>2
  <2>4. \A it \in In(q) : it.token # None => it \in In(Q)
    BY <2>2, <2>3
  <2>5. p.hand = P /\ w.hand = W
    BY <1>9 DEF Queues, P, W
  <2>6. ClaimsAt(i)' \subseteq ClaimsAt(i)
    BY <1>6, <2>4, <2>5
  <2> QED
    BY <1>4, <2>6
<1>10. CASE Polls(i, q, p, w)
  <2>1. PICK s \in Scan : Granted(s) /\ p.hand = <<NewClaim(s)>>
    BY <1>10 DEF Polls
  <2>2. NewClaim(s) \in Item
    BY <2>1, NewClaimType DEF Granted
  <2>3. In(p.hand) = {NewClaim(s)}
    BY <2>1, <2>2, OneItem
  <2>4. q = Q /\ w.hand = W
    BY <1>10 DEF Polls, Q, W
  <2>5. ClaimsAt(i)' \subseteq ClaimsAt(i) \cup {NewClaim(s)}
    BY <1>6, <2>3, <2>4
  <2> QED
    BY <1>4, <2>1, <2>5
<1>11. CASE Offers(i, q, p, w)
  <2>1. /\ DOMAIN q = 1..Len(Q) + Len(P)
        /\ \A k \in 1..Len(Q) + Len(P) : q[k] = IF k <= Len(Q) THEN Q[k] ELSE P[k - Len(Q)]
    <3>1. q = Q \o P
      BY <1>11 DEF Offers, P, Q
    <3>2. q \in Seq(Item) /\ Len(q) = Len(Q) + Len(P)
      BY <1>1, <3>1, ConcatProperties
    <3> QED
      BY <1>1, <3>1, <3>2, ConcatProperties, LenProperties
  <2>2. ASSUME NEW k \in DOMAIN q PROVE q[k] \in In(Q) \cup In(P)
    <3>1. CASE k <= Len(Q)
      BY <1>2, <2>1, <3>1
    <3>2. CASE ~(k <= Len(Q))
      <4>1. k - Len(Q) \in DOMAIN P /\ q[k] = P[k - Len(Q)]
        BY <1>2, <2>1, <3>2
      <4> QED
        BY <4>1
    <3> QED
      BY <3>1, <3>2
  <2>3. In(p.hand) = {} /\ w.hand = W
    BY <1>11 DEF Offers, W
  <2>4. Carried \subseteq In(Q) \cup In(P) \cup In(W)
    BY <2>2, <2>3
  <2> QED
    BY <1>4, <1>7, <2>4
<1>12. CASE Takes(i, q, p, w)
  <2>1. Q # <<>> /\ q = Tail(Q) /\ w.hand = <<Head(Q)>> /\ p.hand = P
    BY <1>12 DEF Takes, Q, P
  <2>2. /\ Head(Q) \in Item /\ q \in Seq(Item) /\ Len(q) = Len(Q) - 1
        /\ \A k \in 1..Len(q) : q[k] = Q[k + 1]
    BY <1>1, <2>1, HeadTailProperties
  <2>3. Len(Q) # 0 /\ Head(Q) = Q[1]
    BY <1>1, <2>1
  <2>4. DOMAIN q = 1..Len(q)
    BY <2>2, LenProperties
  <2>5. \A k \in DOMAIN q : k + 1 \in DOMAIN Q /\ q[k] = Q[k + 1]
    BY <1>2, <2>2, <2>3, <2>4
  <2>6. In(q) \subseteq In(Q)
    BY <2>5
  <2>7. In(w.hand) \subseteq In(Q)
    BY <1>2, <2>1, <2>2, <2>3, OneItem
  <2>8. Carried \subseteq In(Q) \cup In(P) \cup In(W)
    BY <2>1, <2>6, <2>7
  <2> QED
    BY <1>4, <1>7, <2>8
<1>13. CASE Claims(i, q, p, w)
  <2>1. PICK s \in Scan : Granted(s) /\ w.hand = <<NewClaim(s)>>
    BY <1>13 DEF Claims
  <2>2. NewClaim(s) \in Item
    BY <2>1, NewClaimType DEF Granted
  <2>3. In(w.hand) = {NewClaim(s)}
    BY <2>1, <2>2, OneItem
  <2>4. q = Q /\ p.hand = P
    BY <1>13 DEF Claims, Q, P
  <2>5. ClaimsAt(i)' \subseteq ClaimsAt(i) \cup {NewClaim(s)}
    BY <1>6, <2>3, <2>4
  <2> QED
    BY <1>4, <2>1, <2>5
<1>14. CASE Ends(i, q, p, w)
  <2>1. In(<<>>) = {}
    OBVIOUS
  <2>2. Carried \subseteq In(Q) \cup In(P) \cup In(W)
    BY <1>14, <2>1 DEF Ends, Q, P
  <2> QED
    BY <1>4, <1>7, <2>2
<1> QED
  BY <1>8, <1>9, <1>10, <1>11, <1>12, <1>13, <1>14 DEF Moves

\* Every step keeps each claim in one place.
LEMMA ClaimsOnceNext ==
  ASSUME Shape, ClaimsOnce, [Next]_vars
  PROVE  ClaimsOnce'
<1>1. CASE UNCHANGED <<queue, poller, worker>>
  BY <1>1 DEF ClaimsOnce, ClaimTokens, ClaimsAt
<1>2. ASSUME SomeMove PROVE ClaimsOnce'
  <2>1. PICK i \in Instance : \E q, p, w : Moves(i, q, p, w)
    BY <1>2 DEF SomeMove
  <2>2. PICK q, p, w : Moves(i, q, p, w)
    BY <2>1
  <2>3. /\ queue' = [queue EXCEPT ![i] = q]
        /\ poller' = [poller EXCEPT ![i] = p]
        /\ worker' = [worker EXCEPT ![i] = w]
        /\ DOMAIN queue = Instance /\ DOMAIN poller = Instance /\ DOMAIN worker = Instance
    BY <2>2 DEF Moves, Becomes, Shape, TypeOK
  <2>4. ASSUME NEW j \in Instance
        PROVE  OncePerPlace(queue'[j], poller'[j].hand, worker'[j].hand)
    <3>1. CASE j = i
      BY <2>2, <2>3, <3>1, MoveKeepsOnce
    <3>2. CASE j # i
      BY <2>3, <3>2 DEF ClaimsOnce
    <3> QED
      BY <3>1, <3>2
  <2>5. \A j \in Instance \ {i} : ClaimTokens(j)' = ClaimTokens(j)
    BY <2>2, MoveClaims DEF ClaimTokens
  <2>6. \A j \in Instance \ {i} : ClaimTokens(i)' \cap ClaimTokens(j) = {}
    <3>1. CASE ClaimsAt(i)' \subseteq ClaimsAt(i)
      BY <3>1 DEF ClaimTokens, ClaimsOnce
    <3>2. ASSUME NEW s \in Scan, Granted(s),
                 ClaimsAt(i)' \subseteq ClaimsAt(i) \cup {NewClaim(s)}
          PROVE  \A j \in Instance \ {i} : ClaimTokens(i)' \cap ClaimTokens(j) = {}
      <4>1. ClaimTokens(i)' \subseteq ClaimTokens(i) \cup {NewToken}
        BY <3>2, NewClaimType DEF ClaimTokens, Granted
      <4>2. \A j \in Instance : NewToken \notin ClaimTokens(j)
        BY <3>2, NewTokenIsNotHeld DEF ClaimTokens, Granted
      <4> QED
        BY <4>1, <4>2 DEF ClaimsOnce
    <3> QED
      BY <2>2, <3>1, <3>2, MoveClaims
  <2>7. ASSUME NEW j \in Instance, NEW k \in Instance, j # k
        PROVE  ClaimTokens(j)' \cap ClaimTokens(k)' = {}
    BY <2>5, <2>6, <2>7 DEF ClaimsOnce
  <2> QED
    BY <2>4, <2>7 DEF ClaimsOnce
<1> QED
  BY <1>1, <1>2, EveryStepMoves


\* A claim is found at most once in a sequence without repeated claims.
LEMMA FewCopies ==
  ASSUME NEW h \in Seq(Item), NEW tok \in Token, Once(h)
  PROVE  /\ Cardinality({k \in DOMAIN h : h[k].token = tok}) \in {0, 1}
         /\ Cardinality({k \in DOMAIN h : h[k].token = tok}) = 1 =>
              \E k \in DOMAIN h : h[k].token = tok
<1> DEFINE found == {k \in DOMAIN h : h[k].token = tok}
<1>1. tok # None
  BY RowsAssumption
<1>2. found = {} => Cardinality(found) = 0
  BY FS_EmptySet
<1>3. ASSUME NEW k \in found PROVE Cardinality(found) = 1
  <2>1. found = {k}
    BY <1>1, <1>3 DEF Once
  <2> HIDE DEF found
  <2> QED
    BY <2>1, FS_Singleton
<1>4. found # {} => \E k \in DOMAIN h : h[k].token = tok
  OBVIOUS
<1> HIDE DEF found
<1>5. Cardinality(found) \in {0, 1} /\ (Cardinality(found) = 1 => found # {})
  BY <1>2, <1>3
<1> QED
  BY <1>4, <1>5 DEF found

\* A hand is at most one item.
LEMMA HandsAreShort ==
  ASSUME Shape, NEW i \in Instance
  PROVE  /\ poller[i].hand \in Seq(Item) /\ Once(poller[i].hand)
         /\ worker[i].hand \in Seq(Item) /\ Once(worker[i].hand)
<1>1. /\ poller[i].hand \in Seq(Item) /\ PollerAgrees(poller[i])
      /\ worker[i].hand \in Seq(Item) /\ WorkerAgrees(worker[i])
  BY InstanceShape DEF WellShaped, Poller, Worker
<1>2. ASSUME NEW h \in Seq(Item), h = <<>> \/ Len(h) = 1 PROVE Once(h)
  BY <1>2 DEF Once
<1> QED
  BY <1>1, <1>2 DEF PollerAgrees, WorkerAgrees

\* A claim in one place is an exclusive claim.
LEMMA ClaimsOnceExcludes ==
  ASSUME Shape, ClaimsOnce
  PROVE  ClaimsAreExclusive
<1> SUFFICES ASSUME NEW tok \in Token
             PROVE  /\ \A i \in Instance : Copies(i, tok) <= 1
                    /\ \A i, j \in Instance :
                         Copies(i, tok) > 0 /\ Copies(j, tok) > 0 => i = j
  BY DEF ClaimsAreExclusive
<1>1. tok # None
  BY RowsAssumption
<1>2. ASSUME NEW i \in Instance
      PROVE  /\ Copies(i, tok) <= 1
             /\ Copies(i, tok) > 0 => tok \in ClaimTokens(i)
  <2> DEFINE Q == queue[i]
             P == poller[i].hand
             W == worker[i].hand
             cq == Cardinality({k \in DOMAIN Q : Q[k].token = tok})
             cp == Cardinality({k \in DOMAIN P : P[k].token = tok})
             cw == Cardinality({k \in DOMAIN W : W[k].token = tok})
  <2>1. Q \in Seq(Item) /\ Once(Q) /\ Apart(Q, P) /\ Apart(Q, W) /\ Apart(P, W)
    BY DEF Shape, TypeOK, ClaimsOnce, OncePerPlace
  <2>2. P \in Seq(Item) /\ Once(P) /\ W \in Seq(Item) /\ Once(W)
    BY HandsAreShort
  <2>3. Copies(i, tok) = cq + cp + cw
    BY DEF Copies
  <2>4. /\ \A k \in DOMAIN Q : Q[k].token = tok => tok \in ClaimTokens(i)
        /\ \A k \in DOMAIN P : P[k].token = tok => tok \in ClaimTokens(i)
        /\ \A k \in DOMAIN W : W[k].token = tok => tok \in ClaimTokens(i)
    BY <1>1, ClaimPlace DEF ClaimTokens
  <2> HIDE DEF Q, P, W
  <2>5. /\ cq \in {0, 1} /\ (cq = 1 => \E k \in DOMAIN Q : Q[k].token = tok)
        /\ cp \in {0, 1} /\ (cp = 1 => \E k \in DOMAIN P : P[k].token = tok)
        /\ cw \in {0, 1} /\ (cw = 1 => \E k \in DOMAIN W : W[k].token = tok)
    BY <2>1, <2>2, FewCopies
  <2>6. ~(cq = 1 /\ cp = 1) /\ ~(cq = 1 /\ cw = 1) /\ ~(cp = 1 /\ cw = 1)
    BY <1>1, <2>1, <2>5 DEF Apart
  <2>7. (cq = 1 \/ cp = 1 \/ cw = 1) => tok \in ClaimTokens(i)
    BY <2>4, <2>5
  <2> HIDE DEF cq, cp, cw
  <2> QED
    BY <2>3, <2>5, <2>6, <2>7
<1>3. \A i, j \in Instance : Copies(i, tok) > 0 /\ Copies(j, tok) > 0 => i = j
  BY <1>2 DEF ClaimsOnce
<1> QED
  BY <1>2, <1>3

-----------------------------------------------------------------------------
(***************************************************************************)
(* Times have passed.                                                      *)
(***************************************************************************)

\* What a step does to the times an instance has read.
LEMMA ReadingsMove ==
  ASSUME Shape, [Next]_vars, NEW i \in Instance
  PROVE  /\ poller'[i].claimedAt \in {poller[i].claimedAt, clock, 0}
         /\ worker'[i].pc = "completing" =>
              \/ worker'[i] = worker[i]
              \/ /\ worker[i].pc = "analyzing" /\ worker'[i].hand = worker[i].hand
                 /\ worker'[i].completedAt = clock
<1> DEFINE PollerGoal == poller'[i].claimedAt \in {poller[i].claimedAt, clock, 0}
           WorkerGoal == worker'[i].pc = "completing" =>
              \/ worker'[i] = worker[i]
              \/ /\ worker[i].pc = "analyzing" /\ worker'[i].hand = worker[i].hand
                 /\ worker'[i].completedAt = clock
<1>1. DOMAIN poller = Instance /\ worker \in [Instance -> Worker]
  BY DEF Shape, TypeOK, Worker
<1>2. (UNCHANGED poller => PollerGoal) /\ (UNCHANGED worker => WorkerGoal)
  OBVIOUS
<1>3. ASSUME NEW j \in Instance, NEW pc \in {"idle", "dead"}, Finish(j, pc) PROVE WorkerGoal
  <2>1. [IdleWorker EXCEPT !.pc = pc].pc # "completing"
    BY DEF IdleWorker
  <2> QED
    BY <1>1, <1>3, <2>1 DEF Finish
<1>4. ASSUME NEW j \in Instance, NEW pc, pc # "completing", Goto(j, pc) PROVE WorkerGoal
  <2>1. [worker[j] EXCEPT !.pc = pc].pc = pc
    BY <1>1 DEF Worker
  <2> QED
    BY <1>1, <1>4, <2>1 DEF Goto
<1>5. ASSUME NEW s \in Scan, Request(s) \/ Lapse(s) PROVE UNCHANGED <<poller, worker>>
  BY <1>5 DEF Request, CreateScan, Enqueue, Release, Lapse
<1>6. ASSUME NEW j \in Instance, NEW s \in Scan, Reserve(j, s) PROVE UNCHANGED <<poller, worker>>
  BY <1>6 DEF Reserve
<1>7. ASSUME NEW j \in Instance, Poll(j) PROVE PollerGoal /\ UNCHANGED worker
  <2>1. (\E p \in Poller : p.claimedAt \in {clock, 0} /\ poller' = [poller EXCEPT ![j] = p])
        \/ UNCHANGED poller
    <3>1. IdlePoller.claimedAt = 0
      BY DEF IdlePoller
    <3>2. CASE poller' = [poller EXCEPT ![j] = IdlePoller]
      BY <3>1, <3>2, IdlePollerType
    <3>3. CASE PollStart(j)
      <4> DEFINE p == [IdlePoller EXCEPT !.pc = "claiming", !.claimedAt = clock]
      <4>1. clock \in Nat
        BY DEF Shape, TypeOK
      <4>2. p \in Poller /\ p.claimedAt = clock
        BY <4>1, IdlePollerType DEF Poller
      <4> QED
        BY <3>3, <4>2 DEF PollStart
    <3>4. ASSUME NEW s \in Scan, UnusedTokens # {},
                 poller' = [poller EXCEPT ![j] =
                   [IdlePoller EXCEPT !.pc = "offering", !.hand = <<NewClaim(s)>>]]
          PROVE  \E p \in Poller : p.claimedAt \in {clock, 0} /\ poller' = [poller EXCEPT ![j] = p]
      <4> DEFINE p == [IdlePoller EXCEPT !.pc = "offering", !.hand = <<NewClaim(s)>>]
      <4>1. <<NewClaim(s)>> \in Seq(Item)
        BY <3>4, NewClaimType, OneItem
      <4>2. p \in Poller /\ p.claimedAt = 0
        BY <3>1, <4>1, IdlePollerType DEF Poller
      <4> QED
        BY <3>4, <4>2
    <3>5. NextClaimable(j) \subseteq Scan
      BY DEF NextClaimable
    <3> QED
      BY <1>7, <3>2, <3>3, <3>4, <3>5 DEF Poll, PollClaim, PollOffer, NewClaim
  <2> QED
    BY <1>1, <1>7, <2>1 DEF Poll, PollStart, PollClaim, PollOffer
<1>8. ASSUME NEW j \in Instance, Protocol(j) PROVE WorkerGoal /\ UNCHANGED poller
  <2>1. UNCHANGED poller
    BY <1>8 DEF Protocol, Take, ClaimOwn, FirstRenewal, StartProtocol, CompleteClaimed,
                ProtocolDone, FailClaimed
  <2>2. CASE Take(j)
    <3> DEFINE it == Head(queue[j])
               w == [IdleWorker EXCEPT !.pc = IF it.token = None THEN "claiming" ELSE "renewing",
                                       !.hand = <<it>>, !.own = it.token = None]
    <3>1. worker' = [worker EXCEPT ![j] = w] /\ w.pc # "completing"
      BY <2>2 DEF Take, IdleWorker
    <3> HIDE DEF w
    <3> QED
      BY <2>1, <1>1, <3>1
  <2>3. CASE ClaimOwn(j)
    <3> DEFINE w(s) == [worker[j] EXCEPT !.pc = "renewing", !.hand = <<NewClaim(s)>>]
    <3>1. worker[j] \in Worker
      BY <1>1
    <3>2. \A s : w(s).pc = "renewing"
      BY <3>1 DEF Worker
    <3>3. \/ Finish(j, "dead") \/ Finish(j, "idle")
          \/ worker' = [worker EXCEPT ![j] = w(InHand(j).scan)]
      BY <1>1, <2>3 DEF ClaimOwn, NewClaim
    <3> HIDE DEF w
    <3> QED
      BY <2>1, <1>1, <1>3, <3>2, <3>3
  <2>4. CASE FirstRenewal(j) \/ StartProtocol(j) \/ CompleteClaimed(j)
    BY <1>4, <2>4 DEF FirstRenewal, StartProtocol, CompleteClaimed
  <2>5. CASE ProtocolDone(j) \/ FailClaimed(j)
    BY <1>3, <2>5 DEF ProtocolDone, FailClaimed
  <2> QED
    BY <1>8, <2>1, <2>2, <2>3, <2>4, <2>5 DEF Protocol
<1>9. ASSUME NEW j \in Instance, AnalysisEnds(j) PROVE WorkerGoal /\ UNCHANGED poller
  <2>1. CASE Goto(j, "failing")
    BY <1>4, <1>9, <2>1 DEF AnalysisEnds
  <2>2. CASE worker' = [worker EXCEPT ![j].pc = "completing", ![j].completedAt = clock]
    <3> DEFINE w == [worker[j] EXCEPT !.pc = "completing", !.completedAt = clock]
    <3>1. w.hand = worker[j].hand /\ w.completedAt = clock
      BY <1>1 DEF Worker
    <3>2. worker' = [worker EXCEPT ![j] = w]
      BY <1>1, <2>2
    <3> HIDE DEF w
    <3> QED
      BY <1>1, <1>9, <3>1, <3>2 DEF AnalysisEnds, At
  <2> QED
    BY <1>9, <2>1, <2>2 DEF AnalysisEnds
<1>10. ASSUME NEW j \in Instance, Heartbeat(j) PROVE WorkerGoal /\ UNCHANGED poller
  BY <1>2, <1>4, <1>10 DEF Heartbeat
<1>11. ASSUME NEW j \in Instance, NEW p \in 0..FullProgress, Observe(j, p)
       PROVE  UNCHANGED <<poller, worker>>
  BY <1>11 DEF Observe
<1>12. ASSUME NEW j \in Instance, Crash(j) PROVE PollerGoal /\ WorkerGoal
  BY <1>1, <1>12 DEF Crash, IdlePoller, IdleWorker
<1>13. CASE UNCHANGED vars
  BY <1>13 DEF vars
<1> QED
  BY <1>2, <1>5, <1>6, <1>7, <1>8, <1>9, <1>10, <1>11, <1>12, <1>13 DEF Next

\* Claims in hand after a step, and the times they were made.
LEMMA ClaimsMove ==
  ASSUME Shape, [Next]_vars, NEW i \in Instance, NEW it \in ClaimsAt(i)'
  PROVE  \/ it \in ClaimsAt(i)
         \/ \E s \in Scan : Granted(s) /\ it = NewClaim(s)
<1>1. CASE UNCHANGED <<queue, poller, worker>>
  BY <1>1 DEF ClaimsAt
<1>2. CASE SomeMove
  <2>1. PICK j \in Instance : \E q, p, w : Moves(j, q, p, w)
    BY <1>2 DEF SomeMove
  <2>2. PICK q, p, w : Moves(j, q, p, w)
    BY <2>1
  <2> QED
    BY <2>2, MoveClaims
<1> QED
  BY <1>1, <1>2, EveryStepMoves

\* Claims in hand are queue items with a token.
LEMMA ClaimsTyped ==
  ASSUME Shape, NEW i \in Instance, NEW it \in ClaimsAt(i)
  PROVE  it \in Item /\ it.token \in Token /\ it.since \in Nat /\ it.scan \in Scan
<1> DEFINE Q == queue[i]
           P == poller[i].hand
           W == worker[i].hand
<1>1. Q \in Seq(Item) /\ P \in Seq(Item) /\ W \in Seq(Item)
  BY InstanceShape DEF WellShaped, Poller, Worker
<1>2. /\ it \in {Q[k] : k \in DOMAIN Q} \cup {P[k] : k \in DOMAIN P} \cup {W[k] : k \in DOMAIN W}
      /\ it.token # None
  BY DEF ClaimsAt
<1> HIDE DEF Q, P, W
<1>3. ASSUME NEW h \in Seq(Item), NEW k \in DOMAIN h PROVE h[k] \in Item
  BY <1>3, LenProperties, ElementOfSeq
<1>4. it \in Item
  BY <1>1, <1>2, <1>3
<1> QED
  BY <1>2, <1>4 DEF Item

\* Every step keeps the readings of the clock behind the clock.
LEMMA TimesNext ==
  ASSUME Shape, \A i \in Instance : TimesAgree(i), [Next]_vars, NEW i \in Instance
  PROVE  TimesAgree(i)'
<1>1. clock \in Nat /\ clock' \in Nat /\ clock <= clock'
  BY RequestsMove DEF Shape, TypeOK
<1>2. poller[i].claimedAt \in Nat /\ poller[i].claimedAt <= clock
  BY DEF TimesAgree, Shape, TypeOK
<1>3. poller'[i].claimedAt <= clock'
  BY <1>1, <1>2, ReadingsMove
<1>4. ASSUME NEW it \in ClaimsAt(i)' PROVE it.since <= clock'
  <2>1. CASE it \in ClaimsAt(i)
    <3>1. it.since \in Nat
      BY <2>1, ClaimsTyped
    <3>2. it.since <= clock
      BY <2>1 DEF TimesAgree
    <3> QED
      BY <1>1, <3>1, <3>2
  <2>2. CASE \E s \in Scan : it = NewClaim(s)
    BY <1>1, <2>2 DEF NewClaim
  <2> QED
    BY <2>1, <2>2, ClaimsMove
<1>5. ASSUME worker'[i].pc = "completing"
      PROVE  worker'[i].completedAt \in InHand(i)'.since..clock'
  <2>1. CASE worker'[i] = worker[i]
    <3>1. InHand(i)' = InHand(i) /\ worker[i].pc = "completing"
      BY <1>5, <2>1 DEF InHand
    <3>2. InHand(i).since \in Nat
      BY <3>1, HeldClaim DEF Working
    <3>3. worker[i].completedAt \in InHand(i).since..clock
      BY <3>1 DEF TimesAgree
    <3> QED
      BY <1>1, <2>1, <3>1, <3>2, <3>3
  <2>2. CASE /\ worker[i].pc = "analyzing" /\ worker'[i].hand = worker[i].hand
             /\ worker'[i].completedAt = clock
    <3>1. InHand(i)' = InHand(i)
      BY <2>2 DEF InHand
    <3>2. InHand(i).since \in Nat /\ InHand(i) \in ClaimsAt(i)
      BY <2>2, HeldClaim DEF Working
    <3>3. InHand(i).since <= clock
      BY <3>2 DEF TimesAgree
    <3> QED
      BY <1>1, <2>2, <3>1, <3>2, <3>3
  <2> QED
    BY <1>5, <2>1, <2>2, ReadingsMove
<1> QED
  BY <1>3, <1>4, <1>5 DEF TimesAgree

-----------------------------------------------------------------------------
(***************************************************************************)
(* Admission entries follow their scans.                                   *)
(***************************************************************************)

\* What AdmissionsAccounted and EnteredOnce say of one entry.
Accounted(i, s) ==
  /\ EnteredOnce(i, s)
  /\ admissions[i][s] = "attached" <=> Entered(i, s)
  /\ admissions[i][s] = "reserved" =>
       api[s].at = i /\ api[s].pc \in {"inserting", "created", "releasing"}

\* What the accounts of admissions say, in two parts.
LEMMA AccountedIsBoth ==
  (\A i \in Instance, s \in Scan : Accounted(i, s))
    <=> (\A i \in Instance, s \in Scan : EnteredOnce(i, s)) /\ AdmissionsAccounted
<1>1. \A i \in Instance, s \in Scan :
        Entered(i, s) <=> \/ \E k \in DOMAIN queue[i] : queue[i][k] = Unclaimed(s)
                          \/ worker[i].own /\ InHand(i).scan = s
  BY DEF Entered, OwnIn, WaitsIn, InHand
<1> QED
  BY <1>1 DEF Accounted, AdmissionsAccounted

\* A step that moves neither the entry nor its scan, and its request only on.
LEMMA EntryStays ==
  ASSUME NEW i \in Instance, NEW s \in Scan, Accounted(i, s),
         queue'[i] = queue[i], worker'[i].own = worker[i].own,
         worker'[i].hand = worker[i].hand, admissions'[i][s] = admissions[i][s],
         \/ api'[s] = api[s]
         \/ /\ api'[s].at = api[s].at
            /\ api[s].pc \in {"inserting", "created"} /\ api'[s].pc \in {"created", "releasing"}
  PROVE  Accounted(i, s)'
<1>1. /\ WaitsIn(queue[i], s)' = WaitsIn(queue[i], s)
      /\ OwnIn(worker[i], s)' <=> OwnIn(worker[i], s)
  BY DEF WaitsIn, OwnIn
<1> QED
  BY <1>1 DEF Accounted, EnteredOnce, Entered

\* The types an entry's lemmas need.
LEMMA EntryTypes ==
  ASSUME Shape, NEW i \in Instance
  PROVE  /\ queue \in [Instance -> Seq(Item)]
         /\ worker \in [Instance -> Worker]
         /\ admissions \in [Instance -> [Scan -> {"none", "reserved", "attached"}]]
         /\ api \in [Scan -> RequestRecord]
         /\ Len(queue[i]) \in Nat /\ DOMAIN queue[i] = 1..Len(queue[i])
<1>1. queue[i] \in Seq(Item)
  BY DEF Shape, TypeOK
<1> QED
  BY <1>1, LenProperties DEF Shape, TypeOK, Worker, RequestRecord

\* A sequence of one item is put behind by appending that item.
LEMMA OneBehind ==
  ASSUME NEW q \in Seq(Item), NEW h \in Seq(Item), Len(h) = 1
  PROVE  q \o h = Append(q, h[1])
<1>1. Len(q) \in Nat /\ h[1] \in Item
  <2>1. Len(q) \in Nat
    BY LenProperties
  <2>2. 1 \in 1..Len(h)
    OBVIOUS
  <2>3. h[1] \in Item
    BY <2>2, ElementOfSeq
  <2> QED
    BY <2>1, <2>3
<1>2. /\ q \o h \in Seq(Item) /\ Len(q \o h) = Len(q) + Len(h)
      /\ \A k \in 1..Len(q) + Len(h) :
           (q \o h)[k] = IF k <= Len(q) THEN q[k] ELSE h[k - Len(q)]
  BY ConcatProperties
<1>3. /\ Append(q, h[1]) \in Seq(Item) /\ Len(Append(q, h[1])) = Len(q) + 1
      /\ \A k \in 1..Len(q) : Append(q, h[1])[k] = q[k]
      /\ Append(q, h[1])[Len(q) + 1] = h[1]
  BY <1>1
<1>4. ASSUME NEW k \in 1..Len(q) + 1 PROVE (q \o h)[k] = Append(q, h[1])[k]
  <2>1. k \in 1..Len(q) + Len(h)
    BY <1>1
  <2>2. CASE k <= Len(q)
    BY <1>1, <1>2, <1>3, <2>1, <2>2
  <2>3. CASE ~(k <= Len(q))
    <3>1. k = Len(q) + 1 /\ k - Len(q) = 1
      BY <1>1, <2>3
    <3> QED
      BY <1>2, <1>3, <2>1, <2>3, <3>1
  <2> QED
    BY <2>2, <2>3
<1>5. Len(q \o h) = Len(Append(q, h[1])) /\ Len(q \o h) = Len(q) + 1
  BY <1>1, <1>2, <1>3
<1> QED
  BY <1>2, <1>3, <1>4, <1>5, SeqEqual

\* Where a scan waits when an item comes in behind.
LEMMA WaitsBehind ==
  ASSUME NEW q \in Seq(Item), NEW it \in Item, NEW s
  PROVE  /\ it # Unclaimed(s) => WaitsIn(Append(q, it), s) = WaitsIn(q, s)
         /\ it = Unclaimed(s) => WaitsIn(Append(q, it), s) = WaitsIn(q, s) \cup {Len(q) + 1}
<1> DEFINE r == Append(q, it)
<1>1. Len(q) \in Nat /\ DOMAIN q = 1..Len(q)
  BY LenProperties
<1>2. /\ DOMAIN r = 1..Len(q) + 1 /\ r[Len(q) + 1] = it
      /\ \A k \in 1..Len(q) : r[k] = q[k]
  OBVIOUS
<1> HIDE DEF r
<1>3. ASSUME NEW k
      PROVE  k \in WaitsIn(r, s) <=> k \in WaitsIn(q, s) \/ (k = Len(q) + 1 /\ it = Unclaimed(s))
  <2>1. CASE k = Len(q) + 1
    BY <1>1, <1>2, <2>1 DEF WaitsIn
  <2>2. CASE k # Len(q) + 1
    <3>1. k \in DOMAIN r <=> k \in DOMAIN q
      BY <1>1, <1>2, <2>2
    <3> QED
      BY <1>1, <1>2, <2>2, <3>1 DEF WaitsIn
  <2> QED
    BY <2>1, <2>2
<1> QED
  BY <1>3 DEF r

\* Where a scan waits when the first item is taken.
LEMMA WaitsAfterTake ==
  ASSUME NEW q \in Seq(Item), q # <<>>, NEW s
  PROVE  /\ \A k : k \in WaitsIn(Tail(q), s) => k \in Nat /\ k + 1 \in WaitsIn(q, s) /\ k + 1 # 1
         /\ \A k \in WaitsIn(q, s) : k = 1 \/ k - 1 \in WaitsIn(Tail(q), s)
         /\ 1 \in WaitsIn(q, s) <=> Head(q) = Unclaimed(s)
<1> DEFINE r == Tail(q)
<1>1. /\ Len(q) \in Nat /\ Len(q) # 0 /\ DOMAIN q = 1..Len(q) /\ Head(q) = q[1]
  BY LenProperties
<1>2. /\ r \in Seq(Item) /\ Len(r) = Len(q) - 1
      /\ \A k \in 1..Len(r) : r[k] = q[k + 1]
  BY HeadTailProperties
<1>3. DOMAIN r = 1..Len(r)
  BY <1>2, LenProperties
<1> HIDE DEF r
<1>4. ASSUME NEW k \in WaitsIn(r, s) PROVE k \in Nat /\ k + 1 \in WaitsIn(q, s) /\ k + 1 # 1
  BY <1>1, <1>2, <1>3 DEF WaitsIn
<1>5. ASSUME NEW k \in WaitsIn(q, s), k # 1 PROVE k - 1 \in WaitsIn(r, s)
  <2>1. k \in 1..Len(q) /\ q[k] = Unclaimed(s)
    BY <1>1 DEF WaitsIn
  <2>2. k - 1 \in 1..Len(r) /\ (k - 1) + 1 = k
    BY <1>1, <1>2, <1>5, <2>1
  <2>3. r[k - 1] = q[k]
    BY <1>2, <2>2
  <2> QED
    BY <1>3, <2>1, <2>2, <2>3 DEF WaitsIn
<1>6. 1 \in WaitsIn(q, s) <=> Head(q) = Unclaimed(s)
  BY <1>1 DEF WaitsIn
<1> QED
  BY <1>4, <1>5, <1>6 DEF r

\* A worker that goes on keeps its scan and whose it is.
LEMMA GoingOnKeepsEntry ==
  ASSUME Shape, NEW i \in Instance, NEW pc, NEW n,
         \/ Goto(i, pc)
         \/ worker' = [worker EXCEPT ![i].pc = pc, ![i].completedAt = n]
  PROVE  \A j \in Instance : /\ worker'[j].own = worker[j].own
                             /\ worker'[j].hand = worker[j].hand
<1>1. worker \in [Instance -> Worker]
  BY EntryTypes
<1>2. PICK w : /\ worker' = [worker EXCEPT ![i] = w]
               /\ w.own = worker[i].own /\ w.hand = worker[i].hand
  <2>1. worker[i] \in Worker
    BY <1>1
  <2>2. CASE Goto(i, pc)
    <3> DEFINE w == [worker[i] EXCEPT !.pc = pc]
    <3>1. worker' = [worker EXCEPT ![i] = w]
      BY <1>1, <2>2 DEF Goto
    <3>2. w.own = worker[i].own /\ w.hand = worker[i].hand
      BY <2>1 DEF Worker
    <3> QED
      BY <3>1, <3>2
  <2>3. CASE worker' = [worker EXCEPT ![i].pc = pc, ![i].completedAt = n]
    <3> DEFINE w == [worker[i] EXCEPT !.pc = pc, !.completedAt = n]
    <3>1. worker' = [worker EXCEPT ![i] = w]
      BY <1>1, <2>3
    <3>2. w.own = worker[i].own /\ w.hand = worker[i].hand
      BY <2>1 DEF Worker
    <3> QED
      BY <3>1, <3>2
  <2> QED
    BY <2>2, <2>3
<1> QED
  BY <1>1, <1>2

\* admission.enqueue.
LEMMA EnqueueAccounts ==
  ASSUME Shape, \A i \in Instance, t \in Scan : Accounted(i, t),
         NEW s \in Scan, Enqueue(s), NEW j \in Instance, NEW t \in Scan
  PROVE  Accounted(j, t)'
<1>1. PICK i \in Instance : i = api[s].at
  BY EnqueueMove
<1>2. /\ queue' = [queue EXCEPT ![i] = Append(queue[i], Unclaimed(s))]
      /\ admissions' = [admissions EXCEPT ![i][s] = "attached"]
      /\ api' = [api EXCEPT ![s].pc = "releasing"]
      /\ UNCHANGED worker /\ api[s].pc = "created"
  BY <1>1 DEF Enqueue
<1>3. EnteredOnce(j, t) /\ Accounted(j, t) /\ Accounted(i, s)
  BY <1>1 DEF Accounted
<1>4. api' \in [Scan -> RequestRecord] /\ api'[s].at = i /\ api'[s].pc = "releasing"
      /\ \A u \in Scan \ {s} : api'[u] = api[u]
  BY <1>1, <1>2, EntryTypes DEF RequestRecord
<1>5. CASE j # i \/ t # s
  <2>1. CASE j # i
    <3>1. queue'[j] = queue[j] /\ admissions'[j][t] = admissions[j][t]
      BY <1>1, <1>2, <2>1, EntryTypes
    <3> QED
      BY <1>2, <1>3, <1>4, <3>1, EntryStays
  <2>2. CASE j = i /\ t # s
    <3>1. /\ admissions'[j][t] = admissions[j][t] /\ api'[t] = api[t] /\ worker'[j] = worker[j]
      BY <1>1, <1>2, <1>4, <2>2, EntryTypes
    <3>2. queue'[j] = Append(queue[j], Unclaimed(s))
      BY <1>1, <1>2, <2>2, EntryTypes
    <3>3. WaitsIn(queue'[j], t) = WaitsIn(queue[j], t)
      <4>1. Unclaimed(s) # Unclaimed(t) /\ Unclaimed(s) \in Item /\ queue[j] \in Seq(Item)
        BY <2>2, UnclaimedType, EntryTypes
      <4> QED
        BY <3>2, <4>1, WaitsBehind
    <3> QED
      BY <1>3, <3>1, <3>3 DEF Accounted, EnteredOnce, Entered
  <2> QED
    BY <1>5, <2>1, <2>2
<1>6. CASE j = i /\ t = s
  <2>1. ~Entered(i, s) /\ WaitsIn(queue[i], s) = {} /\ ~OwnIn(worker[i], s)
    BY <1>2, <1>3 DEF Accounted, EnteredOnce, Entered
  <2>2. WaitsIn(queue'[i], s) = {Len(queue[i]) + 1}
    <3>1. queue'[i] = Append(queue[i], Unclaimed(s)) /\ Unclaimed(s) \in Item
          /\ queue[i] \in Seq(Item)
      BY <1>1, <1>2, EntryTypes, UnclaimedType
    <3> QED
      BY <2>1, <3>1, WaitsBehind
  <2>3. admissions'[i][s] = "attached"
    BY <1>1, <1>2, EntryTypes
  <2>4. Entered(i, s)' /\ ~OwnIn(worker'[i], s)
    BY <1>2, <2>1, <2>2 DEF Entered
  <2>5. EnteredOnce(i, s)'
    BY <1>4, <2>2, <2>4 DEF EnteredOnce
  <2> QED
    BY <1>6, <2>3, <2>4, <2>5 DEF Accounted
<1> QED
  BY <1>5, <1>6

\* admission.release.
LEMMA ReleaseAccounts ==
  ASSUME Shape, \A i \in Instance, t \in Scan : Accounted(i, t),
         NEW s \in Scan, Release(s), NEW j \in Instance, NEW t \in Scan
  PROVE  Accounted(j, t)'
<1>1. PICK i \in Instance : i = api[s].at /\ api[s].pc = "releasing"
  BY DEF Release, Shape, RequestAgrees
<1>2. /\ UNCHANGED <<queue, worker>>
      /\ admissions' = [admissions EXCEPT ![i][s] = IF @ = "attached" THEN @ ELSE "none"]
      /\ api' = [api EXCEPT ![s].pc = "done"]
  BY <1>1 DEF Release
<1>3. api'[s].at = i /\ api'[s].pc = "done" /\ \A u \in Scan \ {s} : api'[u] = api[u]
  BY <1>1, <1>2, EntryTypes DEF RequestRecord
<1>4. Accounted(j, t)
  OBVIOUS
<1>5. CASE t # s
  <2>1. admissions'[j][t] = admissions[j][t]
    BY <1>1, <1>2, <1>5, EntryTypes
  <2> QED
    BY <1>2, <1>3, <1>4, <1>5, <2>1, EntryStays
<1>6. CASE t = s
  <2>1. Entered(j, t)' <=> Entered(j, t)
    BY <1>2 DEF Entered
  <2>2. admissions'[j][s] = IF j = i THEN (IF admissions[i][s] = "attached" THEN "attached" ELSE "none")
                            ELSE admissions[j][s]
    BY <1>1, <1>2, EntryTypes
  <2>3. j # i => admissions[j][s] # "reserved"
    BY <1>1, <1>4, <1>6 DEF Accounted
  <2>4. admissions'[j][s] = "attached" <=> admissions[j][s] = "attached"
    BY <2>2
  <2>5. admissions'[j][s] # "reserved"
    BY <2>2, <2>3
  <2> QED
    BY <1>2, <1>3, <1>4, <1>6, <2>1, <2>4, <2>5 DEF Accounted, EnteredOnce
<1> QED
  BY <1>5, <1>6

\* reserve.
LEMMA ReserveAccounts ==
  ASSUME Shape, \A i \in Instance, t \in Scan : Accounted(i, t),
         NEW i \in Instance, NEW s \in Scan, Reserve(i, s), NEW j \in Instance, NEW t \in Scan
  PROVE  Accounted(j, t)'
<1>1. /\ UNCHANGED <<queue, worker>> /\ api[s].pc = "idle"
      /\ admissions' = [admissions EXCEPT ![i][s] = "reserved"]
      /\ api' = [api EXCEPT ![s] = [pc |-> "inserting", at |-> i, createdAt |-> clock']]
  BY DEF Reserve
<1>2. Accounted(j, t) /\ api[s].at = None /\ None \notin Instance
  BY <1>1, RunnerAssumption DEF Shape, RequestAgrees
<1>3. api'[s].at = i /\ api'[s].pc = "inserting" /\ \A u \in Scan \ {s} : api'[u] = api[u]
  BY <1>1, EntryTypes
<1>4. CASE t # s
  <2>1. admissions'[j][t] = admissions[j][t]
    BY <1>1, <1>4, EntryTypes
  <2> QED
    BY <1>1, <1>2, <1>3, <1>4, <2>1, EntryStays
<1>5. CASE t = s
  <2>1. ~Entered(j, s) /\ admissions[j][s] # "reserved" /\ admissions[j][s] # "attached"
    BY <1>1, <1>2, <1>5 DEF Accounted, EnteredOnce
  <2>2. admissions'[j][s] = IF j = i THEN "reserved" ELSE admissions[j][s]
    BY <1>1, EntryTypes
  <2>3. ~Entered(j, s)'
    BY <1>1, <2>1 DEF Entered
  <2>4. WaitsIn(queue'[j], s) = {} /\ ~OwnIn(worker'[j], s)
    BY <2>3 DEF Entered
  <2> QED
    BY <1>3, <1>5, <2>1, <2>2, <2>3, <2>4 DEF Accounted, EnteredOnce
<1> QED
  BY <1>4, <1>5


\* recoverOne offers the claim it has.
LEMMA PollOfferAccounts ==
  ASSUME Shape, NEW i \in Instance, PollOffer(i),
         NEW j \in Instance, NEW t \in Scan, Accounted(j, t)
  PROVE  Accounted(j, t)'
<1>1. UNCHANGED <<worker, admissions, api>>
  BY DEF PollOffer
<1>2. CASE j # i
  <2>1. queue'[j] = queue[j]
    BY <1>2, EntryTypes DEF PollOffer
  <2> QED
    BY <1>1, <2>1, EntryStays
<1>3. CASE j = i
  <2> DEFINE q == queue[i]
             h == poller[i].hand
  <2>1. q \in Seq(Item) /\ h \in Seq(Item) /\ Len(h) = 1 /\ IsClaim(h[1])
    BY InstanceShape DEF WellShaped, Poller, PollerAgrees, PollOffer
  <2>2. h[1] \in Item /\ h[1] # Unclaimed(t)
    BY <2>1, UnclaimedType, ElementOfSeq DEF IsClaim
  <2>3. q \o h = Append(q, h[1])
    BY <2>1, OneBehind
  <2>4. queue'[i] = Append(q, h[1])
    BY <2>3, EntryTypes DEF PollOffer
  <2>5. WaitsIn(queue'[i], t) = WaitsIn(queue[i], t)
    BY <2>1, <2>2, <2>4, WaitsBehind
  <2> QED
    BY <1>1, <1>3, <2>5 DEF Accounted, EnteredOnce, Entered
<1> QED
  BY <1>2, <1>3

\* The worker takes the first item.
LEMMA TakeAccounts ==
  ASSUME Shape, NEW i \in Instance, Take(i),
         NEW j \in Instance, NEW t \in Scan, Accounted(j, t)
  PROVE  Accounted(j, t)'
<1>1. UNCHANGED <<admissions, api>>
  BY DEF Take
<1>2. CASE j # i
  <2>1. queue'[j] = queue[j] /\ worker'[j] = worker[j]
    BY <1>2, EntryTypes DEF Take
  <2> QED
    BY <1>1, <2>1, EntryStays
<1>3. CASE j = i
  <2> DEFINE q == queue[i]
             it == Head(q)
             own == it.token = None
             w == [IdleWorker EXCEPT !.pc = IF own THEN "claiming" ELSE "renewing",
                                     !.hand = <<it>>, !.own = own]
  <2>1. q \in Seq(Item) /\ q # <<>> /\ QueueAgrees(q)
    BY InstanceShape DEF WellShaped, Take
  <2>2. it \in Item /\ (IsUnclaimed(it) \/ IsClaim(it))
    BY <2>1, LenProperties DEF QueueAgrees
  <2>3. queue'[i] = Tail(q) /\ worker'[i] = w
    BY EntryTypes DEF Take
  <2>4. ~worker[i].own
    BY InstanceShape DEF WellShaped, WorkerAgrees, Working, Take, At
  <2>5. (w.own <=> own) /\ w.hand[1] = it
    BY DEF IdleWorker
  <2>6. own /\ it.scan = t <=> it = Unclaimed(t)
    BY <2>2, UnclaimedType DEF IsUnclaimed, IsClaim
  <2> HIDE DEF q, it, own, w
  <2>7. OwnIn(worker'[i], t) <=> 1 \in WaitsIn(q, t)
    BY <2>1, <2>3, <2>5, <2>6, WaitsAfterTake DEF OwnIn, it
  <2>8. Entered(i, t)' <=> Entered(i, t)
    BY <2>1, <2>3, <2>4, <2>7, WaitsAfterTake DEF Entered, OwnIn, q
  <2>9. \A k, l \in WaitsIn(queue'[i], t) : k = l
    <3> SUFFICES ASSUME NEW k \in WaitsIn(Tail(q), t), NEW l \in WaitsIn(Tail(q), t)
                 PROVE  k = l
      BY <2>3
    <3>1. k \in Nat /\ l \in Nat /\ k + 1 = l + 1
      BY <1>3, <2>1, WaitsAfterTake DEF Accounted, EnteredOnce, q
    <3> QED
      BY <3>1
  <2>10. OwnIn(worker'[i], t) => WaitsIn(queue'[i], t) = {}
    <3> SUFFICES ASSUME 1 \in WaitsIn(q, t), NEW k \in WaitsIn(Tail(q), t)
                 PROVE  FALSE
      BY <2>3, <2>7
    <3>1. k + 1 = 1 /\ k + 1 # 1
      BY <1>3, <2>1, WaitsAfterTake DEF Accounted, EnteredOnce, q
    <3> QED
      BY <3>1
  <2> QED
    BY <1>1, <1>3, <2>8, <2>9, <2>10 DEF Accounted, EnteredOnce
<1> QED
  BY <1>2, <1>3

\* store.claimScan answered with a claim of the worker's own scan.
LEMMA ClaimedAccounts ==
  ASSUME Shape, NEW i \in Instance, At(i, "claiming"), UnusedTokens # {},
         worker' = [worker EXCEPT ![i].pc = "renewing", ![i].hand = <<NewClaim(InHand(i).scan)>>],
         UNCHANGED <<queue, api, admissions>>,
         NEW j \in Instance, NEW t \in Scan, Accounted(j, t)
  PROVE  Accounted(j, t)'
<1> DEFINE s == InHand(i).scan
           w == [worker[i] EXCEPT !.pc = "renewing", !.hand = <<NewClaim(s)>>]
<1>1. s \in Scan
  BY HandType DEF At, Item
<1>2. worker' = [worker EXCEPT ![i] = w] /\ worker[i] \in Worker
  BY EntryTypes
<1>3. (w.own <=> worker[i].own) /\ w.hand = <<NewClaim(s)>>
  BY <1>2 DEF Worker
<1>4. <<NewClaim(s)>>[1].scan = s
  <2>1. NewClaim(s) \in Item /\ NewClaim(s).scan = s
    BY <1>1, NewClaimType DEF NewClaim
  <2> QED
    BY <2>1, OneItem
<1>5. OwnIn(w, t) <=> OwnIn(worker[i], t)
  BY <1>3, <1>4 DEF OwnIn, InHand
<1> HIDE DEF w
<1>6. OwnIn(worker'[j], t) <=> OwnIn(worker[j], t)
  <2>1. worker'[j] = IF j = i THEN w ELSE worker[j]
    BY <1>2, EntryTypes
  <2> QED
    BY <1>5, <2>1
<1> QED
  BY <1>6 DEF Accounted, EnteredOnce, Entered

\* finishAdmission.
LEMMA FinishAccounts ==
  ASSUME Shape, NEW i \in Instance, NEW pc, Finish(i, pc), UNCHANGED <<queue, api>>,
         NEW j \in Instance, NEW t \in Scan, Accounted(j, t)
  PROVE  Accounted(j, t)'
<1> DEFINE w == [IdleWorker EXCEPT !.pc = pc]
           s == InHand(i).scan
<1>1. worker'[j] = IF j = i THEN w ELSE worker[j]
  BY EntryTypes DEF Finish
<1>2. ~OwnIn(w, t)
  BY DEF OwnIn, IdleWorker
<1> HIDE DEF w
<1>3. admissions'[j][t] = IF worker[i].own /\ j = i /\ t = s THEN "none" ELSE admissions[j][t]
  <2>1. CASE worker[i].own
    <3>1. worker[i].pc \in Working \cup {"claiming"}
      BY <2>1, InstanceShape DEF WellShaped, WorkerAgrees
    <3>2. s \in Scan
      BY <3>1, HandType DEF Item
    <3>3. admissions' = [admissions EXCEPT ![i][s] = "none"]
      BY <2>1 DEF Finish
    <3> HIDE DEF s
    <3> QED
      BY <2>1, <3>2, <3>3, EntryTypes
  <2>2. CASE ~worker[i].own
    BY <2>2 DEF Finish
  <2> QED
    BY <2>1, <2>2
<1>4. CASE j # i
  BY <1>1, <1>3, <1>4, EntryStays
<1>5. CASE j = i
  <2>1. OwnIn(worker[i], t) <=> worker[i].own /\ t = s
    BY DEF OwnIn, InHand
  <2>2. Entered(j, t)' <=> WaitsIn(queue[j], t) # {}
    BY <1>1, <1>2, <1>5 DEF Entered
  <2>3. ~OwnIn(worker[j], t)'
    BY <1>1, <1>2, <1>5
  <2> HIDE DEF s
  <2>4. CASE OwnIn(worker[i], t)
    <3>1. admissions'[j][t] = "none" /\ WaitsIn(queue[j], t) = {}
      BY <1>3, <1>5, <2>1, <2>4 DEF Accounted, EnteredOnce
    <3> QED
      BY <2>2, <2>3, <3>1 DEF Accounted, EnteredOnce
  <2>5. CASE ~OwnIn(worker[i], t)
    <3>1. admissions'[j][t] = admissions[j][t] /\ (Entered(j, t)' <=> Entered(j, t))
      BY <1>3, <1>5, <2>1, <2>2, <2>5 DEF Entered
    <3> QED
      BY <2>3, <3>1 DEF Accounted, EnteredOnce
  <2> QED
    BY <2>4, <2>5
<1> QED
  BY <1>4, <1>5

\* A crash forgets the entries with the scans.
LEMMA CrashAccounts ==
  ASSUME Shape, NEW i \in Instance, Crash(i),
         NEW j \in Instance, NEW t \in Scan, Accounted(j, t)
  PROVE  Accounted(j, t)'
<1>1. CASE j = i
  <2>1. queue'[i] = <<>> /\ worker'[i] = IdleWorker /\ admissions'[i][t] = "none"
    BY EntryTypes DEF Crash
  <2>2. WaitsIn(<<>>, t) = {} /\ ~OwnIn(IdleWorker, t)
    BY DEF WaitsIn, OwnIn, IdleWorker
  <2>3. ~Entered(i, t)'
    BY <2>1, <2>2 DEF Entered
  <2> QED
    BY <1>1, <2>1, <2>2, <2>3 DEF Accounted, EnteredOnce
<1>2. CASE j # i
  <2>1. queue'[j] = queue[j] /\ worker'[j] = worker[j] /\ admissions'[j][t] = admissions[j][t]
    BY <1>2, EntryTypes DEF Crash
  <2>2. CASE api'[t] = api[t]
    BY <2>1, <2>2, EntryStays
  <2>3. CASE api[t].at = i
    <3>1. ~Entered(j, t) /\ admissions[j][t] \notin {"attached", "reserved"}
      BY <1>2, <2>3 DEF Accounted, EnteredOnce
    <3>2. ~Entered(j, t)' /\ WaitsIn(queue[j], t) = {} /\ ~OwnIn(worker[j], t)
      BY <2>1, <3>1 DEF Entered
    <3> QED
      BY <2>1, <3>1, <3>2 DEF Accounted, EnteredOnce
  <2> QED
    BY <2>2, <2>3 DEF Crash
<1> QED
  BY <1>1, <1>2


\* Every step keeps the admissions accounted for.
LEMMA AccountedNext ==
  ASSUME Shape, \A i \in Instance, s \in Scan : Accounted(i, s), [Next]_vars,
         NEW j \in Instance, NEW t \in Scan
  PROVE  Accounted(j, t)'
<1>1. Accounted(j, t)
  OBVIOUS
<1>2. UNCHANGED <<queue, worker, admissions, api>> => Accounted(j, t)'
  BY <1>1, EntryStays
<1>3. ASSUME NEW s \in Scan, CreateScan(s) PROVE Accounted(j, t)'
  <2>1. UNCHANGED <<queue, worker, admissions>> /\ api[s].pc = "inserting"
    BY <1>3 DEF CreateScan
  <2>2. PICK pc \in {"created", "releasing"} : api' = [api EXCEPT ![s].pc = pc]
    BY <1>3 DEF CreateScan
  <2>3. \/ api'[t] = api[t]
        \/ t = s /\ api'[t].at = api[t].at /\ api'[t].pc = pc
    BY <2>2, EntryTypes, <1>1 DEF RequestRecord
  <2> QED
    BY <1>1, <2>1, <2>3, EntryStays
<1>4. ASSUME NEW i \in Instance, NEW pc, NEW n, UNCHANGED <<queue, admissions, api>>,
             \/ Goto(i, pc)
             \/ worker' = [worker EXCEPT ![i].pc = pc, ![i].completedAt = n]
      PROVE  Accounted(j, t)'
  BY <1>1, <1>4, GoingOnKeepsEntry, EntryStays
<1>5. ASSUME NEW i \in Instance, NEW pc, UNCHANGED <<queue, api>>, Finish(i, pc)
      PROVE  Accounted(j, t)'
  BY <1>1, <1>5, FinishAccounts
<1>6. ASSUME NEW s \in Scan, Request(s) \/ Lapse(s) PROVE Accounted(j, t)'
  BY <1>2, <1>3, <1>6, EnqueueAccounts, ReleaseAccounts DEF Request, Lapse
<1>7. ASSUME NEW i \in Instance, Poll(i) PROVE Accounted(j, t)'
  BY <1>1, <1>2, <1>7, PollOfferAccounts DEF Poll, PollStart, PollClaim
<1>8. ASSUME NEW i \in Instance, Protocol(i) PROVE Accounted(j, t)'
  <2>1. CASE Take(i)
    BY <1>1, <2>1, TakeAccounts
  <2>2. CASE ClaimOwn(i)
    <3>1. \/ UNCHANGED <<queue, api>> /\ (Finish(i, "dead") \/ Finish(i, "idle"))
          \/ /\ UnusedTokens # {} /\ UNCHANGED <<queue, api, admissions>>
             /\ worker' = [worker EXCEPT ![i].pc = "renewing",
                                         ![i].hand = <<NewClaim(InHand(i).scan)>>]
      BY <2>2 DEF ClaimOwn, NewClaim
    <3>2. At(i, "claiming")
      BY <2>2 DEF ClaimOwn
    <3> QED
      BY <1>1, <1>5, <3>1, <3>2, ClaimedAccounts
  <2>3. CASE FirstRenewal(i)
    BY <1>4, <2>3 DEF FirstRenewal
  <2>4. CASE StartProtocol(i)
    BY <1>4, <2>4 DEF StartProtocol
  <2>5. CASE CompleteClaimed(i)
    BY <1>4, <2>5 DEF CompleteClaimed
  <2>6. CASE ProtocolDone(i) \/ FailClaimed(i)
    BY <1>5, <2>6 DEF ProtocolDone, FailClaimed
  <2> QED
    BY <1>8, <2>1, <2>2, <2>3, <2>4, <2>5, <2>6 DEF Protocol
<1>9. ASSUME NEW i \in Instance, AnalysisEnds(i) PROVE Accounted(j, t)'
  BY <1>4, <1>9 DEF AnalysisEnds
<1>10. ASSUME NEW i \in Instance, Heartbeat(i) PROVE Accounted(j, t)'
  BY <1>2, <1>4, <1>10 DEF Heartbeat
<1>11. ASSUME NEW i \in Instance, NEW p \in 0..FullProgress, Observe(i, p) PROVE Accounted(j, t)'
  BY <1>2, <1>11 DEF Observe
<1>12. CASE UNCHANGED vars
  BY <1>2, <1>12 DEF vars
<1> QED
  BY <1>1, <1>6, <1>7, <1>8, <1>9, <1>10, <1>11, <1>12, ReserveAccounts, CrashAccounts DEF Next

-----------------------------------------------------------------------------
(***************************************************************************)
(* The invariant and what follows from it.                                 *)
(***************************************************************************)

\* The invariant holds before any instance is up.
LEMMA RunnerInit == Init => RunnerInv
<1> SUFFICES ASSUME Init PROVE RunnerInv
  OBVIOUS
<1>1. Shape
  BY ShapeInit
<1>2. \A i \in Instance : /\ queue[i] = <<>> /\ poller[i] = IdlePoller /\ worker[i] = IdleWorker
  BY DEF Init
<1>3. IdlePoller.hand = <<>> /\ IdlePoller.claimedAt = 0
      /\ IdleWorker.hand = <<>> /\ ~IdleWorker.own /\ IdleWorker.pc = "idle"
  BY DEF IdlePoller, IdleWorker
<1>4. clock = 0 /\ \A i \in Instance, s \in Scan : admissions[i][s] = "none"
  BY DEF Init, RowsInit
<1>5. \A i \in Instance : ClaimsAt(i) = {}
  BY <1>2, <1>3 DEF ClaimsAt
<1>6. \A i \in Instance : TimesAgree(i)
  BY <1>2, <1>3, <1>4, <1>5 DEF TimesAgree
<1>7. ClaimsOnce
  BY <1>2, <1>3, <1>5 DEF ClaimsOnce, OncePerPlace, Once, Apart, ClaimTokens
<1>8. \A i \in Instance, s \in Scan : WaitsIn(queue[i], s) = {} /\ ~OwnIn(worker[i], s)
  BY <1>2, <1>3 DEF WaitsIn, OwnIn
<1>9. \A i \in Instance, s \in Scan : Accounted(i, s)
  BY <1>4, <1>8 DEF Accounted, EnteredOnce, Entered
<1> QED
  BY <1>1, <1>6, <1>7, <1>9, AccountedIsBoth DEF RunnerInv

\* Every step keeps the invariant.
LEMMA RunnerNext ==
  ASSUME RunnerInv, [Next]_vars
  PROVE  RunnerInv'
<1>1. Shape /\ (\A i \in Instance, s \in Scan : Accounted(i, s))
  BY AccountedIsBoth DEF RunnerInv
<1>2. Shape'
  BY <1>1, ShapeNext
<1>3. \A i \in Instance : TimesAgree(i)'
  BY <1>1, TimesNext DEF RunnerInv
<1>4. ClaimsOnce'
  BY <1>1, ClaimsOnceNext DEF RunnerInv
<1>5. \A i \in Instance, s \in Scan : Accounted(i, s)'
  BY <1>1, AccountedNext
<1>6. (\A i \in Instance, s \in Scan : EnteredOnce(i, s)') /\ AdmissionsAccounted'
  <2>1. (\A i \in Instance, s \in Scan : Accounted(i, s))'
    BY <1>5
  <2>2. ((\A i \in Instance, s \in Scan : EnteredOnce(i, s)) /\ AdmissionsAccounted)'
    BY <2>1, AccountedIsBoth, PTL
  <2> QED
    BY <2>2
<1> QED
  BY <1>2, <1>3, <1>4, <1>6 DEF RunnerInv

\* The invariant holds in every state.
LEMMA RunnerAlways == Spec => []RunnerInv
BY RunnerInit, RunnerNext, PTL DEF Spec

\* A claim is in one queue, poller's hand or worker's hand of one instance only
\* (a claim made by claimScan or claimNextScan, offered and taken).
THEOREM ClaimsExclude == Spec => []ClaimsAreExclusive
<1>1. RunnerInv => ClaimsAreExclusive
  BY ClaimsOnceExcludes DEF RunnerInv
<1> QED
  BY <1>1, RunnerAlways, PTL

\* An admission entry is there exactly while its request is under way or its
\* scan waits or is worked on unclaimed (reserve, enqueue, release and
\* finishAdmission), however often an instance dies.
THEOREM AdmissionsAreAccounted == Spec => []AdmissionsAccounted
<1>1. RunnerInv => AdmissionsAccounted
  BY DEF RunnerInv
<1> QED
  BY <1>1, RunnerAlways, PTL

\* What a worker writes ends a scan only while it completes or fails it.
LEMMA WorkerSettles ==
  ASSUME Shape, NEW i \in Instance, WorkerWrites(i), NEW s \in Scan,
         rows[s].status = "running", rows'[s].status \in Terminal
  PROVE  /\ worker[i].pc \in {"completing", "failing"}
         /\ InHand(i).scan = s
         /\ InHand(i).token = rows[s].token
<1> DEFINE t == InHand(i).scan
           tok == InHand(i).token
<1>1. RowsTyped /\ t \in Scan
  BY HeldClaim DEF WorkerWrites, Shape, TypeOK, RowsTyped
<1> HIDE DEF t, tok
<1>2. RenewRow(t, tok) => FALSE
  BY <1>1, OnlyHoldersSettle
<1>3. \A p \in 0..FullProgress : UpdateRow(t, tok, p, clock) => FALSE
  BY <1>1, OnlyHoldersSettle
<1>4. \/ /\ worker[i].pc = "completing"
         /\ CompleteRow(t, tok, InHand(i).baseline, worker[i].completedAt, clock)
      \/ worker[i].pc = "failing" /\ FailRow(t, tok, clock)
  BY <1>2, <1>3 DEF WorkerWrites, t, tok
<1>5. Holds(t, tok) /\ \E r : rows' = [rows EXCEPT ![t] = r]
  BY <1>4 DEF CompleteRow, Completable, FailRow
<1>6. t = s
  BY <1>1, <1>5, RowsAssumption DEF RowsTyped, Terminal
<1> QED
  BY <1>4, <1>5, <1>6 DEF Holds, t, tok

\* A running scan gets its outcome only from the worker that holds its current
\* claim (completeScan and failScanIfActive compare the lease under the row lock).
THEOREM OnlyTheHolderSettles == Spec => SettledByItsHolder
<1> DEFINE Settled ==
      \A s \in Scan :
        rows[s].status = "running" /\ rows'[s].status \in Terminal =>
          \E i \in Instance :
            /\ worker[i].pc \in {"completing", "failing"}
            /\ InHand(i).scan = s
            /\ InHand(i).token = rows[s].token
<1>1. ASSUME Shape, [Next]_vars PROVE [Settled]_vars
  <2> SUFFICES ASSUME NEW s \in Scan, rows[s].status = "running", rows'[s].status \in Terminal
               PROVE  \E i \in Instance :
                        /\ worker[i].pc \in {"completing", "failing"}
                        /\ InHand(i).scan = s
                        /\ InHand(i).token = rows[s].token
    OBVIOUS
  <2>1. RowsTyped /\ \A t \in Scan : api[t].createdAt \in Nat
    BY <1>1 DEF Shape, TypeOK, RowsTyped
  <2>2. ~UNCHANGED rows
    BY DEF Terminal
  <2>3. \A t \in Scan, n \in Nat : ~InsertRow(t, n)
    BY <2>1, OnlyHoldersSettle
  <2>4. \A t \in Scan : (\A tok, n : ~ClaimRow(t, tok, n)) /\ ~LapseRow(t)
    BY <2>1, OnlyHoldersSettle
  <2>5. \A t \in Scan : ~Granted(t) /\ ~Lapse(t)
    BY <2>4 DEF Granted, Lapse
  <2>6. PICK i \in Instance : WorkerWrites(i)
    BY <1>1, <2>1, <2>2, <2>3, <2>5, EveryStepWrites
  <2> QED
    BY <1>1, <2>6, WorkerSettles
<1> QED
  BY <1>1, ShapeAlways, PTL DEF Spec, SettledByItsHolder

-----------------------------------------------------------------------------
(***************************************************************************)
(* The coordinators are clients of the store.                              *)
(***************************************************************************)

\* The store's transactions are the ones the coordinators run.
LEMMA StoreRows ==
  /\ \A s, n : InsertRow(s, n) => Store!InsertRow(s, n)
  /\ \A s, tok, n : ClaimRow(s, tok, n) => Store!ClaimRow(s, tok, n)
  /\ \A s, tok, p, n : UpdateRow(s, tok, p, n) => Store!UpdateRow(s, tok, p, n)
  /\ \A s, tok, p, c, n : CompleteRow(s, tok, p, c, n) => Store!CompleteRow(s, tok, p, c, n)
  /\ \A s, tok, n : FailRow(s, tok, n) => Store!FailRow(s, tok, n)
  /\ \A s, tok : RenewRow(s, tok) => Store!RenewRow(s, tok)
  /\ \A s : LapseRow(s) => Store!LapseRow(s)
<1>1. \A s : Store!BaselineFor(s) = BaselineFor(s)
  BY DEF Store!BaselineFor, BaselineFor, Store!FindPreviousResult, FindPreviousResult,
         Store!Newest, Newest, Store!Previous, Previous
<1>2. \A s, n : InsertRow(s, n) => Store!InsertRow(s, n)
  BY DEF Store!InsertRow, InsertRow, Store!RepositoryBusy, RepositoryBusy,
         Store!IsActive, IsActive, Store!Active, Active, Store!Queued, Queued
<1>3. \A s, tok, n : ClaimRow(s, tok, n) => Store!ClaimRow(s, tok, n)
  BY <1>1 DEF Store!ClaimRow, ClaimRow, Store!Decodes, Decodes, Store!Claimable, Claimable,
              Store!Claimed, Claimed
<1>4. \A s, tok, p, n : UpdateRow(s, tok, p, n) => Store!UpdateRow(s, tok, p, n)
  BY DEF Store!UpdateRow, UpdateRow, Store!Decodes, Decodes, Store!Holds, Holds,
         Store!Updated, Updated
<1>5. \A s, tok, p, c, n : CompleteRow(s, tok, p, c, n) => Store!CompleteRow(s, tok, p, c, n)
  BY DEF Store!CompleteRow, CompleteRow, Store!Completable, Completable, Store!Decodes, Decodes,
         Store!Holds, Holds, Store!Completed, Completed
<1>6. \A s, tok, n : FailRow(s, tok, n) => Store!FailRow(s, tok, n)
  BY DEF Store!FailRow, FailRow, Store!Decodes, Decodes, Store!Holds, Holds, Store!Failed, Failed
<1>7. /\ \A s, tok : RenewRow(s, tok) => Store!RenewRow(s, tok)
      /\ \A s : LapseRow(s) => Store!LapseRow(s)
  BY DEF Store!RenewRow, RenewRow, Store!Holds, Holds, Store!LapseRow, LapseRow
<1> QED
  BY <1>2, <1>3, <1>4, <1>5, <1>6, <1>7

\* Claims in hand only go, unless the store has just granted one.
LEMMA HeldMoves ==
  ASSUME Shape, [Next]_vars
  PROVE  \/ Held' \subseteq Held
         \/ \E s \in Scan :
              /\ Granted(s)
              /\ Held' \subseteq Held \cup {[token |-> NewToken, since |-> clock]}
<1>1. ASSUME NEW h \in Held'
      PROVE  \/ h \in Held
             \/ (\E s \in Scan : Granted(s)) /\ h = [token |-> NewToken, since |-> clock]
  <2>1. PICK i \in Instance : \E it \in ClaimsAt(i)' : h = [token |-> it.token, since |-> it.since]
    BY DEF Held
  <2>2. PICK it \in ClaimsAt(i)' : h = [token |-> it.token, since |-> it.since]
    BY <2>1
  <2>3. CASE it \in ClaimsAt(i)
    BY <2>2, <2>3 DEF Held
  <2>4. ASSUME NEW s \in Scan, Granted(s), it = NewClaim(s)
        PROVE  h = [token |-> NewToken, since |-> clock]
    <3>1. it.token = NewToken /\ it.since = clock
      BY <2>4 DEF NewClaim
    <3> QED
      BY <2>2, <3>1
  <2> QED
    BY <2>3, <2>4, ClaimsMove
<1> QED
  BY <1>1

\* Only a reservation reads the clock for a createdAt.
LEMMA ReservesOrAsksNothing ==
  ASSUME Shape, [Next]_vars
  PROVE  \/ \E i \in Instance, s \in Scan : Reserve(i, s)
         \/ UNCHANGED clock /\ \A s \in Scan : api'[s].createdAt = api[s].createdAt
<1>1. UNCHANGED clock \/ \E i \in Instance, s \in Scan : Reserve(i, s)
  BY DEF Next, vars, Request, CreateScan, Enqueue, Release, Lapse, Poll, PollStart, PollClaim,
         PollOffer, Protocol, Take, ClaimOwn, FirstRenewal, StartProtocol, CompleteClaimed,
         ProtocolDone, FailClaimed, AnalysisEnds, Heartbeat, Observe, Crash
<1>2. clock \in Nat
  BY DEF Shape, TypeOK
<1>3. UNCHANGED clock => \A s \in Scan : api'[s].createdAt = api[s].createdAt
  BY <1>2, RequestsMove DEF RequestMoves
<1> QED
  BY <1>1, <1>3


\* A step that asks for nothing is one of the store's.
LEMMA WritesImplement ==
  ASSUME RunnerInv, [Next]_vars, UNCHANGED clock,
         \A s \in Scan : api'[s].createdAt = api[s].createdAt
  PROVE  [Store!StoreNext]_(Store!storeVars)
<1> DEFINE asked == [s \in Scan |-> api[s].createdAt]
           new == [token |-> NewToken, since |-> clock]
<1>1. Shape /\ clock \in Nat /\ rows \in [Scan -> Row] /\ UNCHANGED asked
  BY DEF RunnerInv, Shape, TypeOK
<1>2. ASSUME NEW s \in Scan, Granted(s) PROVE Store!StoreNext
  <2>1. NewToken \in Token /\ NewToken \in UnusedTokens
    BY <1>2, NewTokenIsNew DEF Granted
  <2>2. NewToken \notin Store!Spent
    BY <2>1 DEF UnusedTokens, Store!Spent
  <2>3. \A i \in Instance : PollClaimedAt(i) \in 0..clock
    BY <1>1 DEF PollClaimedAt, RunnerInv, TimesAgree, Shape, TypeOK
  <2>4. \E n \in 0..clock : Store!ClaimRow(s, NewToken, n)
    BY <1>1, <1>2, <2>3, StoreRows DEF Granted
  <2>5. Held' \subseteq Held \cup {new}
    BY <1>1, HeldMoves
  <2>6. Store!Claim(s, NewToken)
    BY <1>1, <2>2, <2>4, <2>5 DEF Store!Claim
  <2> QED
    BY <2>1, <2>6 DEF Store!StoreNext
<1>3. ASSUME \A s \in Scan : ~Granted(s) PROVE Held' \in SUBSET Held
  BY <1>1, <1>3, HeldMoves
<1>4. ASSUME NEW s \in Scan, api[s].pc = "inserting", InsertRow(s, api[s].createdAt),
             Held' \in SUBSET Held
      PROVE  Store!StoreNext
  <2>1. api[s].createdAt > 0
    BY <1>1, <1>4 DEF Shape, RequestAgrees
  <2>2. Store!Create(s)
    BY <1>1, <1>4, <2>1, StoreRows DEF Store!Create
  <2> QED
    BY <2>2 DEF Store!StoreNext
<1>5. ASSUME NEW i \in Instance, WorkerWrites(i), Held' \in SUBSET Held
      PROVE  Store!StoreNext
  <2> DEFINE s == InHand(i).scan
             h == [token |-> InHand(i).token, since |-> InHand(i).since]
  <2>1. /\ InHand(i) \in Item /\ InHand(i).since \in Nat /\ InHand(i) \in ClaimsAt(i)
        /\ s \in Scan
    BY <1>1, <1>5, HeldClaim DEF WorkerWrites
  <2>2. h \in Held /\ h.token = InHand(i).token /\ h.since = InHand(i).since
    BY <2>1 DEF Held
  <2>3. InHand(i).since <= clock /\ InHand(i).baseline \in Scan \cup {None}
    BY <2>1 DEF RunnerInv, TimesAgree, Item
  <2>4. clock \in Store!Reading(h)
    BY <1>1, <2>1, <2>2, <2>3 DEF Store!Reading
  <2> HIDE DEF h, s
  <2>5. CASE RenewRow(s, h.token)
    <3>1. Store!Renew(s, h)
      BY <1>1, <1>5, <2>5, StoreRows DEF Store!Renew
    <3> QED
      BY <2>1, <2>2, <3>1 DEF Store!StoreNext
  <2>6. CASE \E p \in 0..FullProgress : UpdateRow(s, h.token, p, clock)
    <3>1. Store!Update(s, h)
      BY <1>1, <1>5, <2>4, <2>6, StoreRows DEF Store!Update
    <3> QED
      BY <2>1, <2>2, <3>1 DEF Store!StoreNext
  <2>7. CASE /\ worker[i].pc = "completing"
             /\ CompleteRow(s, h.token, InHand(i).baseline, worker[i].completedAt, clock)
    <3>1. worker[i].completedAt \in Store!Reading(h)
      BY <2>2, <2>7 DEF RunnerInv, TimesAgree, Store!Reading
    <3>2. Store!Complete(s, h)
      BY <1>1, <1>5, <2>3, <2>4, <2>7, <3>1, StoreRows DEF Store!Complete
    <3> QED
      BY <2>1, <2>2, <3>2 DEF Store!StoreNext
  <2>8. CASE FailRow(s, h.token, clock)
    <3>1. Store!Fail(s, h)
      BY <1>1, <1>5, <2>4, <2>8, StoreRows DEF Store!Fail
    <3> QED
      BY <2>1, <2>2, <3>1 DEF Store!StoreNext
  <2> QED
    BY <1>5, <2>2, <2>5, <2>6, <2>7, <2>8 DEF WorkerWrites, s
<1>6. ASSUME NEW s \in Scan, Lapse(s) PROVE Store!StoreNext
  <2>1. UNCHANGED Held
    BY <1>6 DEF Lapse, Held, ClaimsAt
  <2>2. Store!Lapse(s)
    BY <1>1, <1>6, <2>1, StoreRows DEF Lapse, Store!Lapse
  <2> QED
    BY <2>2 DEF Store!StoreNext
<1>7. ASSUME UNCHANGED rows, Held' \in SUBSET Held PROVE Store!StoreNext
  BY <1>1, <1>7 DEF Store!StoreNext, Store!Drop
<1> QED
  BY <1>1, <1>2, <1>3, <1>4, <1>5, <1>6, <1>7, EveryStepWrites

\* A reservation draws the identifier and reads the createdAt of a new scan.
LEMMA ReserveImplements ==
  ASSUME RunnerInv, NEW i \in Instance, NEW s \in Scan, Reserve(i, s)
  PROVE  Store!StoreNext
<1> DEFINE asked == [t \in Scan |-> api[t].createdAt]
<1>1. /\ api \in [Scan -> RequestRecord] /\ clock \in Nat
      /\ api[s].pc = "idle" => api[s].createdAt = 0
  BY DEF RunnerInv, Shape, TypeOK, RequestAgrees, RequestRecord
<1>2. asked[s] = 0
  BY <1>1 DEF Reserve
<1>3. api' = [api EXCEPT ![s] = [pc |-> "inserting", at |-> i, createdAt |-> clock']]
  BY DEF Reserve
<1>4. asked' = [asked EXCEPT ![s] = clock']
  BY <1>1, <1>3
<1>5. UNCHANGED Held
  BY DEF Reserve, Held, ClaimsAt
<1>6. Store!AskCreate(s)
  BY <1>2, <1>4, <1>5 DEF Store!AskCreate, Reserve
<1> QED
  BY <1>6 DEF Store!StoreNext

\* The coordinators of any number of instances, with their crashes, failed calls
\* and lost leases, run the store's transactions only as ScanStore lets a client:
\* what is proved of the store is so of the system.
THEOREM RunnerImplementsStore == Spec => ImplementsStore
<1>1. Init => Store!StoreInit
  <2> SUFFICES ASSUME Init PROVE Store!StoreInit
    OBVIOUS
  <2>1. \A i \in Instance : ClaimsAt(i) = {}
    BY DEF Init, ClaimsAt, IdlePoller, IdleWorker
  <2>2. Held = {}
    BY <2>1 DEF Held
  <2>3. [s \in Scan |-> api[s].createdAt] = [s \in Scan |-> 0]
    BY DEF Init
  <2> QED
    BY <2>2, <2>3 DEF Init, RowsInit, NoRow, Store!StoreInit, Store!RowsInit, Store!NoRow
<1>2. ASSUME RunnerInv, [Next]_vars PROVE [Store!StoreNext]_(Store!storeVars)
  <2>1. Shape
    BY <1>2 DEF RunnerInv
  <2> QED
    BY <1>2, <2>1, ReservesOrAsksNothing, WritesImplement, ReserveImplements
<1> QED
  BY <1>1, <1>2, RunnerAlways, PTL DEF Spec, ImplementsStore, Store!StoreSpec

=============================================================================
