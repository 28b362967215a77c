------------------------------ MODULE ScanRunner ------------------------------
(***************************************************************************)
(* The scan coordinator (apps/radar/server/scan-runner.ts) of every        *)
(* application instance, with the createScan route that feeds it, over one *)
(* PostgreSQL store.  Each instance has an admission table, one bounded    *)
(* queue, one recovery poller and one worker; the worker's protocol races  *)
(* a heartbeat that renews its lease.  An instance may die at any moment   *)
(* and come back empty; a store call may fail, before or after it took     *)
(* effect; a lease may lapse.                                              *)
(*                                                                         *)
(* A request is named by the scan it will create.  The queue holds what    *)
(* was offered: its first QueueBound items are in the bounded queue, a     *)
(* longer tail is offers that wait, in order, for room.                    *)
(***************************************************************************)
EXTENDS ScanRows, Sequences

CONSTANTS Instance,      \* application processes sharing the database
          QueueBound,    \* maximumActiveScans
          FaultyCalls,   \* store calls that may fail
          MaxMishaps,    \* bound on crashes, failed calls and attended lapses
          ClaimClockLag  \* a createdAt may be read between the clock reading
                         \* of a recovery claim and its transaction

ASSUME RunnerAssumption ==
  /\ None \notin Instance
  /\ QueueBound \in Nat \ {0}
  /\ FaultyCalls \subseteq {"create", "claim", "claimNext", "renew", "update",
                            "complete", "fail"}
  /\ MaxMishaps \in Nat
  /\ ClaimClockLag \in BOOLEAN

VARIABLES api,         \* each createScan request
          admissions,  \* per instance, the admission entry of each request
          queue,       \* per instance, the offered scans
          poller,      \* per instance, the recovery poller
          worker,      \* per instance, the single worker
          mishaps      \* crashes, failed calls and attended lapses so far

localVars == <<admissions, queue, poller, worker>>
vars == <<rows, clock, api, admissions, queue, poller, worker, mishaps>>

\* A scan as it is queued: without a claim, token and baseline are None and
\* since is 0; with one, since is the time the claim was made.
Item == [scan : Scan, token : Token \cup {None},
         baseline : Scan \cup {None}, since : Nat]
Unclaimed(s) == [scan |-> s, token |-> None, baseline |-> None, since |-> 0]

IdlePoller == [pc |-> "idle", claimedAt |-> 0, hand |-> <<>>]
IdleWorker == [pc |-> "idle", hand |-> <<>>, own |-> FALSE, completedAt |-> 0]

Init ==
  /\ RowsInit
  /\ api = [s \in Scan |-> [pc |-> "idle", at |-> None, createdAt |-> 0]]
  /\ admissions = [i \in Instance |-> [s \in Scan |-> "none"]]
  /\ queue = [i \in Instance |-> <<>>]
  /\ poller = [i \in Instance |-> IdlePoller]
  /\ worker = [i \in Instance |-> IdleWorker]
  /\ mishaps = 0

Mishap == mishaps < MaxMishaps /\ mishaps' = mishaps + 1
Fault(call) == call \in FaultyCalls /\ Mishap

\* Claims some process still has in hand: queued, polled or being worked on.
ClaimsAt(i) ==
  {it \in {queue[i][k] : k \in DOMAIN queue[i]}
            \cup {poller[i].hand[k] : k \in DOMAIN poller[i].hand}
            \cup {worker[i].hand[k] : k \in DOMAIN worker[i].hand} :
     it.token # None}

Held == UNION {{[token |-> it.token, since |-> it.since] : it \in ClaimsAt(i)}
                 : i \in Instance}

\* Mutation of UnusedTokens: a token that only a row still has is drawn again.
UnheldTokens == Token \ {h.token : h \in Held}

\* crypto.randomUUIDv7: a token nobody has.
UnusedTokens == Token \ ({h.token : h \in Held} \cup {rows[s].token : s \in Scan})
NewToken == CHOOSE tok \in UnusedTokens : TRUE

-----------------------------------------------------------------------------
(***************************************************************************)
(* The createScan route and the admissions (reserve, enqueue, release).    *)
(***************************************************************************)

Admitted(i) == {s \in Scan : admissions[i][s] # "none"}

\* reserve, then the identifier and createdAt of the new scan.
Reserve(i, s) ==
  /\ api[s].pc = "idle"
  /\ Cardinality(Admitted(i)) < QueueBound
  /\ \A t \in Admitted(i) : RepoOf[t] # RepoOf[s]
  /\ admissions' = [admissions EXCEPT ![i][s] = "reserved"]
  /\ clock' = clock + 1
  /\ api' = [api EXCEPT ![s] = [pc |-> "inserting", at |-> i, createdAt |-> clock']]
  /\ UNCHANGED <<rows, queue, poller, worker, mishaps>>

\* store.createScan: inserted; or refused as repository-active; or the call
\* fails, before or after the row was inserted.
CreateScan(s) ==
  /\ api[s].pc = "inserting"
  /\ \/ /\ InsertRow(s, api[s].createdAt)
        /\ \/ api' = [api EXCEPT ![s].pc = "created"] /\ UNCHANGED mishaps
           \/ api' = [api EXCEPT ![s].pc = "releasing"] /\ Fault("create")
     \/ /\ RepositoryBusy(s)
        /\ api' = [api EXCEPT ![s].pc = "releasing"]
        /\ UNCHANGED <<rows, mishaps>>
     \/ /\ Fault("create")
        /\ api' = [api EXCEPT ![s].pc = "releasing"]
        /\ UNCHANGED rows
  /\ UNCHANGED <<clock, admissions, queue, poller, worker>>

\* admission.enqueue, uninterruptible: attach the scan, then offer it.
Enqueue(s) ==
  LET i == api[s].at IN
  /\ api[s].pc = "created"
  /\ admissions' = [admissions EXCEPT ![i][s] = "attached"]
  /\ queue' = [queue EXCEPT ![i] = Append(@, Unclaimed(s))]
  /\ api' = [api EXCEPT ![s].pc = "releasing"]
  /\ UNCHANGED <<rows, clock, poller, worker, mishaps>>

\* Mutation of Release: an attached admission is dropped too.
ReleaseAttached(s) ==
  LET i == api[s].at IN
  /\ api[s].pc = "releasing"
  /\ admissions' = [admissions EXCEPT ![i][s] = "none"]
  /\ api' = [api EXCEPT ![s].pc = "done"]
  /\ UNCHANGED <<rows, clock, queue, poller, worker, mishaps>>

\* admission.release drops a reservation that was not attached.
Release(s) ==
  LET i == api[s].at IN
  /\ api[s].pc = "releasing"
  /\ admissions' = [admissions EXCEPT ![i][s] = IF @ = "attached" THEN @ ELSE "none"]
  /\ api' = [api EXCEPT ![s].pc = "done"]
  /\ UNCHANGED <<rows, clock, queue, poller, worker, mishaps>>

-----------------------------------------------------------------------------
(***************************************************************************)
(* recoverOne, at startup and every 250 ms.                                *)
(***************************************************************************)

\* The queue is not full: read the clock for a recovery claim.
PollStart(i) ==
  /\ poller[i].pc = "idle"
  /\ Len(queue[i]) < QueueBound
  /\ poller' = [poller EXCEPT ![i] = [IdlePoller EXCEPT !.pc = "claiming",
                                                        !.claimedAt = clock]]
  /\ UNCHANGED <<rows, clock, api, admissions, queue, worker, mishaps>>

\* Another process may be inside a transaction on this row ("skip locked").
MayBeLocked(i, s) ==
  \/ \E j \in Instance : \E k \in DOMAIN worker[j].hand : worker[j].hand[k].scan = s
  \/ \E j \in Instance \ {i} : poller[j].pc = "claiming"

\* Mutation of NextClaimable: only scans that were never claimed are recovered.
NextQueued(i) ==
  {s \in Scan : rows[s].status = "queued" /\ ~MayBeLocked(i, s)}

\* Rows the claimNextScan select may return: the oldest claimable unlocked one.
NextClaimable(i) ==
  {s \in Scan : /\ Claimable(s)
                /\ \A t \in Scan : /\ Claimable(t)
                                   /\ rows[t].createdAt < rows[s].createdAt
                                   => MayBeLocked(i, t)}

PollClaimedAt(i) == IF ClaimClockLag THEN poller[i].claimedAt ELSE clock

\* claimNextScan: a claim; or no row, or a row that no longer decodes, or one whose
\* lease had not expired yet at claimedAt, or a failed call: recoverOne ignores them.
PollClaim(i) ==
  /\ poller[i].pc = "claiming"
  /\ \/ \E s \in NextClaimable(i) :
          /\ UnusedTokens # {}
          /\ ClaimRow(s, NewToken, PollClaimedAt(i))
          /\ \/ /\ poller' = [poller EXCEPT ![i] =
                     [IdlePoller EXCEPT
                        !.pc = "offering",
                        !.hand = <<[scan |-> s, token |-> NewToken,
                                      baseline |-> BaselineFor(s), since |-> clock]>>]]
                /\ UNCHANGED mishaps
             \/ poller' = [poller EXCEPT ![i] = IdlePoller] /\ Fault("claimNext")
     \/ /\ \/ /\ \A s \in Scan : Claimable(s) => MayBeLocked(i, s)
              /\ UNCHANGED mishaps
           \/ /\ \E s \in NextClaimable(i) : ~Decodes(s) \/ rows[s].lapsed
              /\ UNCHANGED mishaps
           \/ Fault("claimNext")
        /\ poller' = [poller EXCEPT ![i] = IdlePoller]
        /\ UNCHANGED rows
  /\ UNCHANGED <<clock, api, admissions, queue, worker>>

\* Mutation of PollOffer: the poller keeps the claim it offered.
PollOfferAgain(i) ==
  /\ poller[i].pc = "offering"
  /\ queue' = [queue EXCEPT ![i] = @ \o poller[i].hand]
  /\ UNCHANGED <<rows, clock, api, admissions, poller, worker, mishaps>>

PollOffer(i) ==
  /\ poller[i].pc = "offering"
  /\ queue' = [queue EXCEPT ![i] = @ \o poller[i].hand]
  /\ poller' = [poller EXCEPT ![i] = IdlePoller]
  /\ UNCHANGED <<rows, clock, api, admissions, worker, mishaps>>

-----------------------------------------------------------------------------
(***************************************************************************)
(* The worker: take, claim or use the recovered claim, renew, run the      *)
(* protocol against the heartbeat, complete or fail, finish the admission. *)
(***************************************************************************)

InHand(i) == worker[i].hand[1]
At(i, pc) == worker[i].pc = pc
Goto(i, pc) == worker' = [worker EXCEPT ![i].pc = pc]

\* Mutation of Finish: the admission is not finished.
FinishKeepingAdmission(i, pc) ==
  /\ worker' = [worker EXCEPT ![i] = [IdleWorker EXCEPT !.pc = pc]]
  /\ UNCHANGED admissions

\* finishAdmission and back to Queue.take; pc is "dead" when the loop failed.
Finish(i, pc) ==
  /\ worker' = [worker EXCEPT ![i] = [IdleWorker EXCEPT !.pc = pc]]
  /\ admissions' = IF worker[i].own
                   THEN [admissions EXCEPT ![i][InHand(i).scan] = "none"]
                   ELSE admissions

Take(i) ==
  /\ At(i, "idle")
  /\ queue[i] # <<>>
  /\ queue' = [queue EXCEPT ![i] = Tail(@)]
  /\ LET item == Head(queue[i])
         own == item.token = None
     IN worker' = [worker EXCEPT ![i] =
          [IdleWorker EXCEPT !.pc = IF own THEN "claiming" ELSE "renewing",
                             !.hand = <<item>>, !.own = own]]
  /\ UNCHANGED <<rows, clock, api, admissions, poller, mishaps>>

\* store.claimScan of a scan queued without a claim.  A scan somebody else has
\* claimed is skipped; a failed claim ends the worker loop.
ClaimOwn(i) ==
  LET s == InHand(i).scan IN
  /\ At(i, "claiming")
  /\ \/ /\ UnusedTokens # {}
        /\ ClaimRow(s, NewToken, clock)
        /\ \/ /\ worker' = [worker EXCEPT
                     ![i].pc = "renewing",
                     ![i].hand = <<[scan |-> s, token |-> NewToken,
                                    baseline |-> BaselineFor(s), since |-> clock]>>]
              /\ UNCHANGED <<admissions, mishaps>>
           \/ Finish(i, "dead") /\ Fault("claim")
     \/ /\ Decodes(s)
        /\ ~Claimable(s)
        /\ Finish(i, "idle")
        /\ UNCHANGED <<rows, mishaps>>
     \/ /\ \/ ~Decodes(s) /\ UNCHANGED mishaps
           \/ Fault("claim")
        /\ Finish(i, "dead")
        /\ UNCHANGED rows
  /\ UNCHANGED <<clock, api, queue, poller>>

\* The first renewal, before the protocol starts.
FirstRenewal(i) ==
  LET it == InHand(i) IN
  /\ At(i, "renewing")
  /\ \/ /\ RenewRow(it.scan, it.token)
        /\ \/ Goto(i, "starting") /\ UNCHANGED mishaps
           \/ Goto(i, "failing") /\ Fault("renew")
     \/ /\ \/ Refuses(it.scan, it.token) /\ UNCHANGED mishaps
           \/ Fault("renew")
        /\ Goto(i, "failing")
        /\ UNCHANGED rows
  /\ UNCHANGED <<clock, api, admissions, queue, poller>>

\* updateScan to running with progress 0.  Without the lease, or on a row that is
\* terminal by now, it changes nothing and the protocol goes on.
StartProtocol(i) ==
  LET it == InHand(i) IN
  /\ At(i, "starting")
  /\ \/ /\ UpdateRow(it.scan, it.token, 0, clock)
        /\ \/ Goto(i, "analyzing") /\ UNCHANGED mishaps
           \/ Goto(i, "failing") /\ Fault("update")
     \/ /\ Decodes(it.scan)
        /\ Refuses(it.scan, it.token)
        /\ Goto(i, "analyzing")
        /\ UNCHANGED <<rows, mishaps>>
     \/ /\ \/ ~Decodes(it.scan) /\ UNCHANGED mishaps
           \/ Fault("update")
        /\ Goto(i, "failing")
        /\ UNCHANGED rows
  /\ UNCHANGED <<clock, api, admissions, queue, poller>>

\* The analysis observer reports progress; whatever fails in it is ignored.
Observe(i, progress) ==
  LET it == InHand(i) IN
  /\ At(i, "analyzing")
  /\ UpdateRow(it.scan, it.token, progress, clock)
  /\ UNCHANGED <<clock, api, admissions, queue, poller, worker, mishaps>>

\* The analysis ends with a result for this claim, or with a typed failure.
AnalysisEnds(i) ==
  /\ At(i, "analyzing")
  /\ \/ worker' = [worker EXCEPT ![i].pc = "completing", ![i].completedAt = clock]
     \/ Goto(i, "failing")
  /\ UNCHANGED <<rows, clock, api, admissions, queue, poller, mishaps>>

CompleteClaimed(i) ==
  LET it == InHand(i) IN
  /\ At(i, "completing")
  /\ \/ /\ CompleteRow(it.scan, it.token, it.baseline, worker[i].completedAt, clock)
        /\ \/ Goto(i, "completed") /\ UNCHANGED mishaps
           \/ Goto(i, "failing") /\ Fault("complete")
     \/ /\ \/ /\ ~Completable(it.scan, it.token, it.baseline) \/ rows[it.scan].lapsed
              /\ UNCHANGED mishaps
           \/ Fault("complete")
        /\ Goto(i, "failing")
        /\ UNCHANGED rows
  /\ UNCHANGED <<clock, api, admissions, queue, poller>>

\* The heartbeat renews while the protocol runs; when it cannot, it wins the
\* race and the protocol is interrupted, also just after its own completion.
Heartbeat(i) ==
  LET it == InHand(i) IN
  /\ worker[i].pc \in {"starting", "analyzing", "completing", "completed"}
  /\ \/ /\ RenewRow(it.scan, it.token)
        /\ \/ UNCHANGED <<worker, mishaps>>
           \/ Goto(i, "failing") /\ Fault("renew")
     \/ /\ \/ Refuses(it.scan, it.token) /\ UNCHANGED mishaps
           \/ Fault("renew")
        /\ Goto(i, "failing")
        /\ UNCHANGED rows
  /\ UNCHANGED <<clock, api, admissions, queue, poller>>

\* The completed protocol wins the race.
ProtocolDone(i) ==
  /\ At(i, "completed")
  /\ Finish(i, "idle")
  /\ UNCHANGED <<rows, clock, api, queue, poller, mishaps>>

\* failScanIfActive with the claim's lease; its outcome is ignored.
FailClaimed(i) ==
  LET it == InHand(i) IN
  /\ At(i, "failing")
  /\ \/ FailRow(it.scan, it.token, clock) /\ UNCHANGED mishaps
     \/ /\ \/ /\ Refuses(it.scan, it.token) \/ ~Decodes(it.scan)
              /\ UNCHANGED mishaps
           \/ Fault("fail")
        /\ UNCHANGED rows
  /\ Finish(i, "idle")
  /\ UNCHANGED <<clock, api, queue, poller>>

-----------------------------------------------------------------------------
(***************************************************************************)
(* The environment.                                                        *)
(***************************************************************************)

\* The process dies and starts again with nothing but the database; interrupted
\* requests are gone, and with PostgreSQL nothing fails their scans.
Crash(i) ==
  /\ Mishap
  /\ admissions' = [admissions EXCEPT ![i] = [s \in Scan |-> "none"]]
  /\ queue' = [queue EXCEPT ![i] = <<>>]
  /\ poller' = [poller EXCEPT ![i] = IdlePoller]
  /\ worker' = [worker EXCEPT ![i] = IdleWorker]
  /\ api' = [s \in Scan |-> IF api[s].at = i THEN [api[s] EXCEPT !.pc = "done"]
                                            ELSE api[s]]
  /\ UNCHANGED <<rows, clock>>

\* Some worker keeps this row's lease alive, or is about to take it up: it is in
\* the hand of a worker, or its instance's worker is not busy with an analysis.
Attended(s) ==
  \E i \in Instance :
    /\ worker[i].pc # "dead"
    /\ \E it \in ClaimsAt(i) :
         /\ it.scan = s
         /\ it.token = rows[s].token
         /\ At(i, "analyzing") => it = InHand(i)

\* Attended leases lapse only when something stalls.
Lapse(s) ==
  /\ LapseRow(s)
  /\ IF Attended(s) THEN Mishap ELSE UNCHANGED mishaps
  /\ UNCHANGED <<clock, api, admissions, queue, poller, worker>>

Request(s) == CreateScan(s) \/ Enqueue(s) \/ Release(s)
Poll(i) == PollStart(i) \/ PollClaim(i) \/ PollOffer(i)
Protocol(i) ==
  \/ Take(i) \/ ClaimOwn(i) \/ FirstRenewal(i) \/ StartProtocol(i)
  \/ CompleteClaimed(i) \/ ProtocolDone(i) \/ FailClaimed(i)

Next ==
  \/ \E s \in Scan : Request(s) \/ Lapse(s)
  \/ \E i \in Instance :
       \/ \E s \in Scan : Reserve(i, s)
       \/ Poll(i)
       \/ Protocol(i)
       \/ AnalysisEnds(i)
       \/ Heartbeat(i)
       \/ \E p \in 0..FullProgress : Observe(i, p)
       \/ Crash(i)

Spec == Init /\ [][Next]_vars

-----------------------------------------------------------------------------
(***************************************************************************)
(* Properties.                                                             *)
(***************************************************************************)

\* Every variable has its type.
TypeOK ==
  /\ rows \in [Scan -> Row]
  /\ clock \in Nat
  /\ api \in [Scan -> [pc : {"idle", "inserting", "created", "releasing", "done"},
                       at : Instance \cup {None}, createdAt : Nat]]
  /\ admissions \in [Instance -> [Scan -> {"none", "reserved", "attached"}]]
  /\ queue \in [Instance -> Seq(Item)]
  /\ poller \in [Instance -> [pc : {"idle", "claiming", "offering"},
                             claimedAt : Nat, hand : Seq(Item)]]
  /\ worker \in [Instance -> [pc : {"idle", "claiming", "renewing", "starting",
                                   "analyzing", "completing", "completed",
                                   "failing", "dead"},
                             hand : Seq(Item), own : BOOLEAN, completedAt : Nat]]
  /\ mishaps \in 0..MaxMishaps

\* A claim is in one place only, so no two workers ever believe they hold the same
\* lease: a queued copy, a polled copy or a worker, in one instance.
Copies(i, tok) ==
    Cardinality({k \in DOMAIN queue[i] : queue[i][k].token = tok})
  + Cardinality({k \in DOMAIN poller[i].hand : poller[i].hand[k].token = tok})
  + Cardinality({k \in DOMAIN worker[i].hand : worker[i].hand[k].token = tok})

ClaimsAreExclusive ==
  \A tok \in Token :
    /\ \A i \in Instance : Copies(i, tok) <= 1
    /\ \A i, j \in Instance : Copies(i, tok) > 0 /\ Copies(j, tok) > 0 => i = j

\* Admission slots do not leak and are not given back early: an entry is there
\* exactly while its request is under way, or its scan waits in this instance's
\* queue without a claim, or its worker has it in hand.
AdmissionsAccounted ==
  \A i \in Instance, s \in Scan :
    /\ admissions[i][s] = "attached" <=>
         \/ \E k \in DOMAIN queue[i] : queue[i][k] = Unclaimed(s)
         \/ worker[i].own /\ InHand(i).scan = s
    /\ admissions[i][s] = "reserved" => /\ api[s].at = i
                                       /\ api[s].pc \in {"inserting", "created", "releasing"}

\* A running scan gets its outcome only from the worker that holds its current
\* claim, however many superseded workers are still busy with the same scan.
SettledByItsHolder ==
  [][\A s \in Scan :
       rows[s].status = "running" /\ rows'[s].status \in Terminal =>
         \E i \in Instance :
           /\ worker[i].pc \in {"completing", "failing"}
           /\ InHand(i).scan = s
           /\ InHand(i).token = rows[s].token]_vars

\* The coordinators drive the store as one of its clients may.
Store == INSTANCE ScanStore
           WITH asked <- [s \in Scan |-> api[s].createdAt], held <- Held

\* Every behaviour of the instances is a behaviour of the store specification,
\* and so has the properties proved of it.
ImplementsStore == Store!StoreSpec

\* Rows the store wrote are rows it accepts when it reads them back.
EveryRowDecodes == \A s \in Scan : Decodes(s)

-----------------------------------------------------------------------------
(***************************************************************************)
(* Liveness.  Every fiber of a running instance goes on, an analysis ends, *)
(* a lease nobody attends to lapses, and a row that is claimable again and *)
(* again is not found locked, or its call failing, every time.             *)
(***************************************************************************)

FairSpec ==
  /\ Spec
  /\ \A s \in Scan : /\ WF_vars(Request(s))
                     /\ WF_vars(Lapse(s) /\ ~Attended(s))
  /\ \A i \in Instance : /\ WF_vars(Poll(i))
                         /\ SF_vars(PollClaim(i) /\ poller'[i].pc = "offering")
                         /\ WF_vars(Protocol(i))
                         /\ WF_vars(AnalysisEnds(i))

\* Every stored scan gets an outcome, although instances die, calls fail, replies
\* are lost and leases lapse.
EveryScanSettles ==
  \A s \in Scan : (rows[s].status = "queued") ~> (rows[s].status \in Terminal)

\* Every admission slot is given back.
EverySlotReturns ==
  \A i \in Instance, s \in Scan :
    (admissions[i][s] # "none") ~> (admissions[i][s] = "none")
=============================================================================
