# Codebase Radar: a TLA+ verification project

This directory holds TLA+ specifications of Codebase Radar, the TLC
configurations that check them on small instances, and TLAPS proofs of the
results that matter for every instance. Paths are relative to the repository,
`server/` stands for `apps/radar/server/` and `core/` for
`packages/radar-core/src/`.

## 1. The system and its parts

Radar takes the address of a public GitHub repository, scans it with a set of
pinned static analyzers, keeps every scan as the history of the repository,
and lets a connected coding agent (Codex, Claude) re-rank a finished scan's
backlog. One Node process per application instance serves the website, the
HTTP API and the MCP tools, and runs the background work; PostgreSQL holds
everything that must survive a restart. All of it is written with Effect:
*fibers* are the unit of concurrency, a fiber may be interrupted at any
asynchronous step unless it is inside `uninterruptible`, and a forked fiber
that fails just ends.

| Part | Source | State | Operations |
|---|---|---|---|
| Scan store | `server/store.ts` | table `scans` (status, record, lease token and expiry, pinned baseline), table `audience_profiles`; or one in-memory `Ref` | createScan, claimScan, claimNextScan, renewScanLease, updateScan, completeScan, failScanIfActive, reads |
| Scan coordinator | `server/scan-runner.ts` | admissions (`Ref`), bounded queue of 32, one worker fiber, one recovery fiber | reserve / enqueue / release, recoverOne every 250 ms, worker loop, heartbeat every 20 s against a 2 min lease |
| Analysis observer | `server/analysis-observer.ts` | last accepted progress event | observe |
| HTTP and MCP API | `api/index.ts`, `shared/`, `server/mcp-read-model.ts` | none of its own | routes: createScan, profile and agent login, reviews, reads |
| Agent store | `server/agent-store.ts` | agent profiles, encrypted homes, review grants, priority reviews with leases and overlays | createProfile, writeHome, login updates, createReview, claimReview, renewReviewLease, completeReviewWithOverlay, failReviewIfActive, ... |
| Agent coordinator | `server/agent-coordinator.ts` | per-owner queues, running reviews, fair rotation | enqueue, dispatch (at most 4), cancel, recovery, expiry sweep |
| Agent runtime | `server/agent-runtime.ts` | login sessions, process slots, home generations | startLogin, cancelLogin, disconnect, refreshStatus, runPrompt |
| Priority overlay | `server/agent-priority-overlay.ts` | none (pure over a tournament of prompts) | build batches, validate and merge the agent's rankings |
| Visibility gate | `server/agent-visibility-gate.ts` | cache of repository visibility | check, with TTL and eviction |
| Safe files, processes | `server/agent-safe-files.ts`, `server/process.ts` | the file system, child processes | bounded reads and copies, bounded process runs |
| Web analyzers | `server/analyzers.ts`, `calldiff.ts`, `tracedecay.ts`, `semantic-runner.ts`, `analyzer-input.ts` | none (one process per tool) | run a pinned tool, parse its report |
| Analysis core | `core/scanner-private.ts`, `core/production.ts` | progress sequence of one analysis | analyze: preflight, materialize, inventory, required analyzers, policy, priorities, comparison |
| Policy, priorities, comparison | `core/internal/{policy,prioritization,comparison}` | none (pure) | evaluate coverage, rank findings, compare with the baseline |
| Source materializer | `core/internal/source/` | a workspace, bounded network transfers | resolve a revision, download, unpack within limits |
| Workspace | `core/internal/workspace.ts`, `linux-descriptor-host.ts` | directory handles, an exclusive generation | create, seal, release, recover |
| Contracts | `packages/radar-contracts/` | none | schemas and their cross-field checks |
| CLI | `packages/radar-cli/` | none | scan, doctor, render |
| Analyzer runtime | `packages/analyzer-runtime/` | sealed runtime generations; one admission and the cgroups of running analyzers | verify, launch under limits, clean up |
| Runtime publication | `scripts/prepare-runtime-tools.sh`, `runtime-atomic-exchange.py` | the authoritative runtime directory, stages beside it, a journal and its lock | recover, build, verify, publish |
| Browser UI | `apps/radar/src/` | page state | poll a scan, drive the agent login and review |

How they interact: a `createScan` request reserves an admission, inserts the
row, attaches it to the admission and offers it to the queue, all but the
reservation uninterruptibly. The worker takes an item, claims the row (or uses
the claim the recovery poller made), renews the lease, runs the analysis while
a heartbeat renews, and completes or fails the row under its lease token. The
analysis core reports progress through the observer, which writes it to the
row; it materializes the source into a workspace, seals it, gives each analyzer a
scratch workspace, and starts it through the resource governor, one at a time.
The directory analyzers are started from is replaced by the publication script,
in a process of its own. Agent reviews mirror this: a route creates a review row and enqueues it,
the agent coordinator dispatches it fairly, claims it, runs the agent's CLI in
the owner's home, and completes it with an overlay under a lease.

What makes each part correct, and where it is hard:

* **Scan store** - one active scan per repository; a result only from the
  holder of the current lease; outcomes final; a scan's baseline fixed at its
  first claim. Hard: clocks read before row locks, expiry races, superseded
  holders.
* **Scan coordinator** - every stored scan gets an outcome through crashes,
  lapsed leases and lost replies; admissions neither leak nor come back early;
  one worker per claim. Hard: the poller competes with the local queue, the
  heartbeat with completion, one fiber's failure with everybody's progress.
* **Agent store** - at most one active review per scan and owner, grants
  revoked with their reviews, overlays only from the lease's holder, homes
  never readable half-written.
* **Agent coordinator** - fairness between owners, capacity 4, a review is
  dispatched once, cancelled or expired reviews are not resurrected.
* **Agent runtime** - one login per profile, no home written by a superseded
  login, slots returned on every exit path.
* **Visibility gate** - a private repository is never served from a stale
  positive entry beyond the TTL; bounded size.
* **Analysis core and observer** - a success only with complete analyzers, of a
  sound snapshot of the source, with everything released; progress stored in
  order although deliveries overlap, time out or fail; an end whatever the
  observer does. Hard: detached deliveries, interruption at any step.
* **Source materializer** - what is analyzed is one commit, complete; or files that
  all had these contents in the directory at one moment, each directory with just
  the files it had at some moment of its own. Hard: the source changes while it is
  read, and a capture need not be a state of the whole tree (section 5).
* **Governed launches** - one analyzer at a time, nothing left behind. Hard:
  launcher, service or analyzer may die at any step, and each cleans up for the
  others.
* **Policy, priorities, comparison** - total orders, stable ranking, partition
  of findings into new, resolved and persisting.
* **Runtime publication** - readers see the old or the new generation, never a
  mixture, also after a crash or a loss of power; recovery always goes on.

## 2. Modules

| Module | Models | Extends |
|---|---|---|
| `ScanRows` | the PostgreSQL rows of `scans` and every transaction on them | - |
| `RepositorySlots` | what the store promises: one slot per repository, one final outcome per scan | - |
| `ScanStore` | `ScanRows` driven by arbitrary clients; implements `RepositorySlots` | `ScanRows` |
| `ScanRunner` | the scan coordinators of all instances, with the `createScan` route; implements `ScanStore` | `ScanRows` |
| `ScanRowsProofs` | lemmas about the statements of `ScanRows`, for both modules that use them | `ScanRows`, `TLAPS` |
| `ScanStoreProofs` | theorems about `ScanStore` | `ScanStore`, `ScanRowsProofs` |
| `ScanRunnerProofs` | theorems about `ScanRunner`, with its refinement of `ScanStore` | `ScanRunner`, `ScanRowsProofs`, `SequenceTheorems`, `FiniteSetTheorems` |
| `ReviewRows` | the rows of `agent_priority_reviews` and `agent_priority_overlays` and every statement on them | - |
| `ReviewScheduler` | the agent coordinators of all instances, with the routes that create and cancel a review | `ReviewRows` |
| `ReviewSchedulerProofs` | theorems about `ReviewScheduler` | `ReviewScheduler`, `SequenceTheorems`, `FiniteSetTheorems`, `WellFoundedInduction`, `TLAPS` |
| `RuntimeGenerations` | what publication promises to those who open the runtime: one whole generation, replaced in one step | - |
| `RuntimePublication` | concurrent runs of `prepare-runtime-tools.sh` with the helper `runtime-atomic-exchange.py`, crashes and power losses; implements `RuntimeGenerations` | - |
| `AnalyzerLaunch` | governed launches: admission, launcher processes, cgroups, and the deaths of each | - |
| `SourceCapture` | the capture of a local directory while it is edited | - |
| `GitHubStaging` | the resolution, fetch and unpacking of a commit while the repository moves | - |
| `AnalysisRun` | one analysis with its workspaces, its progress events and the observer; composes `SourceCapture` and `GitHubStaging` by `INSTANCE` | - |
| `SourceCaptureProofs` | theorem about `SourceCapture` | `SourceCapture`, `TLAPS` |
| `AnalysisRunProofs` | theorems about `AnalysisRun`; uses those of `SourceCaptureProofs` by `INSTANCE` | `AnalysisRun`, `FiniteSetTheorems`, `TLAPS` |
| `RuntimePublicationProofs` | theorems about `RuntimePublication`, with its refinement of `RuntimeGenerations` | `RuntimePublication`, `SequenceTheorems`, `TLAPS` |
| `AnalyzerLaunchProofs` | theorems about `AnalyzerLaunch` | `AnalyzerLaunch`, `SequenceTheorems`, `WellFoundedInduction`, `TLAPS` |
| `MC...` | one instance of each for TLC | |

### ScanRows and ScanStore

`rows[s]` is the row of scan `s`. `status`, `token`, `baseline`, `progress`,
`createdAt`, `updatedAt` are columns or fields of the record; `completedAt` is
that of the stored result; `lapsed` says that `lease_expires_at` is in the
past. Each operator `InsertRow`, `ClaimRow`, `UpdateRow`, `CompleteRow`,
`FailRow`, `FailUnclaimedRow`, `RenewRow` is one transaction: the guard is what
it checks under the row lock, the primed part what it writes. Calls that change
nothing (a wrong token, a terminal row) are stuttering steps here and explicit
branches in `ScanRunner`.

Time. `clock` is the latest `createdAt` read; it advances only with such a
reading, because every comparison the store makes is between a `createdAt` and
another reading. All instances read one clock: skew between machines is not
modelled. A lease expiry is compared with a time read before the transaction
took its lock, so `UpdateRow`, `CompleteRow`, `FailRow` and `RenewRow` accept a
lease that has lapsed in the meantime; `ClaimRow` needs a lapsed one. This is
more than the code can do, and safe: a transaction that saw the lease as live
is one that could have read its clock earlier.

`ScanStore` adds the callers: `held` are the claims somebody still has, with the
time each was made (a holder's readings come after it), `asked` the creation
times drawn. A caller may drop a claim in any step, which is what a crash does.

### ScanRunner

One record per instance for the poller and the worker, whose `pc` names the
`yield*` they are at; the queue holds items `[scan, token, baseline, since]`, a
claim or a bare scan. Items beyond `QueueBound` are offers that wait for room,
in order, as Effect's bounded queue keeps them. Every store call is one action
with three outcomes: it takes effect; it fails before or after taking effect
(`Fault`, counted by `mishaps`); it is refused. `Crash` empties an instance.
The recovery claim is split into `PollStart` (the clock reading) and `PollClaim`
(the transaction) when `ClaimClockLag` is TRUE; the lag is switched off for the
liveness runs, which it would defeat (section 5).

### ReviewRows

`reviews[r]` is the row of review `r`: status, lease token, and the expiry of its
lease as the number of extensions since the claim. `lapsed` says that the expiry
is in the past. A lease is never extended past the review's deadline, so the
number stops at `MaxRenewals`, and a renewal then succeeds without extending
anything. Here the clock is read with the statement: nobody but the expiry sweep
acts on a lapsed lease, so an earlier reading could only refuse less. An ended
row's lease columns are cleared. Grants are inserted with their review and never
change, so they are not told apart from it.

### ReviewScheduler

`pending`, `ownerOrder`, `active`, `activeOwners`, `cancelled` are the fields of
the coordinator's state in each instance. `worker[i][r]` is the fiber that
`dispatch()` forks for a review: the place its protocol is at, its token, the
expiry its `leaseRef` holds, and the renewed expiry on its way back to the
heartbeat. The heartbeat may lose or win the race at any point between claim and
release, also while the completion is with the database.

Atomicity. Between two asynchronous operations a fiber runs undisturbed, so such a
stretch is one action. Two stretches consist of several steps of the same kind,
`dispatch()` and the loop of recovery; they are one action per turn of the loop,
and `turn` keeps everybody else waiting until the loop is over. Effect yields a
fiber after a great number of operations; these loops are too short for that.

`createPriorityReview` is `CreateReview`, `Enqueue` and, without room, `Reject`;
`cancelPriorityReview` is `Cancel` (the state update), `CancelStored` (the
store call) and `CancelEnds` (the interrupt, and a dispatch). The
interrupted worker releases itself in its own `Release`, which dispatches again.
A shutdown is `ShutdownBegins`, which interrupts the workers it finds, and
`ShutdownEnds`, which fails what is active by then and ends the process.

Simplifications, all of which add behaviours or touch nothing that a property
tells apart: recovery queues its list in any order (the code: oldest first) and
lists every queued row (the code: 32 at a time, the size of the pool); every
claim draws a token that nobody has; a store call that is interrupted in flight has taken
effect or never does; verification and provider runs are one nondeterministic
outcome. `Without` removes one occurrence, which is all there is
(`QueuesAccounted`). `Cancellable` bounds who may be cancelled, to keep a run
small.

### RuntimePublication

`disk` is the parent directory: the inode the authoritative name leads to, the
one of each script's stage, what each inode holds (a publisher's generation, the
shipped one, something partial) and the journal. `survivors` are the states of it
since the last `fsync` of the directory, any of which a loss of power may leave;
a generation whose files were never flushed (`synced`) may come back torn. `phase` is
where a script is, `step` where the helper it called is. A step is one operation on
the parent directory, or its `fsync`, so that a fault comes between any two. Five
steps are longer. `RemoveContents` takes the first file of a tree and all others:
after it the tree is partial. `WriteJournal` is a flushed file of another name and its renaming.
`Flush` is `fsync_tree` with the `fsync` of the parent after it. `Build` is all that
fills the stage, which nobody but its script reads. `RemoveStage`, the script's last
step, is the removal of its own stage with the `fsync`; a fault in it makes the script
killed or unclean, of which nothing is promised. `ScriptFails` is `set -e`. Before the
EXIT trap is set the script just ends, and a stage it had made by then stays
(`"stranded"`); afterwards the trap looks for a journal without the lock, recovers, and
removes the script's own stage. `HelperFails` is a helper that dies or meets an error,
or a check of the script that fails, `Kill` a script killed together with its helper.

Assumed: a journaling file system, which keeps the order of directory operations.
Simplified: `Build` stands for download, unpacking and installation, whose result
is what the manifest asks for or not; `write_journal`'s temporary file and the
probe directories of `assert-available` have names nobody else uses. A freed inode
may be reused at once, which matters because the journal identifies generations by
inode.

### AnalyzerLaunch

One call of `launchResourceGovernedAnalyzer` per member of `Launch`: `call` is what
its caller waits for, `launcher` and `analyzer` are its processes, `dir` the cgroups
that exist, `channel` the messages under way to the service. The service remembers
`queue`, `held` and `active`; a service that dies forgets them, its calls are
`"lost"`, and the next one starts with nothing. `Complete` is the completion of a
launch with its cleanup: after the launcher's last word (`Terminal`), or after its
`close` event without one (`Close`).

Simplified: a cancel and the launcher's timer do the same at any time, so cancel
messages and the `allocated` message are left out; what the launcher checks before
it starts is one failure. The probes of `verifyResourceGovernance` are not modelled:
they take no admission, but run to their end synchronously in the service, in a cgroup
of their own. A dead launcher takes its analyzer with it (`--die-with-parent`), in two
steps. `CleanUp` is the service's own cleanup. It may fail to empty or to remove the
cgroup, but its write to `cgroup.kill` is taken to reach the analyzer; the second half
of `EveryLaunchEnds` (no analyzer outlives its time) depends on that where the launcher
has gone without killing it.

### SourceCapture, GitHubStaging and AnalysisRun

`SourceCapture` gives each file of a directory a version, 0 where there is none. A
directory is listed in one step and a file read in one step; edits, creations and
removals happen between any two. An edited file gets a version nobody saw before:
contents that are changed and changed back are not modelled, and the digests the
code compares could not tell them.

`GitHubStaging` has the three requests that resolve the default branch (`Metadata`,
`Reference`, `Authenticate`), the fetch of the commit's archive and its members. A
member that passes a limit, a stream that ends early, a timeout refuse the source.

`AnalysisRun` is `scanner-private.ts` after its request was decoded. `pc` is the
place in the program, `sequence` the number of the next event, which also says which
stage comes next. `fibers` are the detached deliveries; `Own` is the one the analysis
waits for. `EmitExpires` is the 250 ms bound, which stands for any duration: the model
may take it whenever a delivery is not done. `closing` is the end of the scopes, in
their order. Observer and store: `Take` (under the lock), `Store` (the update, fenced
by the lease), `Record`, and the failures of each. A GitHub source is analyzed by the
server, with that observer; a local directory by the command line with `--quiet`,
whose observer does nothing. The other combinations would add nothing but states.
`StopAnalyzer` interrupts a running analyzer; a launch that could not be cleaned up
makes that a failure. `snapshot` is a history variable: whether what was sealed was
`Sound`, what `SourceCapture` (`SnapshotWasReal`) or `GitHubStaging` (`StagedIsCommit`)
say of an accepted source. The source is of no consequence
before and after it is materialized, and its variables are reset (`Forget`).

## 3. Runs

| Run | Question | Bounds |
|---|---|---|
| `store` | exclusion, coherence, pinned baseline, finality, monotone progress, fencing, refinement of `RepositorySlots`, under arbitrary clients | 3 scans of one repository, 2 remembered claims, progress 0..1 |
| `takeover` | exclusive claims, settling only by the holder, refinement of `ScanStore` | 2 instances, 1 scan, 2 mishaps, every call may fail, clock lag |
| `settles` | do admissions leak or come back early; does every stored scan get an outcome, every admission return | 1 instance, 2 repositories, queue of 1, 1 mishap |
| `row_decode`, `worker_lost` | the first two findings | 1 scan |
| `review_takeover` | one run per review, overlay with completion, answers stay true, ended for good | 2 instances, 1 review, 1 lease extension, 2 mishaps |
| `review_pool` | do queues and rotation fit each other; do owners take turns | 1 instance, 3 reviews of 2 owners, 1 worker, 1 place per owner, 3 in all |
| `review_ends` | are workers, owners and marks released; does every stored review end | 1 instance, 2 reviews of one owner, 2 workers, 1 place, 1 review cancelled, 1 mishap |
| `publication` | is the runtime whole after any crash, a published one kept, no stage left by a script that ran its trap to the end, every script over; refinement of `RuntimeGenerations` | 2 scripts, 3 inodes, 2 crashes, 1 loss of power |
| `publication_stuck` | the third finding | the same without losses of power |
| `launch` | one analyzer at a time, admission accounted, nothing left behind, every call and analyzer ends | 3 launches, 2 faults |
| `analysis` | progress stored in order, success sound, the analysis ends | 2 analyzers, 3 files in 2 directories, 2 edits; 2 branches, 2 commits of 3 members, one above the limits, 2 moves; 2 faults |

A mishap is a crash, a shutdown, a failed call, or a lease that lapses although
its worker is there (a stall). Symmetry is declared only where no liveness
property is checked.

Why the bounds suffice.

* *Scans.* Two claims are a current and a superseded lease; a third would only be
  a second superseded one. With three scans of a repository a scan can find two
  earlier ones finished, in either order of creation and completion, which is
  what the choice of a baseline depends on. Exclusion relates scans of the same
  repository, and the theorem covers any number of both; `settles` has two
  repositories. A queue of one is full with one recovered claim, so that an offer
  waits. Two mishaps let a crash hit a scan that was already taken over.
  Liveness of scans is a question to one instance, which restarts after a crash and
  must take its own lost scans again; that another instance settles them is not a
  run kept here (`settles` with `Instance = {a, b}` and one scan shows it in seconds;
  with two scans it is beyond five minutes).
* *Reviews.* Two instances and one review give every race for a row; with one
  extension, an expiry can be renewed by the heartbeat and by the protocol in
  either order before the deadline holds it. Rotation needs two owners and one
  who waits twice: the limit per owner does not bind recovery, so with one place
  per owner and room for three this happens, by requests and recovery in any
  order. In `review_ends` the pool of one place fills up, so that requests are
  rejected and recovery has to leave rows in the database and come back. It has
  two workers for one owner: the limit that binds is the owner's.
* *Publication.* Two scripts give a recovery of somebody else's journal, a trap that
  races a publisher, and a wait for the lock. With an inode more than scripts and
  runtime need at most once, a freed one is reused. Two crashes let a recovery crash
  too, which the finding needs; a loss of power after one of them is the third fault.
* *Launches.* One that runs, one that waits behind it, one that gives up or starts
  after both. Two faults: a launcher dies and the cleanup of what it left fails, or
  the service dies as well.
* *Analysis.* Two analyzers are one whose scratch workspace was released and one that
  finds something changed by it; the code runs eight, one after the other, in the same
  loop. A file that moves between two directories is two edits. A stored event that is
  lost twice in a row needs two faults; so does a removal that fails after that.
* *Tokens* are drawn in order where they are only compared with each other; the
  sets are larger than the number of claims the bounds allow.

Fairness of the scan runs (`FairSpec`): weak fairness of each fiber's next step
(request, poller, worker) and of the end of an analysis, which the runner's
process timeouts bound; weak fairness of the lapse of an unattended lease, which
is time; strong fairness of a recovery claim finding an unlocked row, as the rows
are locked only for the length of a transaction.

Fairness of the review runs: strong fairness of `Progress`, the next step of any
request, worker, ending shutdown, of the expiry sweep and of time passing for an
unattended lease. It is strong because a synchronous stretch of another fiber
holds all of these up for a moment, again and again. It is stated once for all of
them: each review takes only finitely many such steps, so nobody can be starved
by the others. Renewals are not part of it. Weak fairness of the rest of a synchronous
stretch and strong fairness of each instance's recovery, a timer that comes round
every minute.

In neither model are heartbeats, failures, stalls, crashes or requests fair.

Fairness of the others: a script that was started keeps running, and a lock that was
given back goes to one of those who wait (`publication`); the service's and each
launcher's next step, their timers among them, and the death of a killed process
(`launch`); the analysis' own next step, whose parts are bounded in time or size, and
nothing at all of the observer and the store (`analysis`). That `EveryAnalysisEnds`
needs nothing of them is its point.

The deadlock check is off where the system really stops: where the worker may be lost
(section 5), and where scripts, launches or an analysis come to an end.

## 4. Proofs

Every theorem holds for every value of the constants that satisfies the assumptions of
its module, and nothing else is assumed:

| Proofs of | Assumptions | What they say |
|---|---|---|
| `ScanStore` | `RowsAssumption` | null is no scan and no token; progress ends at a number |
| `ScanRunner` | and `RunnerAssumption` | null is no instance; the queue bound is a positive number, the bound on mishaps a number |
| `ReviewScheduler` | `ReviewRowsAssumption`, `SchedulerAssumption` | null is no value, nor a dispatcher's place; limits are positive numbers; each review has one owner |
| `RuntimePublication` | `PublicationAssumption` | null, the two words for a tree that is no generation, and the shipped generation differ from publishers, inodes and journals; there are finitely many inodes, more than publishers (each has a stage beside the runtime); the bounds on faults are numbers |
| `AnalyzerLaunch` | `LaunchAssumption` | the bound on faults is a number |
| `SourceCapture` | none | |
| `AnalysisRun` | `AnalysisAssumption` | at least one analyzer is required (the code has eight); there are branches and commits, and a commit is a set of items; limits and bounds are numbers; null is no branch, commit, item or event |

Each inductive invariant was checked by TLC before it was proved, on the instance of the
run of its module (`RunnerInv` also with two instances over two repositories,
`PublicationInv` also with three crashes and two losses of power). They are not runs of
their own: what they say is proved.

**`ScanStoreProofs`** proves type correctness, one active scan per repository, row
coherence, finality, monotone progress, fencing, and that `ScanStore` implements
`RepositorySlots`. `StepWritesOneRow` reduces every action to one of six ways of
replacing one row (`Change`). The inductive invariant `StoreInv` adds to the
types, `OneActivePerRepository` and `ColumnsAgree` (the part of `RowsStayCoherent`
without times) that an absent row is empty: without it an inserted row could bring a
token or progress with it.
`WrittenRow` says what one write does to its row, `SafetyNext` lifts that to all
rows, `StepKeeps` gives the action properties. For the refinement,
`SlotOccupant` characterises the `CHOOSE` in the mapping by uniqueness of the
active scan, and `MappedWrite` shows that a write opens a slot, closes it, or is
invisible. `BaselineIsKept` needs more than the rows at one moment: a scan that
completes later could become the previous result of one that was claimed before. It
cannot: while a scan is active its repository gets no other, so that all scans of the
repository are older than its claim (`LeasesAreYounger`), and it does not complete before
its claim. The inductive `BaselineInv` has this, and that times that were read have passed.
The other part of `RowsStayCoherent`, `TimesInOrder`, rests on it as well: an outcome is
stamped with a time its writer read after its claim, and the claim is younger than the
scan (`HolderIsLater`). `CoherentInv` adds that a scan was created when its caller read
the clock, for outcomes of scans nobody claimed. Nothing of the kind holds of a running
row, which a claim stamps with a time read before it (`row_decode`).

**`ScanRunnerProofs`** is about any number of coordinators, with crashes, lapsed leases
and lost replies. The inductive invariant `RunnerInv` has five parts:

* `Shape`: types, and what goes with each control state of a request, a queue, a poller
  and a worker (a worker that claims has an unclaimed scan in hand, one that analyzes
  has a claim).
* `TimesAgree`: every time that was read has passed. The refinement needs it, because
  a client of `ScanStore` only uses times up to the clock.
* `ClaimsOnce`: no claim is in two of the places of an instance, nor in two instances.
  This is `ClaimsAreExclusive` without counting; `ClaimsOnceExcludes` derives the one
  from the other.
* `EnteredOnce`: a scan waits without a claim in one place of one instance, after its
  request had queued it. Without it `AdmissionsAccounted` is not inductive: a scan that
  waits twice would be taken, and its admission released, while it still waits.
* `AdmissionsAccounted` itself.

Every action of every instance is one of seven ways of moving items between its queue, its
poller and its worker (`Moves`, proved action by action in the `...Move` lemmas): a new
claim has a token that nobody has, everything else was there before. Shape and claims
are then kept by moves, not by twenty actions. From `RunnerInv` follow four properties.
For the refinement `RunnerImplementsStore`, `WritesImplement` says for each write of the
coordinators which of the store's it is, with the mapped clients' knowledge of leases and
times (`HeldMoves`); so the theorems about `ScanStore` hold of the rows that
the coordinators write: one active scan per repository, outcomes that are final, and
superseded holders that stay superseded.

**`ReviewSchedulerProofs`** proves all safety properties of the review runs, in
layers, each of which uses the ones before:

1. *Rows.* `RowMoves` lists what one step may do to one row: keep it, insert it,
   claim it, change its lease, end it. `StepMovesRows` shows that every action of
   every instance is such a move of every row. `RowInv` follows, and from it
   `OverlayAlways` and `EndedStays`.
2. *Pool.* `PoolInv` says that the state of an instance's scheduler is typed, that
   each owner's queue holds the owner's reviews only, and that active reviews,
   active owners and worker fibers correspond. That queues are owned is the
   strengthening: without it `Dequeue` could make a second review of an active
   owner active. `Placed` says that requests under way know their instance.
   They give `WorkersAlways`.
3. *Runs.* A claim needs a queued row, and no row returns to the queue. `RunInv`
   says that a review at its provider has left the queue and is there once;
   `StepStarts` that a step starts at most the run it has just claimed. They give
   `OneRunAlways`.
4. *Answers.* `AnswerInv` adds that a review with a request under way, or with an
   answer, was inserted: failing an absent row changes nothing, so that it could
   still be inserted and run after the answer. It gives `AnswersAlways`.
5. *Queues.* `QueueInv` says of each instance that its rotation has every owner with
   reviews once and no other, and that no queue has a review twice or an active one.
   `StepMovesQueues` lists what a step may do to an instance's queues: nothing, append a
   new review, drop one, serve an owner, lose them all; each keeps `QueueInv`
   (`GainKeeps`, `DropKeeps`, `ServeKeeps` ...). `QueuesAlwaysAccounted` turns that into
   counts. `TurnsAlwaysRotate` needs it: an owner that is appended to the rotation is not
   in front of it as well.
   `SchedulerTypeCorrect` collects the types.

The code's `filter` is `Filter`, defined by the positions that are kept and not by the
recursive `SelectSeq`, about which nothing could be proved; `FilterIsSelectSeq` in
`MCReviewScheduler` has TLC check that they are the same on all short sequences. What is
proved of it: it is injective on injective sequences, has the elements it should,
and keeps their order.

**`RuntimePublicationProofs`** is about any number of publishers, kills and losses
of power. The directory is what is in memory (`disk`) and what a loss of power may leave
of it (`survivors`). `PublicationInv` has five parts:

* `Control`: types, and that a helper that does something has the lock.
* `Images`: every survivor is consistent as it is (`ImageOK`: names lead to different
  inodes that are not free, the authoritative one to a whole generation that was flushed,
  and an exchanged journal goes with exchanged names); a stage that is gone from the directory is gone from the survivors,
  or goes together with its journal (`Vanished`); once the journal says "exchanged", it
  does so, recoverably, in all survivors (`Marked`); and there is one replacement
  at most that is not durable (`TwoAtMost`).
* `Working`: what a script knows of the directory while it makes its stage, while
  its helper publishes, and while that settles a journal. `Publishing` has the
  argument for the order of flushes: the journal is prepared when all survivors have
  the same authoritative generation and the stage is flushed; from then on until the
  exchange is settled, each survivor has the journal and a pair that matches it.
* `HistoryOK`: a generation becomes authoritative once.
* `RanksOK`: what a publisher reported is no later than what any survivor has.

The invariant of `disk` alone is not inductive: a loss of power makes any survivor the
directory, so what is said of it must hold of every survivor first. Only the lock makes
`Working` inductive, since whoever holds it is alone in changing journal and names
(`OthersStay`). From `PublicationInv` follow `RuntimeAlwaysSurvives`,
`ExchangedAlwaysRecovers` and `EndedAlwaysLeavesNoStage`. For the refinement
`PublicationImplementsGenerations`, `TwoAtMost` makes the `CHOOSE` of the durable
generation in the mapping unique: the exchange is `Replace`, a flush is `Settle` or
invisible, a loss of power is `LosePower` or, if the survivor has the new generation,
`Settle`. What is *not* invariant is in section 5: a *prepared* journal may be
unrecoverable.

**`AnalyzerLaunchProofs`** is about any number of launches, each with its caller, its
launcher and its analyzer, any of which may die. `LaunchInv` adds to
`AdmissionAccounted` and `NothingLeftBehind`: who is in the queue has called; how far
each launcher can be, given what its caller knows (`PhasesAgree`); that analyzers live in
cgroups (`ConfinedTo`); that nobody says anything after its last word
(`ChannelAgrees`); and that one launch at most occupies the delegated root, as the one
under way or one whose cleanup failed (`OneOccupant`). The last is why two analyzers
cannot overlap even when one could not be killed: the next launch is refused.

**`SourceCaptureProofs`** proves `SnapshotReal`, half of what `SuccessIsSound` says of a
source, from no assumption at all. The argument is that of a double collect. At any
moment, a file whose version differs from the one the first audit read can never look
like it again: versions only grow, and a removed file is 0. `Exposed(f, m)` says so of
a moment `m`: if `f` differed then from the first audit, the source and the second
audit differ from it now. At the moment the second audit begins, nothing it will read
can hide a file that had changed before; so, if both audits agree, all captured
contents were there at that moment. At the moment a directory is listed for the second
time, `Collected` adds that exactly the files that were there then are read: so the
directory held exactly the captured ones. `Audits` carries both from those moments to
the comparison; `EditStep` is where it matters that an edit makes a new version.

**`AnalysisRunProofs`** is about one whole analysis, with its source, its workspaces and
the observer. `AnalysisInv` has four parts, each kept by the ones before:

* `Sources`: the invariant of `SourceCaptureProofs`, by `INSTANCE` with the same
  variables, and `StagingInv` for a commit: what has arrived, what is being written and
  what is to come are together the files of the commit, and what was resolved was there
  at some moment. Hence what is materialized is `Sound`.
* `Program`: which event is next in each stage (`Numbered`), and, from that, what is
  known at each (`OutcomeOK`): the snapshot is sound after the materialization, no
  analyzer is bad after the policy, an orphaned workspace means failure. The policy comes
  after the last analyzer only because there is one: with none the numbers of the events
  would pass it by.
* `Deliveries`: one delivery of a stage's event and one of the terminal event at most
  are under way, and every event is the one of its number (`EventOK`), except that after
  an interruption a stage's event and the terminal one may have the same.
* `Storing`: only the delivery that has the lock stores, what it stores follows what was
  recorded, and the event in the row was recorded or would follow (it was stored and its
  delivery interrupted before it was recorded). This is what makes an out-of-order write
  impossible: two events that both follow the last one have the same number
  (`SameNumber`).

`GoesOn` says what a step means for events there have been, so that `EventStays` is
proved once for all that keep an event: fibers, lock, recorded event and row.

Only model-checked:

* all liveness (`EveryScriptEnds`, `EveryLaunchEnds` and the like): fairness and ENABLED
  are outside the prover;
* that `Filter` is `SelectSeq`, an induction over sequences;
* the findings of section 5, which are about single behaviours.

## 5. Findings and remarks

Findings, each shown by a run that TLC must find violated:

* `row_decode`: `claimBy` reads `claimedAt` before its transaction selects a row
  and stores it as `updatedAt`. A poll that read the clock just before a scan was
  created leaves `updatedAt < createdAt`, which `validateStoredScan` rejects at
  every later read: the scan is stuck, its repository blocked.
* `worker_lost`: a storage failure in the worker's own `claimScan` is caught
  nowhere, ends the `Effect.forever` loop, and nothing starts another worker.
* `publication_stuck`: recovery removes the stage before the journal and accepts a
  journal without its stage only if it is marked `exchanged`. A publisher that dies
  before it marks it, and a recovery that dies between the two removals, leave a
  journal no later recovery accepts: nothing can be published until somebody deletes
  it. The runtime itself stays whole.

Remarks: behaviour the models show that is no finding, because no document of the
repository promises otherwise, or, where one does (named below), no code depends on it.
The properties are stated so that they hold in spite of it. First the agent coordinator.

* A worker whose claim was refused because another instance runs the review ends
  with `failReviewIfActive` (agent-coordinator.ts:473), which asks for no lease:
  it fails the other instance's running review. The other worker then cannot
  renew or complete, so nothing inconsistent is stored, but the run is lost.
* A renewal by the heartbeat that is stored, but whose reply has not reached
  `leaseRef` when the protocol completes, makes the exact comparison of the expiry
  refuse finished work (agent-coordinator.ts:321).
* The finalizer's interrupted workers release themselves and dispatch; so waiting
  reviews become active, and the finalizer fails those, while the rows of the ones
  it interrupted stay running until their leases lapse (:529-561).
* If recovery finds the row before its own request enqueues it, the request is
  answered with an "already queued or running" error although the review runs.
* Recovery does not look at the limit per owner.

Analysis and observer:

* One store update that fails, or one timestamp behind the last, and the observer drops
  all later events: their numbers no longer follow the last recorded one. The row keeps
  its progress until the scan ends. The same from the start after a takeover, when the
  row has more progress than the first events bring (analysis-observer.ts:50-68).
* An interruption during a delivery does not advance the number, so the terminal event
  repeats it (scanner-private.ts:164-176); one of the two is dropped, and the progress
  event may be stored after the terminal one. The contract calls such a stream invalid:
  its check asks for events that are contiguous and "post-terminal free"
  (`packages/radar-contracts/src/analysis.ts:230`); only tests decode a stream with it.
  `StoredInOrder` allows this one case.
* A local capture is exact for each directory, and for the contents of all files at one
  moment; the lists of different directories may be from different moments. With four
  edits there is a capture that was never the whole tree: the audit lists one directory,
  a file goes from there to the other one and another comes back.
* The default branch's name and its commit may come from different moments. A well-formed
  archive that is shorter than the commit cannot be told from the commit.

Launches and publication:

* An analyzer of a dead service may run beside the next service's: its launcher had not
  made its cgroup when the next service looked for one (resource-governance.mjs:329).
* A cgroup that cannot be removed stays registered to nobody, and every later launch is
  refused as stale. A launcher that cannot leave its cgroup while its service is dead
  leaves its analyzer running.
* The stage of a script that was killed stays; nobody sweeps such stages. So does the
  stage, or the directory for downloads, of a script that fails before its trap is set:
  when `fresh-dir` fails after `mkdtemp` (runtime-atomic-exchange.py:861-865), or the
  script's check of its two directories (prepare-runtime-tools.sh:545-547). No journal
  names it.

## 6. Not modelled

*Of modelled parts*: audience profiles, list reads and the rewriting of legacy
results in the scan store; the in-memory implementations of both stores and the
in-memory branches of the coordinators (no other instance, no restart); the
provider protocol of a review, which is one nondeterministic outcome; in the
analysis, the decoding of its request, revisions other than the default branch,
paths, the archive's encoding and all data of results; the probes of the resource
governor.

*The workspace gate* (workspace.ts:1049) is one semaphore per host, held by every
operation, and by an analyzer for its whole run. Waiting for it counts against the 60 s
of an archive. An instance has one scan worker, which does one thing at a time, so
nothing waits; with a second worker something would. An operation that was interrupted
may still land during the removal of the workspace, which then fails: `Orphaned`.

*Unreachable at this commit*: `providerSandboxGovernanceReady` (agent-runtime.ts:217)
always fails, before any provider process is started. So no sign-in gets anywhere, no
home is written or restored, and no ranking is asked for; `beginLogin`, `refreshStatus`,
`writeHome` and the tournament of the overlay are code without a caller that gets
through. A model of them would have no behaviour to check; `ReviewScheduler` has what
is left, a protocol that fails.

*Left for later* (section 7): the visibility gate; ranking and comparison; sealed runtime
generations.

*Out of scope*: bounded file reads and child processes, which depend on the file
system and not on an order of steps; the analyzers, which map an input to a
report; the repository inventory, a walk over a sealed tree; the manifest and its
verification, checks of data; the contracts, test kit and browser UI, which have
schemas, formatting and page state only. The server never depends on what the
browser shows. Most lines of the repository are of these kinds: one bundled analyzer
(`packages/analyzer-runtime/bin/radar-semantic-analyzer.mjs`, generated) is nearly half
of them, so the lines the modules stand for are a small share of all.

## 7. Plan

Done: scan store (1), scan runner (2), agent review store and scheduler (3), runtime
publication, governed launches, the analysis with its source and observer, their runs,
and the theorems of section 4. Next, in this order:

4. `Visibility`: the attestation cache with lifetime, eviction and concurrent
   verification. Property: no positive answer beyond its lifetime.
5. `SealedGenerations`: the materialization of a runtime generation and its checks,
   against a directory that changes (runtime-sealed-generation.mjs).
6. Operators: ranking and baseline comparison, against reference definitions.
7. `AgentHomes` and `AgentRuntime`, as soon as the sandbox lets a provider run.
8. The in-memory stores as further implementations of `RepositorySlots`.

Theorems: every safety property that a passing run checks is proved, and both
refinements. What new modules say (4 to 8) is to be proved with them. Worth
adding to what there is: that finality, fencing and one active scan per repository,
which hold of the coordinators' rows through `RunnerImplementsStore`, are stated for
`ScanRunner` itself.
