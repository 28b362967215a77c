------------------------------- MODULE ScanRows -------------------------------
(***************************************************************************)
(* The durable rows of the PostgreSQL RadarStore and its transactions      *)
(* (apps/radar/server/store.ts).  Each operator below is one transaction:  *)
(* its guard is what the transaction checks under the row lock and its     *)
(* primed part is what it writes.  ScanStore calls them as an arbitrary    *)
(* client may, ScanRunner as the scan coordinator does.                    *)
(*                                                                         *)
(* Abstractions of data.                                                   *)
(*  - Timestamps are readings of a clock that advances when a createdAt    *)
(*    is read; every comparison the store makes is between a createdAt and *)
(*    a later or earlier reading, so nothing else needs a tick of its own. *)
(*  - A lease expiry is the flag lapsed: the expiry is in the past.  A     *)
(*    transaction compares the expiry with a time it read before it took   *)
(*    the row lock, so it may still see a lapsed lease as live.            *)
(*  - Progress 0..100 is 0..FullProgress.                                  *)
(***************************************************************************)
EXTENDS Naturals, FiniteSets

CONSTANTS Scan,          \* scan identifiers
          RepoOf,        \* the lower-cased owner/repository of each scan
          Token,         \* lease tokens (random UUIDs)
          None,          \* SQL null
          FullProgress   \* stands for a progress of 100

ASSUME RowsAssumption ==
  /\ None \notin Scan
  /\ None \notin Token
  /\ FullProgress \in Nat

VARIABLES rows,    \* the scans table, one row for every identifier
          clock    \* the latest createdAt read

rowVars == <<rows, clock>>

Active == {"queued", "running"}
Terminal == {"completed", "failed"}

NoRow == [status |-> "absent", token |-> None, lapsed |-> FALSE,
          baseline |-> None, progress |-> 0,
          createdAt |-> 0, updatedAt |-> 0, completedAt |-> 0]

Row == [status : {"absent"} \cup Active \cup Terminal,
        token : Token \cup {None}, lapsed : BOOLEAN,
        baseline : Scan \cup {None}, progress : 0..FullProgress,
        createdAt : Nat, updatedAt : Nat, completedAt : Nat]

RowsInit == rows = [s \in Scan |-> NoRow] /\ clock = 0

-----------------------------------------------------------------------------
(***************************************************************************)
(* What the transactions read.                                             *)
(***************************************************************************)

IsActive(s) == rows[s].status \in Active

\* The partial unique index on (lower(owner), lower(repository)).
RepositoryBusy(s) == \E t \in Scan : IsActive(t) /\ RepoOf[t] = RepoOf[s]

\* decodeStoredPostgresScanRow accepts the row.  The timestamps are the part of
\* validateStoredScan the transactions below can falsify.
Decodes(s) == rows[s].createdAt <= rows[s].updatedAt

\* The row is running under this token: rowLeaseIsLive but for the expiry.
Holds(s, tok) == rows[s].status = "running" /\ rows[s].token = tok

\* A transaction may refuse its caller: wrong token, or an expiry in the past.
Refuses(s, tok) == ~Holds(s, tok) \/ rows[s].lapsed

\* Mutation of Claimable: an expired lease still protects its row.
ClaimableUnlessLeased(s) ==
  \/ rows[s].status = "queued"
  \/ rows[s].status = "running" /\ rows[s].token = None

\* queued, or running with a lease that is missing or has expired.
Claimable(s) ==
  \/ rows[s].status = "queued"
  \/ rows[s].status = "running" /\ (rows[s].token = None \/ rows[s].lapsed)

\* Completed scans of the repository whose result predates scan s.
Previous(s) ==
  {p \in Scan \ {s} : /\ rows[p].status = "completed"
                      /\ RepoOf[p] = RepoOf[s]
                      /\ rows[p].createdAt < rows[s].createdAt
                      /\ rows[p].completedAt < rows[s].createdAt}

Newest(scans) ==
  {p \in scans : \A q \in scans : rows[q].createdAt <= rows[p].createdAt}

FindPreviousResult(s) ==
  IF Newest(Previous(s)) = {} THEN None ELSE CHOOSE p \in Newest(Previous(s)) : TRUE

\* A pinned baseline is kept, a null one is looked up again.
BaselineFor(s) ==
  IF rows[s].baseline = None THEN FindPreviousResult(s) ELSE rows[s].baseline

-----------------------------------------------------------------------------
(***************************************************************************)
(* The records the transactions write.                                     *)
(***************************************************************************)

Queued(createdAt) ==
  [status |-> "queued", token |-> None, lapsed |-> FALSE,
   baseline |-> None, progress |-> 0,
   createdAt |-> createdAt, updatedAt |-> createdAt, completedAt |-> 0]

Claimed(row, tok, baseline, claimedAt) ==
  [status |-> "running", token |-> tok, lapsed |-> FALSE,
   baseline |-> baseline, progress |-> row.progress,
   createdAt |-> row.createdAt, updatedAt |-> claimedAt,
   completedAt |-> row.completedAt]

\* Mutation of Updated: the requested progress is written as it is.
UpdatedBlindly(row, progress, updatedAt) ==
  [row EXCEPT !.progress = progress, !.updatedAt = updatedAt]

\* Mutation of Updated: progress is accumulated.
UpdatedByAdding(row, progress, updatedAt) ==
  [row EXCEPT !.progress = @ + progress, !.updatedAt = updatedAt]

\* Progress never goes back.
Updated(row, progress, updatedAt) ==
  [row EXCEPT !.progress = IF progress > @ THEN progress ELSE @,
              !.updatedAt = updatedAt]

Completed(row, previous, completedAt, updatedAt) ==
  [status |-> "completed", token |-> None, lapsed |-> FALSE,
   baseline |-> previous, progress |-> FullProgress,
   createdAt |-> row.createdAt, updatedAt |-> updatedAt, completedAt |-> completedAt]

\* Mutation of Failed: the pinned baseline stays.
FailedWithBaseline(row, updatedAt) ==
  [row EXCEPT !.status = "failed", !.token = None, !.lapsed = FALSE,
              !.progress = FullProgress, !.updatedAt = updatedAt]

Failed(row, updatedAt) ==
  [status |-> "failed", token |-> None, lapsed |-> FALSE,
   baseline |-> None, progress |-> FullProgress,
   createdAt |-> row.createdAt, updatedAt |-> updatedAt,
   completedAt |-> row.completedAt]

-----------------------------------------------------------------------------
(***************************************************************************)
(* The transactions.                                                       *)
(***************************************************************************)

\* Mutation of InsertRow: no conflict clause.
InsertRowUnchecked(s, createdAt) ==
  /\ rows[s].status = "absent"
  /\ rows' = [rows EXCEPT ![s] = Queued(createdAt)]

\* createScan: insert unless the repository already has an active scan.
InsertRow(s, createdAt) ==
  /\ rows[s].status = "absent"
  /\ ~RepositoryBusy(s)
  /\ rows' = [rows EXCEPT ![s] = Queued(createdAt)]

\* claimScan and claimNextScan: claimedAt was read before the transaction began.
ClaimRow(s, tok, claimedAt) ==
  /\ Decodes(s)
  /\ Claimable(s)
  /\ rows' = [rows EXCEPT ![s] = Claimed(@, tok, BaselineFor(s), claimedAt)]

\* updateScan: a caller without the lease changes nothing.
UpdateRow(s, tok, progress, updatedAt) ==
  /\ Decodes(s)
  /\ Holds(s, tok)
  /\ rows' = [rows EXCEPT ![s] = Updated(@, progress, updatedAt)]

\* Mutation of Completable: any stored scan can be completed, by anyone.
CompletableLate(s, tok, previous) ==
  Decodes(s) /\ rows[s].status # "absent" /\ previous = rows[s].baseline

\* completeScan: the result must be bound to the row's pinned baseline.
Completable(s, tok, previous) ==
  Decodes(s) /\ Holds(s, tok) /\ previous = rows[s].baseline

CompleteRow(s, tok, previous, completedAt, updatedAt) ==
  /\ Completable(s, tok, previous)
  /\ rows[s].createdAt <= completedAt
  /\ rows' = [rows EXCEPT ![s] = Completed(@, previous, completedAt, updatedAt)]

\* Mutation of FailRow: any lease will do.
FailRowUnfenced(s, tok, updatedAt) ==
  /\ Decodes(s)
  /\ rows[s].status = "running"
  /\ rows' = [rows EXCEPT ![s] = Failed(@, updatedAt)]

\* failScanIfActive with a lease.
FailRow(s, tok, updatedAt) ==
  /\ Decodes(s)
  /\ Holds(s, tok)
  /\ rows' = [rows EXCEPT ![s] = Failed(@, updatedAt)]

\* Mutation of FailUnclaimedRow: the status is not looked at.
FailUnclaimedRowLate(s, updatedAt) ==
  /\ Decodes(s)
  /\ rows[s].token = None
  /\ rows' = [rows EXCEPT ![s] = Failed(@, updatedAt)]

\* failScanIfActive without a lease: only a row that was never claimed.
FailUnclaimedRow(s, updatedAt) ==
  /\ Decodes(s)
  /\ rows[s].status = "queued"
  /\ rows[s].token = None
  /\ rows' = [rows EXCEPT ![s] = Failed(@, updatedAt)]

\* Mutation of RenewRow: the lease is put back rather than compared.
RenewRowForced(s, tok) ==
  /\ rows[s].status = "running"
  /\ rows' = [rows EXCEPT ![s] = [@ EXCEPT !.token = tok, !.lapsed = FALSE]]

\* renewScanLease: one UPDATE, which does not decode the record.
RenewRow(s, tok) ==
  /\ Holds(s, tok)
  /\ rows' = [rows EXCEPT ![s] = [@ EXCEPT !.lapsed = FALSE]]

\* Time passes the lease's expiry.
LapseRow(s) ==
  /\ rows[s].status = "running"
  /\ rows[s].token # None
  /\ ~rows[s].lapsed
  /\ rows' = [rows EXCEPT ![s] = [@ EXCEPT !.lapsed = TRUE]]
=============================================================================
