------------------------------ MODULE ScanStore -------------------------------
(***************************************************************************)
(* The PostgreSQL RadarStore under its most general clients: any caller    *)
(* may run any transaction of ScanRows, in any order, with any lease it    *)
(* was ever given and with any clock reading it may have taken before the  *)
(* transaction began.  What holds here holds for every coordinator.        *)
(***************************************************************************)
EXTENDS ScanRows

VARIABLES asked,   \* createdAt read by each createScan call, 0 before the call
          held     \* claims that callers have not yet dropped: the token and
                   \* the time they got it

storeVars == <<rows, clock, asked, held>>

StoreInit ==
  /\ RowsInit
  /\ asked = [s \in Scan |-> 0]
  /\ held = {}

\* Tokens somebody could still present; a UUID is never drawn twice.
Spent == {h.token : h \in held} \cup {rows[s].token : s \in Scan}

\* createScan draws its identifier and reads its createdAt before the insert.
AskCreate(s) ==
  /\ asked[s] = 0
  /\ clock' = clock + 1
  /\ asked' = [asked EXCEPT ![s] = clock']
  /\ UNCHANGED rows
  /\ held' \in SUBSET held

Create(s) ==
  /\ asked[s] > 0
  /\ InsertRow(s, asked[s])
  /\ held' \in SUBSET held
  /\ UNCHANGED <<clock, asked>>

Claim(s, tok) ==
  /\ tok \notin Spent
  /\ \E claimedAt \in 0..clock : ClaimRow(s, tok, claimedAt)
  /\ held' \in SUBSET (held \cup {[token |-> tok, since |-> clock]})
  /\ UNCHANGED <<clock, asked>>

\* Mutation of Reading: the holder stamps its writes with a time it read before
\* its claim.
ReadingBeforeClaim(h) == 0..clock

\* A holder reads the clock after it got its claim.
Reading(h) == h.since..clock

Update(s, h) ==
  /\ \E p \in 0..FullProgress, t \in Reading(h) : UpdateRow(s, h.token, p, t)
  /\ held' \in SUBSET held
  /\ UNCHANGED <<clock, asked>>

Complete(s, h) ==
  /\ \E p \in Scan \cup {None}, c, t \in Reading(h) :
       CompleteRow(s, h.token, p, c, t)
  /\ held' \in SUBSET held
  /\ UNCHANGED <<clock, asked>>

Fail(s, h) ==
  /\ \E t \in Reading(h) : FailRow(s, h.token, t)
  /\ held' \in SUBSET held
  /\ UNCHANGED <<clock, asked>>

\* The caller that created the scan gives it up before any claim.
FailUnclaimed(s) ==
  /\ \E t \in asked[s]..clock : FailUnclaimedRow(s, t)
  /\ held' \in SUBSET held
  /\ UNCHANGED <<clock, asked>>

Renew(s, h) ==
  /\ RenewRow(s, h.token)
  /\ held' \in SUBSET held
  /\ UNCHANGED <<clock, asked>>

Lapse(s) ==
  /\ LapseRow(s)
  /\ UNCHANGED <<clock, asked, held>>

\* A caller is done with its claims, or its process died.
Drop ==
  /\ held' \in SUBSET held
  /\ UNCHANGED <<rows, clock, asked>>

StoreNext ==
  \/ \E s \in Scan :
       \/ AskCreate(s)
       \/ Create(s)
       \/ FailUnclaimed(s)
       \/ Lapse(s)
       \/ \E tok \in Token : Claim(s, tok)
       \/ \E h \in held : \/ Update(s, h)
                          \/ Complete(s, h)
                          \/ Fail(s, h)
                          \/ Renew(s, h)
  \/ Drop

StoreSpec == StoreInit /\ [][StoreNext]_storeVars

-----------------------------------------------------------------------------
(***************************************************************************)
(* Properties.                                                             *)
(***************************************************************************)

\* Every variable has its type.
StoreTypeOK ==
  /\ rows \in [Scan -> Row]
  /\ clock \in Nat
  /\ asked \in [Scan -> Nat]
  /\ held \in SUBSET [token : Token, since : Nat]

\* A repository never has two scans queued or running, whichever instances
\* accepted them (the unique index and the conflict clause of createScan).
OneActivePerRepository ==
  \A s, t \in Scan :
    IsActive(s) /\ IsActive(t) /\ RepoOf[s] = RepoOf[t] => s = t

\* The lease and the baseline of a row fit its status: a lease exactly while it is
\* running, a baseline never its own scan and gone with a failure; no progress
\* before the first claim, and full progress once the scan has ended.
ColumnsAgree ==
  \A s \in Scan :
    LET r == rows[s] IN
    /\ r.token # None <=> r.status = "running"
    /\ r.lapsed => r.status = "running"
    /\ r.status \in {"queued", "failed"} => r.baseline = None
    /\ r.baseline # s
    /\ r.status = "queued" => r.progress = 0
    /\ r.status \in Terminal => r.progress = FullProgress

\* A row that is not running was last written, and a result was completed, no
\* earlier than its scan was created.
TimesInOrder ==
  \A s \in Scan :
    LET r == rows[s] IN
    /\ r.status # "running" => r.createdAt <= r.updatedAt
    /\ r.status = "completed" => r.createdAt <= r.completedAt

\* What validateStoredScan and validatePostgresRow demand of these columns when a
\* row is next read holds of every queued, completed and failed row, whoever wrote
\* it; of a running row all of it but createdAt <= updatedAt, which the clock
\* reading of a claim can break (Decodes; the run row_decode shows it broken).
RowsStayCoherent == ColumnsAgree /\ TimesInOrder

\* From its first claim on, a scan is compared with the newest completed scan of
\* its repository that finished before it was created: looking the baseline up
\* again, after a lease was lost, can never give another answer.
BaselineIsNewestPrevious ==
  \A s \in Scan :
    rows[s].status \in {"running", "completed"} =>
      rows[s].baseline = FindPreviousResult(s)

\* A completed or failed scan is never changed again, whatever call is repeated
\* or arrives late (terminal status checks of every transaction).
TerminalIsFinal ==
  [][\A s \in Scan : rows[s].status \in Terminal => rows'[s] = rows[s]]_storeVars

\* While a scan is active its progress never goes back, also when a second
\* worker takes the scan over and starts again from zero.
ProgressNeverFallsBack ==
  [][\A s \in Scan : rows'[s].progress >= rows[s].progress]_storeVars

\* A caller whose lease was taken over never holds the scan again.
SupersededForGood ==
  [][\A s \in Scan, h \in held :
       rows[s].status = "running" /\ rows[s].token # h.token
         => rows'[s].token # h.token]_storeVars

\* The store implements one slot per repository with one final outcome per scan.
SlotOf(r) ==
  IF \E s \in Scan : IsActive(s) /\ RepoOf[s] = r
  THEN CHOOSE s \in Scan : IsActive(s) /\ RepoOf[s] = r
  ELSE None

OutcomeOf(s) == IF IsActive(s) THEN "open" ELSE rows[s].status

Slots == INSTANCE RepositorySlots
           WITH slot <- [r \in {RepoOf[s] : s \in Scan} |-> SlotOf(r)],
                outcome <- [s \in Scan |-> OutcomeOf(s)]

\* Every behaviour of the store is one of RepositorySlots.
ImplementsSlots == Slots!SlotSpec
=============================================================================
