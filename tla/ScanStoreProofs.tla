--------------------------- MODULE ScanStoreProofs ----------------------------
(***************************************************************************)
(* What ScanStore promises, for any number of scans, repositories, leases  *)
(* and callers.  The only assumptions are RowsAssumption: the null value   *)
(* is neither a scan nor a token, and a full progress is a number.         *)
(***************************************************************************)
EXTENDS ScanStore, ScanRowsProofs, TLAPS

-----------------------------------------------------------------------------
(***************************************************************************)
(* Types.                                                                  *)
(***************************************************************************)

\* Every reading a holder of a claim may take is a number.
LEMMA ReadingType ==
  ASSUME StoreTypeOK, NEW h \in held, NEW t \in Reading(h)
  PROVE  /\ t \in Nat
         /\ h.token \in Token
<1>1. h \in [token : Token, since : Nat]
  BY DEF StoreTypeOK
<1>2. h.since \in Nat /\ h.token \in Token
  BY <1>1
<1> QED
  BY <1>2 DEF Reading, StoreTypeOK

\* The empty store has its type.
LEMMA TypeInit == StoreInit => StoreTypeOK
<1> SUFFICES ASSUME StoreInit PROVE StoreTypeOK
  OBVIOUS
<1> USE DEF StoreInit, RowsInit
<1>1. NoRow \in Row
  BY RowsAssumption DEF NoRow, Row
<1>2. rows \in [Scan -> Row]
  BY <1>1
<1>3. clock \in Nat /\ asked \in [Scan -> Nat] /\ held \in SUBSET [token : Token, since : Nat]
  OBVIOUS
<1> QED
  BY <1>2, <1>3 DEF StoreTypeOK

\* What a transaction may do to row s: r is what it writes.
Change(s, r) ==
  \/ /\ rows[s].status = "absent" /\ ~RepositoryBusy(s)
     /\ \E n \in Nat : r = Queued(n)
  \/ /\ Claimable(s)
     /\ \E tok \in Token \ Spent, n \in Nat :
          r = Claimed(rows[s], tok, BaselineFor(s), n)
  \/ /\ rows[s].status = "running"
     /\ \E q \in 0..FullProgress, n \in Nat :
          /\ q >= rows[s].progress
          /\ r = [rows[s] EXCEPT !.progress = q, !.updatedAt = n]
  \/ /\ rows[s].status = "running"
     /\ \E c, n \in Nat : r = Completed(rows[s], rows[s].baseline, c, n)
  \/ /\ IsActive(s)
     /\ \E n \in Nat : r = Failed(rows[s], n)
  \/ /\ rows[s].status = "running"
     /\ \E b \in BOOLEAN : r = [rows[s] EXCEPT !.lapsed = b]

Writes(s) == \E r \in Row : Change(s, r) /\ rows' = [rows EXCEPT ![s] = r]

\* Every step changes one row in one of these ways, or no row.
LEMMA StepWritesOneRow ==
  ASSUME StoreTypeOK, [StoreNext]_storeVars
  PROVE  UNCHANGED rows \/ \E s \in Scan : Writes(s)
<1> USE DEF Active, Terminal
<1>0. \A s \in Scan : rows[s] \in Row
  BY DEF StoreTypeOK
<1>1. ASSUME NEW s \in Scan, Create(s) PROVE Writes(s)
  <2>1. asked[s] \in Nat
    BY DEF StoreTypeOK
  <2>2. Queued(asked[s]) \in Row
    BY <2>1, RowsAssumption DEF Queued, Row
  <2>3. Change(s, Queued(asked[s]))
    BY <1>1, <2>1 DEF Create, InsertRow, Change
  <2> QED
    BY <1>1, <2>2, <2>3 DEF Create, InsertRow, Writes
<1>2. ASSUME NEW s \in Scan, FailUnclaimed(s) PROVE Writes(s)
  <2>1. PICK t \in asked[s]..clock : FailUnclaimedRow(s, t)
    BY <1>2 DEF FailUnclaimed
  <2>2. t \in Nat
    BY DEF StoreTypeOK
  <2>3. Failed(rows[s], t) \in Row
    BY <1>0, <2>2, RowsAssumption DEF Failed, Row
  <2>4. Change(s, Failed(rows[s], t))
    BY <2>1, <2>2 DEF FailUnclaimedRow, Change, IsActive
  <2> QED
    BY <2>1, <2>3, <2>4 DEF FailUnclaimedRow, Writes
<1>3. ASSUME NEW s \in Scan, Lapse(s) PROVE Writes(s)
  <2>1. [rows[s] EXCEPT !.lapsed = TRUE] \in Row
    BY <1>0 DEF Row
  <2>2. Change(s, [rows[s] EXCEPT !.lapsed = TRUE])
    BY <1>3 DEF Lapse, LapseRow, Change
  <2> QED
    BY <1>3, <2>1, <2>2 DEF Lapse, LapseRow, Writes
<1>4. ASSUME NEW s \in Scan, NEW tok \in Token, Claim(s, tok) PROVE Writes(s)
  <2>1. PICK claimedAt \in 0..clock : ClaimRow(s, tok, claimedAt)
    BY <1>4 DEF Claim
  <2>2. claimedAt \in Nat /\ BaselineFor(s) \in Scan \cup {None}
    BY BaselineType DEF StoreTypeOK
  <2>3. Claimed(rows[s], tok, BaselineFor(s), claimedAt) \in Row
    BY <1>0, <2>2 DEF Claimed, Row
  <2>4. Change(s, Claimed(rows[s], tok, BaselineFor(s), claimedAt))
    BY <1>4, <2>1, <2>2 DEF Claim, ClaimRow, Change
  <2> QED
    BY <2>1, <2>3, <2>4 DEF ClaimRow, Writes
<1>5. ASSUME NEW s \in Scan, NEW h \in held, Update(s, h) PROVE Writes(s)
  <2>1. PICK p \in 0..FullProgress, t \in Reading(h) : UpdateRow(s, h.token, p, t)
    BY <1>5 DEF Update
  <2> DEFINE q == IF p > rows[s].progress THEN p ELSE rows[s].progress
             r == [rows[s] EXCEPT !.progress = q, !.updatedAt = t]
  <2>2. t \in Nat
    BY ReadingType
  <2>3. rows[s].progress \in 0..FullProgress
    BY <1>0 DEF Row
  <2>4. q \in 0..FullProgress /\ q >= rows[s].progress
    BY <2>3, RowsAssumption
  <2>5. Updated(rows[s], p, t) = r
    BY DEF Updated
  <2> HIDE DEF q
  <2>6. r \in Row
    BY <1>0, <2>2, <2>4 DEF Row
  <2>7. Change(s, r)
    BY <2>1, <2>2, <2>4 DEF UpdateRow, Holds, Change
  <2> QED
    BY <2>1, <2>5, <2>6, <2>7 DEF UpdateRow, Writes
<1>6. ASSUME NEW s \in Scan, NEW h \in held, Complete(s, h) PROVE Writes(s)
  <2>1. PICK p \in Scan \cup {None}, c \in Reading(h), t \in Reading(h) :
          CompleteRow(s, h.token, p, c, t)
    BY <1>6 DEF Complete
  <2>2. c \in Nat /\ t \in Nat
    BY ReadingType
  <2>3. p = rows[s].baseline /\ rows[s].status = "running"
    BY <2>1 DEF CompleteRow, Completable, Holds
  <2>4. Completed(rows[s], p, c, t) \in Row
    BY <1>0, <2>2, RowsAssumption DEF Completed, Row
  <2>5. Change(s, Completed(rows[s], p, c, t))
    BY <2>2, <2>3 DEF Change
  <2> QED
    BY <2>1, <2>4, <2>5 DEF CompleteRow, Writes
<1>7. ASSUME NEW s \in Scan, NEW h \in held, Fail(s, h) PROVE Writes(s)
  <2>1. PICK t \in Reading(h) : FailRow(s, h.token, t)
    BY <1>7 DEF Fail
  <2>2. t \in Nat
    BY ReadingType
  <2>3. Failed(rows[s], t) \in Row
    BY <1>0, <2>2, RowsAssumption DEF Failed, Row
  <2>4. Change(s, Failed(rows[s], t))
    BY <2>1, <2>2 DEF FailRow, Holds, Change, IsActive
  <2> QED
    BY <2>1, <2>3, <2>4 DEF FailRow, Writes
<1>8. ASSUME NEW s \in Scan, NEW h \in held, Renew(s, h) PROVE Writes(s)
  <2>1. [rows[s] EXCEPT !.lapsed = FALSE] \in Row
    BY <1>0 DEF Row
  <2>2. Change(s, [rows[s] EXCEPT !.lapsed = FALSE])
    BY <1>8 DEF Renew, RenewRow, Holds, Change
  <2> QED
    BY <1>8, <2>1, <2>2 DEF Renew, RenewRow, Writes
<1> QED
  BY <1>1, <1>2, <1>3, <1>4, <1>5, <1>6, <1>7, <1>8
     DEF StoreNext, AskCreate, Drop, storeVars

\* Every operation keeps the type of the store.
LEMMA TypeNext == StoreTypeOK /\ [StoreNext]_storeVars => StoreTypeOK'
<1> SUFFICES ASSUME StoreTypeOK, [StoreNext]_storeVars PROVE StoreTypeOK'
  OBVIOUS
<1>1. rows' \in [Scan -> Row]
  BY StepWritesOneRow DEF StoreTypeOK, Writes
<1>2. clock' \in Nat /\ asked' \in [Scan -> Nat]
  BY DEF StoreTypeOK, storeVars, StoreNext, AskCreate, Create, FailUnclaimed, Lapse,
         Claim, Update, Complete, Fail, Renew, Drop
<1>3. held' \in SUBSET [token : Token, since : Nat]
  BY DEF StoreTypeOK, storeVars, StoreNext, AskCreate, Create, FailUnclaimed, Lapse,
         Claim, Update, Complete, Fail, Renew, Drop
<1> QED
  BY <1>1, <1>2, <1>3 DEF StoreTypeOK

\* Type correctness of the store for every instance of its constants.
THEOREM TypeCorrect == StoreSpec => []StoreTypeOK
  BY TypeInit, TypeNext, PTL DEF StoreSpec

-----------------------------------------------------------------------------
(***************************************************************************)
(* Safety.  OneActivePerRepository and ColumnsAgree are inductive once *)
(* it is known that a row not yet inserted is empty.                       *)
(***************************************************************************)

\* A row that was never inserted holds nothing.
AbsentRowsAreEmpty == \A s \in Scan : rows[s].status = "absent" => rows[s] = NoRow

StoreInv ==
  /\ StoreTypeOK
  /\ AbsentRowsAreEmpty
  /\ OneActivePerRepository
  /\ ColumnsAgree

\* A claim never pins the scan it claims as its own baseline.
LEMMA BaselineIsAnother ==
  ASSUME NEW s \in Scan, rows[s].baseline # s
  PROVE  BaselineFor(s) # s
<1>1. s \notin Newest(Previous(s))
  BY DEF Newest, Previous
<1>2. FindPreviousResult(s) # s
  BY <1>1, RowsAssumption DEF FindPreviousResult
<1> QED
  BY <1>2 DEF BaselineFor

\* The invariant holds of the empty store.
LEMMA SafetyInit == StoreInit => StoreInv
<1> SUFFICES ASSUME StoreInit PROVE StoreInv
  OBVIOUS
<1>1. \A s \in Scan : rows[s] = NoRow
  BY DEF StoreInit, RowsInit
<1>2. OneActivePerRepository
  BY <1>1 DEF OneActivePerRepository, IsActive, Active, NoRow
<1>3. ColumnsAgree
  BY <1>1, RowsAssumption DEF ColumnsAgree, Terminal, NoRow
<1> QED
  BY <1>1, <1>2, <1>3, TypeInit DEF StoreInv, AbsentRowsAreEmpty

\* What one write does to the row itself.
LEMMA WrittenRow ==
  ASSUME StoreInv, NEW s \in Scan, NEW r \in Row, Change(s, r)
  PROVE  /\ r.status # "absent"
         /\ r.token # None <=> r.status = "running"
         /\ r.lapsed => r.status = "running"
         /\ r.status \in {"queued", "failed"} => r.baseline = None
         /\ r.baseline # s
         /\ r.status = "queued" => r.progress = 0
         /\ r.status \in Terminal => r.progress = FullProgress
         /\ r.status \in Active => IsActive(s) \/ ~RepositoryBusy(s)
         /\ rows[s].status \notin Terminal
         /\ r.progress >= rows[s].progress
<1> USE DEF Active, Terminal, IsActive
<1>0. /\ rows[s] \in Row
      /\ rows[s].progress \in 0..FullProgress
      /\ rows[s].status = "absent" => rows[s].progress = 0
      /\ rows[s].token # None <=> rows[s].status = "running"
      /\ rows[s].baseline # s
  BY DEF StoreInv, StoreTypeOK, Row, AbsentRowsAreEmpty, ColumnsAgree, NoRow
<1>1. CASE rows[s].status = "absent" /\ ~RepositoryBusy(s) /\ \E n \in Nat : r = Queued(n)
  BY <1>0, <1>1, RowsAssumption DEF Queued
<1>2. CASE /\ Claimable(s)
           /\ \E tok \in Token \ Spent, n \in Nat :
                r = Claimed(rows[s], tok, BaselineFor(s), n)
  <2>1. BaselineFor(s) # s
    BY <1>0, BaselineIsAnother
  <2>2. rows[s].status \in {"queued", "running"}
    BY <1>2 DEF Claimable
  <2> QED
    BY <1>0, <1>2, <2>1, <2>2, RowsAssumption DEF Claimed
<1>3. CASE /\ rows[s].status = "running"
           /\ \E q \in 0..FullProgress, n \in Nat :
                /\ q >= rows[s].progress
                /\ r = [rows[s] EXCEPT !.progress = q, !.updatedAt = n]
  BY <1>0, <1>3 DEF Row
<1>4. CASE /\ rows[s].status = "running"
           /\ \E c, n \in Nat : r = Completed(rows[s], rows[s].baseline, c, n)
  BY <1>0, <1>4, RowsAssumption DEF Completed
<1>5. CASE IsActive(s) /\ \E n \in Nat : r = Failed(rows[s], n)
  BY <1>0, <1>5, RowsAssumption DEF Failed
<1>6. CASE /\ rows[s].status = "running"
           /\ \E b \in BOOLEAN : r = [rows[s] EXCEPT !.lapsed = b]
  BY <1>0, <1>6 DEF Row
<1> QED
  BY <1>1, <1>2, <1>3, <1>4, <1>5, <1>6 DEF Change

\* Every operation keeps the invariant.
LEMMA SafetyNext == StoreInv /\ [StoreNext]_storeVars => StoreInv'
<1> SUFFICES ASSUME StoreInv, [StoreNext]_storeVars PROVE StoreInv'
  OBVIOUS
<1>1. StoreTypeOK'
  BY TypeNext DEF StoreInv
<1>2. CASE UNCHANGED rows
  BY <1>1, <1>2 DEF StoreInv, AbsentRowsAreEmpty, OneActivePerRepository,
                    ColumnsAgree, IsActive
<1>3. ASSUME NEW s \in Scan, Writes(s) PROVE StoreInv'
  <2>1. PICK r \in Row : Change(s, r) /\ rows' = [rows EXCEPT ![s] = r]
    BY <1>3 DEF Writes
  <2>2. /\ rows'[s] = r
        /\ \A t \in Scan \ {s} : rows'[t] = rows[t]
    BY <2>1 DEF StoreInv, StoreTypeOK
  <2>3. AbsentRowsAreEmpty'
    BY <2>1, <2>2, WrittenRow DEF StoreInv, AbsentRowsAreEmpty
  <2>4. OneActivePerRepository'
    <3> SUFFICES ASSUME NEW t \in Scan, NEW u \in Scan,
                        IsActive(t)', IsActive(u)', RepoOf[t] = RepoOf[u], t # u
                 PROVE  FALSE
      BY DEF OneActivePerRepository
    <3>1. CASE t # s /\ u # s
      BY <3>1, <2>2 DEF StoreInv, OneActivePerRepository, IsActive
    <3>2. ASSUME NEW v \in Scan \ {s}, IsActive(v)', IsActive(s)', RepoOf[v] = RepoOf[s]
          PROVE  FALSE
      <4>1. IsActive(v) /\ RepositoryBusy(s)
        BY <3>2, <2>2 DEF IsActive, RepositoryBusy
      <4>2. IsActive(s)
        BY <4>1, <3>2, <2>1, <2>2, WrittenRow DEF IsActive
      <4> QED
        BY <4>1, <4>2, <3>2 DEF StoreInv, OneActivePerRepository
    <3> QED
      BY <3>1, <3>2
  <2>5. ColumnsAgree'
    <3> SUFFICES ASSUME NEW t \in Scan
                 PROVE  LET x == rows'[t] IN
                        /\ x.token # None <=> x.status = "running"
                        /\ x.lapsed => x.status = "running"
                        /\ x.status \in {"queued", "failed"} => x.baseline = None
                        /\ x.baseline # t
                        /\ x.status = "queued" => x.progress = 0
                        /\ x.status \in Terminal => x.progress = FullProgress
      BY DEF ColumnsAgree
    <3>1. CASE t = s
      BY <3>1, <2>1, <2>2, WrittenRow
    <3>2. CASE t # s
      BY <3>2, <2>2 DEF StoreInv, ColumnsAgree
    <3> QED
      BY <3>1, <3>2
  <2> QED
    BY <1>1, <2>3, <2>4, <2>5 DEF StoreInv
<1> QED
  BY <1>2, <1>3, StepWritesOneRow DEF StoreInv

\* The invariant holds in every state.
LEMMA Safety == StoreSpec => []StoreInv
  BY SafetyInit, SafetyNext, PTL DEF StoreSpec

\* No repository ever has two queued or running scans: InsertRow's conflict clause
\* is enough, whichever callers claim, lose, complete or fail scans meanwhile.
THEOREM OneActive == StoreSpec => []OneActivePerRepository
<1>1. StoreInv => OneActivePerRepository
  BY DEF StoreInv
<1> QED
  BY <1>1, Safety, PTL

-----------------------------------------------------------------------------
(***************************************************************************)
(* What a step may never do.                                               *)
(***************************************************************************)

\* What an operation may not change in a row.
LEMMA StepKeeps ==
  ASSUME StoreInv, [StoreNext]_storeVars, NEW s \in Scan
  PROVE  /\ rows[s].status \in Terminal => rows'[s] = rows[s]
         /\ rows'[s].progress >= rows[s].progress
<1>0. rows[s].progress \in 0..FullProgress
  BY DEF StoreInv, StoreTypeOK, Row
<1>1. CASE UNCHANGED rows
  BY <1>0, <1>1, RowsAssumption
<1>2. ASSUME NEW t \in Scan, Writes(t)
      PROVE  /\ rows[s].status \in Terminal => rows'[s] = rows[s]
             /\ rows'[s].progress >= rows[s].progress
  <2>1. PICK r \in Row : Change(t, r) /\ rows' = [rows EXCEPT ![t] = r]
    BY <1>2 DEF Writes
  <2>2. /\ rows'[t] = r
        /\ t # s => rows'[s] = rows[s]
    BY <2>1 DEF StoreInv, StoreTypeOK
  <2>3. rows[t].status \notin Terminal /\ r.progress >= rows[t].progress
    BY <2>1, WrittenRow
  <2>4. CASE t = s
    BY <2>2, <2>3, <2>4
  <2>5. CASE t # s
    BY <1>0, <2>2, <2>5, RowsAssumption
  <2> QED
    BY <2>4, <2>5
<1> QED
  BY <1>1, <1>2, StepWritesOneRow DEF StoreInv

\* A completed or failed scan is never touched again.
THEOREM TerminalStays == StoreSpec => TerminalIsFinal
<1>1. StoreInv /\ [StoreNext]_storeVars
        => [\A s \in Scan : rows[s].status \in Terminal => rows'[s] = rows[s]]_storeVars
  BY StepKeeps
<1> QED
  BY <1>1, Safety, PTL DEF StoreSpec, TerminalIsFinal

\* Progress never goes back, through any number of takeovers.
THEOREM ProgressStays == StoreSpec => ProgressNeverFallsBack
<1>1. StoreInv /\ [StoreNext]_storeVars
        => [\A s \in Scan : rows'[s].progress >= rows[s].progress]_storeVars
  BY StepKeeps
<1> QED
  BY <1>1, Safety, PTL DEF StoreSpec, ProgressNeverFallsBack

\* A lease that was taken over is never valid for its row again.
THEOREM SupersededStays == StoreSpec => SupersededForGood
<1>1. ASSUME StoreInv, [StoreNext]_storeVars, NEW s \in Scan, NEW h \in held,
             rows[s].status = "running", rows[s].token # h.token
      PROVE  rows'[s].token # h.token
  <2>0. h.token \in Token /\ h.token # None /\ rows[s] \in Row
    BY <1>1, RowsAssumption DEF StoreInv, StoreTypeOK
  <2>1. CASE UNCHANGED rows
    BY <1>1, <2>1
  <2>2. ASSUME NEW t \in Scan, Writes(t) PROVE rows'[s].token # h.token
    <3>1. PICK r \in Row : Change(t, r) /\ rows' = [rows EXCEPT ![t] = r]
      BY <2>2 DEF Writes
    <3>2. /\ rows'[t] = r
          /\ t # s => rows'[s] = rows[s]
      BY <1>1, <3>1 DEF StoreInv, StoreTypeOK
    <3>3. CASE t # s
      BY <1>1, <3>2, <3>3
    <3>4. CASE t = s
      <4>1. Change(s, r)
        BY <3>1, <3>4
      <4>2. CASE \E tok \in Token \ Spent, n \in Nat :
                   r = Claimed(rows[s], tok, BaselineFor(s), n)
        <5>1. h.token \in Spent
          BY DEF Spent
        <5> QED
          BY <3>2, <3>4, <4>2, <5>1 DEF Claimed
      <4>3. CASE \E q \in 0..FullProgress, n \in Nat :
                   r = [rows[s] EXCEPT !.progress = q, !.updatedAt = n]
        BY <1>1, <2>0, <3>2, <3>4, <4>3 DEF Row
      <4>4. CASE \E b \in BOOLEAN : r = [rows[s] EXCEPT !.lapsed = b]
        BY <1>1, <2>0, <3>2, <3>4, <4>4 DEF Row
      <4>5. CASE \E c, n \in Nat : \/ r = Completed(rows[s], rows[s].baseline, c, n)
                                  \/ r = Failed(rows[s], n)
        BY <2>0, <3>2, <3>4, <4>5 DEF Completed, Failed
      <4> QED
        BY <1>1, <4>1, <4>2, <4>3, <4>4, <4>5 DEF Change
    <3> QED
      BY <3>3, <3>4
  <2> QED
    BY <2>1, <2>2, StepWritesOneRow, <1>1 DEF StoreInv
<1>2. StoreInv /\ [StoreNext]_storeVars
        => [\A s \in Scan, h \in held :
              rows[s].status = "running" /\ rows[s].token # h.token
                => rows'[s].token # h.token]_storeVars
  BY <1>1
<1> QED
  BY <1>2, Safety, PTL DEF StoreSpec, SupersededForGood

-----------------------------------------------------------------------------
(***************************************************************************)
(* The pinned baseline.  While a scan is active nobody else of its         *)
(* repository is, so no result can be added to those that precede it;      *)
(* after it ended, whoever completes next was claimed later, and took its  *)
(* completion time after that.                                             *)
(***************************************************************************)

\* What may happen to row s in one step, as far as its baseline and its times go.
Timely(s) ==
  /\ rows[s].status # "absent" => rows'[s].createdAt = rows[s].createdAt
  /\ rows[s].status = "absent" =>
       \/ rows'[s] = rows[s]
       \/ /\ ~RepositoryBusy(s) /\ rows'[s] = Queued(asked[s])
          /\ asked[s] # 0 /\ asked' = asked
  /\ rows'[s].status = "running" =>
       \/ Claimable(s) /\ rows'[s].token \notin Spent /\ rows'[s].baseline = BaselineFor(s)
       \/ /\ rows[s].status = "running"
          /\ rows'[s].token = rows[s].token /\ rows'[s].baseline = rows[s].baseline
  /\ rows'[s].status = "completed" =>
       \/ rows'[s] = rows[s]
       \/ /\ rows[s].status = "running" /\ rows'[s].baseline = rows[s].baseline
          /\ \E h \in held : /\ h.token = rows[s].token
                            /\ rows'[s].completedAt \in Reading(h)
                            /\ rows'[s].updatedAt \in Reading(h)
  /\ rows'[s].status \in {"absent", "queued"} =>
       rows'[s] = rows[s] \/ rows[s].status = "absent"
  /\ rows'[s].status = "failed" =>
       \/ rows'[s] = rows[s]
       \/ rows[s].status = "queued" /\ rows'[s].updatedAt \in asked[s]..clock
       \/ /\ rows[s].status = "running"
          /\ \E h \in held : h.token = rows[s].token /\ rows'[s].updatedAt \in Reading(h)

\* No operation writes a time that has not come.
LEMMA StepIsTimely ==
  ASSUME StoreTypeOK, [StoreNext]_storeVars, NEW s \in Scan PROVE Timely(s)
<1>0. rows \in [Scan -> Row] /\ rows[s] \in Row
  BY DEF StoreTypeOK
<1>1. ASSUME rows'[s] = rows[s] PROVE Timely(s)
  BY <1>1 DEF Timely
<1>2. ASSUME NEW t \in Scan, NEW r, rows' = [rows EXCEPT ![t] = r], t # s PROVE Timely(s)
  BY <1>0, <1>1, <1>2
<1>3. ASSUME NEW t \in Scan, Create(t) PROVE Timely(s)
  <2>1. rows' = [rows EXCEPT ![t] = Queued(asked[t])]
    BY <1>3 DEF Create, InsertRow
  <2>2. CASE t = s
    BY <1>0, <1>3, <2>1, <2>2 DEF Create, InsertRow, Queued, Timely
  <2> QED
    BY <1>2, <2>1, <2>2
<1>4. ASSUME NEW t \in Scan, NEW n, rows' = [rows EXCEPT ![t] = Failed(@, n)],
             \/ rows[t].status = "queued" /\ n \in asked[t]..clock
             \/ /\ rows[t].status = "running"
                /\ \E h \in held : h.token = rows[t].token /\ n \in Reading(h)
      PROVE  Timely(s)
  <2>1. CASE t = s
    BY <1>0, <1>4, <2>1 DEF Failed, Timely
  <2> QED
    BY <1>2, <1>4, <2>1
<1>5. ASSUME NEW t \in Scan, NEW b \in BOOLEAN, rows[t].status = "running",
             rows' = [rows EXCEPT ![t] = [@ EXCEPT !.lapsed = b]]
      PROVE  Timely(s)
  <2>1. CASE t = s
    <3>1. rows'[s] = [rows[s] EXCEPT !.lapsed = b]
      BY <1>0, <1>5, <2>1
    <3> QED
      BY <1>0, <1>5, <2>1, <3>1 DEF Row, Timely
  <2> QED
    BY <1>2, <1>5, <2>1
<1>6. ASSUME NEW t \in Scan, NEW tok \in Token, Claim(t, tok) PROVE Timely(s)
  <2>1. PICK claimedAt \in 0..clock : ClaimRow(t, tok, claimedAt)
    BY <1>6 DEF Claim
  <2>2. rows' = [rows EXCEPT ![t] = Claimed(rows[t], tok, BaselineFor(t), claimedAt)]
    BY <2>1 DEF ClaimRow
  <2>3. CASE t = s
    BY <1>0, <1>6, <2>1, <2>2, <2>3 DEF Claim, ClaimRow, Claimable, Claimed, Timely
  <2> QED
    BY <1>2, <2>2, <2>3
<1>7. ASSUME NEW t \in Scan, NEW h \in held, Update(t, h) PROVE Timely(s)
  <2>1. PICK p \in 0..FullProgress, n \in Reading(h) : UpdateRow(t, h.token, p, n)
    BY <1>7 DEF Update
  <2>2. CASE t = s
    <3>1. rows'[s] = [rows[s] EXCEPT !.progress = IF p > @ THEN p ELSE @, !.updatedAt = n]
      BY <1>0, <2>1, <2>2 DEF UpdateRow, Updated
    <3>2. /\ rows'[s].status = "running" /\ rows[s].status = "running"
          /\ rows'[s].token = rows[s].token /\ rows'[s].baseline = rows[s].baseline
          /\ rows'[s].createdAt = rows[s].createdAt
      BY <1>0, <2>1, <2>2, <3>1 DEF UpdateRow, Holds, Row
    <3> QED
      BY <3>2 DEF Timely
  <2> QED
    BY <1>2, <2>1, <2>2 DEF UpdateRow
<1>8. ASSUME NEW t \in Scan, NEW h \in held, Complete(t, h) PROVE Timely(s)
  <2>1. PICK p \in Scan \cup {None}, c \in Reading(h), n \in Reading(h) :
          CompleteRow(t, h.token, p, c, n)
    BY <1>8 DEF Complete
  <2>2. CASE t = s
    BY <1>0, <2>1, <2>2 DEF CompleteRow, Completable, Holds, Completed, Timely
  <2> QED
    BY <1>2, <2>1, <2>2 DEF CompleteRow
<1>9. ASSUME NEW t \in Scan, FailUnclaimed(t) PROVE Timely(s)
  <2>1. PICK n \in asked[t]..clock : FailUnclaimedRow(t, n)
    BY <1>9 DEF FailUnclaimed
  <2>2. rows[t].status = "queued" /\ rows' = [rows EXCEPT ![t] = Failed(@, n)]
    BY <2>1 DEF FailUnclaimedRow
  <2> QED
    BY <1>4, <2>1, <2>2
<1>10. ASSUME NEW t \in Scan, NEW h \in held, Fail(t, h) PROVE Timely(s)
  <2>1. PICK n \in Reading(h) : FailRow(t, h.token, n)
    BY <1>10 DEF Fail
  <2>2. /\ rows[t].status = "running" /\ rows[t].token = h.token
        /\ rows' = [rows EXCEPT ![t] = Failed(@, n)]
    BY <2>1 DEF FailRow, Holds
  <2> QED
    BY <1>4, <2>1, <2>2
<1>11. ASSUME NEW t \in Scan, NEW h \in held, Renew(t, h) PROVE Timely(s)
  BY <1>5, <1>11 DEF Renew, RenewRow, Holds
<1>12. ASSUME NEW t \in Scan, Lapse(t) PROVE Timely(s)
  BY <1>5, <1>12 DEF Lapse, LapseRow
<1> QED
  BY <1>1, <1>3, <1>6, <1>7, <1>8, <1>9, <1>10, <1>11, <1>12
     DEF StoreNext, AskCreate, Drop, storeVars

\* Nobody has read a time that is not yet.
TimesHavePassed ==
  \A s \in Scan : asked[s] <= clock /\ rows[s].createdAt <= clock

\* Whoever holds a lease got it after every scan of the repository was created.
LeasesAreYounger ==
  \A q, s \in Scan : \A h \in held :
    /\ rows[q].status = "running" /\ rows[q].token = h.token
    /\ rows[s].status # "absent" /\ RepoOf[s] = RepoOf[q]
    => rows[s].createdAt <= h.since

BaselineInv ==
  /\ StoreInv
  /\ TimesHavePassed
  /\ LeasesAreYounger
  /\ BaselineIsNewestPrevious

\* The empty store has no baselines.
LEMMA BaselineInit == StoreInit => BaselineInv
<1> SUFFICES ASSUME StoreInit PROVE BaselineInv
  OBVIOUS
<1>1. \A s \in Scan : rows[s] = NoRow /\ asked[s] = 0 /\ clock = 0 /\ held = {}
  BY DEF StoreInit, RowsInit
<1>2. TimesHavePassed /\ LeasesAreYounger /\ BaselineIsNewestPrevious
  BY <1>1 DEF TimesHavePassed, LeasesAreYounger, BaselineIsNewestPrevious, NoRow
<1> QED
  BY <1>2, SafetyInit DEF BaselineInv

\* What a step does to the clock and to the claims that callers hold.
LEMMA StepTells ==
  ASSUME StoreTypeOK, [StoreNext]_storeVars
  PROVE  /\ clock <= clock'
         /\ \A s \in Scan : asked'[s] = asked[s] \/ asked'[s] <= clock'
         /\ \A h \in held' : h \in held \/ (h.since = clock /\ clock' = clock)
<1>1. clock \in Nat /\ asked \in [Scan -> Nat]
  BY DEF StoreTypeOK
<1>2. CASE \E s \in Scan : AskCreate(s)
  BY <1>1, <1>2 DEF AskCreate
<1>3. CASE \E s \in Scan, tok \in Token : Claim(s, tok)
  BY <1>1, <1>3 DEF Claim
<1>4. CASE UNCHANGED <<clock, asked>> /\ held' \in SUBSET held
  BY <1>1, <1>4
<1> QED
  BY <1>2, <1>3, <1>4
     DEF StoreNext, Create, FailUnclaimed, Lapse, Update, Complete, Fail, Renew, Drop, storeVars

\* Times in the past stay in the past.
LEMMA TimesPass ==
  ASSUME BaselineInv, [StoreNext]_storeVars PROVE TimesHavePassed'
<1> SUFFICES ASSUME NEW s \in Scan PROVE asked'[s] <= clock' /\ rows'[s].createdAt <= clock'
  BY DEF TimesHavePassed
<1>1. /\ asked[s] <= clock /\ rows[s].createdAt <= clock /\ clock <= clock'
      /\ asked[s] \in Nat /\ rows[s].createdAt \in Nat /\ clock \in Nat /\ clock' \in Nat
  BY StepTells, TypeNext DEF BaselineInv, TimesHavePassed, StoreInv, StoreTypeOK, Row
<1>2. asked'[s] <= clock'
  BY <1>1, StepTells DEF BaselineInv, StoreInv
<1>3. rows'[s].createdAt = rows[s].createdAt \/ rows'[s].createdAt = asked[s]
  <2>1. Timely(s)
    BY StepIsTimely DEF BaselineInv, StoreInv
  <2>2. Queued(asked[s]).createdAt = asked[s]
    BY DEF Queued
  <2> QED
    BY <2>1, <2>2 DEF Timely
<1> QED
  BY <1>1, <1>2, <1>3

\* A lease is never older than the clock it was read from.
LEMMA LeasesStayYounger ==
  ASSUME BaselineInv, [StoreNext]_storeVars PROVE LeasesAreYounger'
<1> SUFFICES ASSUME NEW q \in Scan, NEW s \in Scan, NEW h \in held',
                    rows'[q].status = "running", rows'[q].token = h.token,
                    rows'[s].status # "absent", RepoOf[s] = RepoOf[q]
             PROVE  rows'[s].createdAt <= h.since
  BY DEF LeasesAreYounger
<1>0. Timely(q) /\ Timely(s)
  BY StepIsTimely DEF BaselineInv, StoreInv
<1>1. CASE h \in held
  <2>1. h.token \in Spent
    BY <1>1 DEF Spent
  <2>2. rows[q].status = "running" /\ rows[q].token = h.token
    BY <1>0, <2>1 DEF Timely
  <2>3. RepositoryBusy(s)
    BY <2>2 DEF RepositoryBusy, IsActive, Active
  <2>4. rows[s].status # "absent"
    BY <1>0, <2>3 DEF Timely
  <2>5. rows'[s].createdAt = rows[s].createdAt
    BY <1>0, <2>4 DEF Timely
  <2> QED
    BY <1>1, <2>2, <2>4, <2>5 DEF BaselineInv, LeasesAreYounger
<1>2. CASE h.since = clock /\ clock' = clock
  BY <1>2, TimesPass DEF TimesHavePassed
<1> QED
  BY <1>1, <1>2, StepTells DEF BaselineInv, StoreInv

\* No result is added to those that precede a scan once it runs or has completed.
LEMMA PreviousIsKept ==
  ASSUME BaselineInv, [StoreNext]_storeVars, NEW s \in Scan,
         rows'[s].status \in {"running", "completed"}
  PROVE  FindPreviousResult(s)' = FindPreviousResult(s)
<1>0. /\ \A p \in Scan : Timely(p)
      /\ OneActivePerRepository /\ OneActivePerRepository'
      /\ rows \in [Scan -> Row] /\ clock \in Nat
  BY StepIsTimely, SafetyNext DEF BaselineInv, StoreInv, StoreTypeOK
<1>1. rows[s].status # "absent"
  BY <1>0 DEF Timely, Queued, Claimable
<1>2. rows'[s].createdAt = rows[s].createdAt
  BY <1>0, <1>1 DEF Timely
<1>3. ASSUME NEW p \in Scan \ {s}, rows[p].status = "completed" PROVE rows'[p] = rows[p]
  BY <1>3, StepKeeps DEF BaselineInv, Terminal
<1>4. ASSUME NEW p \in Scan \ {s}, p \in Previous(s)' PROVE rows'[p] = rows[p]
  <2>1. /\ rows'[p].status = "completed" /\ RepoOf[p] = RepoOf[s]
        /\ rows'[p].completedAt < rows[s].createdAt
    BY <1>2, <1>4 DEF Previous
  <2>2. SUFFICES ASSUME rows'[p] # rows[p] PROVE FALSE
    OBVIOUS
  <2>3. PICK h \in held : /\ h.token = rows[p].token /\ rows'[p].completedAt \in Reading(h)
                          /\ rows[p].status = "running"
    BY <1>0, <2>1, <2>2 DEF Timely
  <2>4. rows[s].createdAt <= h.since
    BY <1>1, <2>1, <2>3 DEF BaselineInv, LeasesAreYounger
  <2>5. h.since \in Nat /\ rows[s].createdAt \in Nat
    BY <1>0 DEF BaselineInv, StoreInv, StoreTypeOK, Row
  <2> QED
    BY <1>0, <2>1, <2>3, <2>4, <2>5 DEF Reading
<1>5. ASSUME NEW p \in Scan PROVE p \in Previous(s)' <=> p \in Previous(s)
  BY <1>2, <1>3, <1>4 DEF Previous
<1>6. Previous(s)' = Previous(s)
  BY <1>5 DEF Previous
<1>7. \A p \in Previous(s) : rows'[p] = rows[p]
  BY <1>3 DEF Previous
<1>8. Newest(Previous(s))' = Newest(Previous(s))
  BY <1>6, <1>7 DEF Newest
<1> QED
  BY <1>8 DEF FindPreviousResult

\* Every operation keeps the baselines.
LEMMA BaselineNext == BaselineInv /\ [StoreNext]_storeVars => BaselineInv'
<1> SUFFICES ASSUME BaselineInv, [StoreNext]_storeVars PROVE BaselineInv'
  OBVIOUS
<1>1. ASSUME NEW s \in Scan, rows'[s].status \in {"running", "completed"}
      PROVE  rows'[s].baseline = FindPreviousResult(s)'
  <2>1. Timely(s)
    BY StepIsTimely DEF BaselineInv, StoreInv
  <2>2. rows[s].status \in {"running", "completed"} => rows[s].baseline = FindPreviousResult(s)
    BY DEF BaselineInv, BaselineIsNewestPrevious
  <2>3. rows[s].status = "queued" => rows[s].baseline = None
    BY DEF BaselineInv, StoreInv, ColumnsAgree
  <2>4. Claimable(s) => BaselineFor(s) = FindPreviousResult(s)
    BY <2>2, <2>3 DEF Claimable, BaselineFor
  <2>5. rows'[s].baseline = FindPreviousResult(s)
    BY <1>1, <2>1, <2>2, <2>4 DEF Timely
  <2> QED
    BY <1>1, <2>5, PreviousIsKept
<1>2. BaselineIsNewestPrevious'
  BY <1>1 DEF BaselineIsNewestPrevious
<1> QED
  BY <1>2, TimesPass, LeasesStayYounger, SafetyNext DEF BaselineInv

\* From its first claim on, through any number of takeovers, every scan is compared
\* with the newest result of its repository that was there when it was created.
THEOREM BaselineIsKept == StoreSpec => []BaselineIsNewestPrevious
<1>1. BaselineInv => BaselineIsNewestPrevious
  BY DEF BaselineInv
<1>2. StoreSpec => []BaselineInv
  BY BaselineInit, BaselineNext, PTL DEF StoreSpec
<1> QED
  BY <1>1, <1>2, PTL

-----------------------------------------------------------------------------
(***************************************************************************)
(* What a row says when it is read.  Its outcome is stamped with a time    *)
(* read after the last claim, and a claim is younger than the scan.        *)
(***************************************************************************)

\* A stored scan was created when its caller read the clock.
CreatedWhenAsked ==
  \A s \in Scan :
    rows[s].status # "absent" => asked[s] # 0 /\ rows[s].createdAt = asked[s]

CoherentInv ==
  /\ BaselineInv
  /\ CreatedWhenAsked
  /\ TimesInOrder

\* The empty store tells no times.
LEMMA CoherentInit == StoreInit => CoherentInv
<1> SUFFICES ASSUME StoreInit PROVE CoherentInv
  OBVIOUS
<1>1. \A s \in Scan : rows[s] = NoRow
  BY DEF StoreInit, RowsInit
<1>2. CreatedWhenAsked /\ TimesInOrder
  BY <1>1 DEF CreatedWhenAsked, TimesInOrder, NoRow
<1> QED
  BY <1>2, BaselineInit DEF CoherentInv

\* The time a caller read for its scan is not read again.
LEMMA AskedOnce ==
  ASSUME StoreTypeOK, [StoreNext]_storeVars, NEW s \in Scan, asked[s] # 0
  PROVE  asked'[s] = asked[s]
<1>1. ASSUME NEW t \in Scan, AskCreate(t) PROVE asked'[s] = asked[s]
  BY <1>1 DEF AskCreate, StoreTypeOK
<1> QED
  BY <1>1 DEF StoreNext, Create, FailUnclaimed, Lapse, Claim, Update, Complete, Fail,
              Renew, Drop, storeVars

\* Every operation keeps the creation times.
LEMMA CreationNext ==
  ASSUME CoherentInv, [StoreNext]_storeVars PROVE CreatedWhenAsked'
<1> SUFFICES ASSUME NEW s \in Scan, rows'[s].status # "absent"
             PROVE  asked'[s] # 0 /\ rows'[s].createdAt = asked'[s]
  BY DEF CreatedWhenAsked
<1>0. StoreTypeOK
  BY DEF CoherentInv, BaselineInv, StoreInv
<1>1. Timely(s)
  BY <1>0, StepIsTimely
<1>2. CASE rows[s].status = "absent"
  <2>1. rows'[s] = Queued(asked[s]) /\ asked[s] # 0 /\ asked' = asked
    BY <1>1, <1>2 DEF Timely
  <2> QED
    BY <2>1 DEF Queued
<1>3. CASE rows[s].status # "absent"
  <2>1. asked[s] # 0 /\ rows[s].createdAt = asked[s]
    BY <1>3 DEF CoherentInv, CreatedWhenAsked
  <2>2. rows'[s].createdAt = rows[s].createdAt
    BY <1>1, <1>3 DEF Timely
  <2> QED
    BY <1>0, <2>1, <2>2, AskedOnce
<1> QED
  BY <1>2, <1>3

\* What the holder of a running row reads is no earlier than the row's creation.
LEMMA HolderIsLater ==
  ASSUME CoherentInv, NEW s \in Scan, NEW h \in held, NEW t \in Reading(h),
         rows[s].status = "running", h.token = rows[s].token
  PROVE  rows[s].createdAt <= t
<1>1. rows[s].createdAt <= h.since
  BY DEF CoherentInv, BaselineInv, LeasesAreYounger
<1>2. rows[s].createdAt \in Nat /\ h.since \in Nat /\ clock \in Nat
  BY DEF CoherentInv, BaselineInv, StoreInv, StoreTypeOK, Row
<1> QED
  BY <1>1, <1>2 DEF Reading

\* Every operation keeps the times of a row in order.
LEMMA TimesNext ==
  ASSUME CoherentInv, [StoreNext]_storeVars PROVE TimesInOrder'
<1> SUFFICES ASSUME NEW s \in Scan
             PROVE  /\ rows'[s].status # "running" => rows'[s].createdAt <= rows'[s].updatedAt
                    /\ rows'[s].status = "completed" => rows'[s].createdAt <= rows'[s].completedAt
  BY DEF TimesInOrder
<1>0. StoreTypeOK /\ rows[s] \in Row /\ rows'[s] \in Row
  BY TypeNext DEF CoherentInv, BaselineInv, StoreInv, StoreTypeOK
<1>1. Timely(s)
  BY <1>0, StepIsTimely
<1>2. CASE rows'[s] = rows[s]
  BY <1>2 DEF CoherentInv, TimesInOrder
<1>3. CASE rows[s].status = "absent" /\ rows'[s] = Queued(asked[s])
  <2>1. asked[s] \in Nat
    BY <1>0 DEF StoreTypeOK
  <2> QED
    BY <1>3, <2>1 DEF Queued
<1>4. CASE rows[s].status = "queued" /\ rows'[s].status = "failed"
  <2>1. CASE rows'[s] = rows[s]
    BY <1>2, <2>1
  <2>2. CASE rows'[s].updatedAt \in asked[s]..clock
    <3>1. rows'[s].createdAt = asked[s]
      BY <1>1, <1>4 DEF Timely, CoherentInv, CreatedWhenAsked
    <3>2. asked[s] <= rows'[s].updatedAt
      BY <2>2
    <3> QED
      BY <1>4, <3>1, <3>2
  <2> QED
    BY <1>1, <1>4, <2>1, <2>2 DEF Timely
<1>5. CASE rows[s].status = "running" /\ rows'[s].status \in {"failed", "completed"}
  <2>1. rows'[s].createdAt = rows[s].createdAt
    BY <1>1, <1>5 DEF Timely
  <2>2. PICK h \in held :
          /\ h.token = rows[s].token
          /\ rows'[s].updatedAt \in Reading(h)
          /\ rows'[s].status = "completed" => rows'[s].completedAt \in Reading(h)
    BY <1>1, <1>5 DEF Timely
  <2> QED
    BY <1>5, <2>1, <2>2, HolderIsLater
<1>6. CASE rows'[s].status = "running"
  BY <1>6
<1>7. rows'[s].status \in {"absent", "queued", "running", "failed", "completed"}
  BY <1>0 DEF Row, Active, Terminal
<1>8. CASE rows'[s].status \in {"absent", "queued"}
  BY <1>1, <1>2, <1>3, <1>8 DEF Timely
<1>9. CASE rows'[s].status \in {"failed", "completed"}
  BY <1>1, <1>2, <1>4, <1>5, <1>9 DEF Timely, Queued
<1> QED
  BY <1>6, <1>7, <1>8, <1>9

\* Every operation keeps what a row tells.
LEMMA CoherentNext == CoherentInv /\ [StoreNext]_storeVars => CoherentInv'
  BY BaselineNext, CreationNext, TimesNext DEF CoherentInv

\* Whoever writes a row, and however late, it keeps the shape the row validation
\* demands of the modelled columns; a running row may only look older than its
\* creation (the run row_decode).
THEOREM Coherent == StoreSpec => []RowsStayCoherent
<1>1. CoherentInv => RowsStayCoherent
  BY DEF CoherentInv, BaselineInv, StoreInv, RowsStayCoherent
<1>2. StoreSpec => []CoherentInv
  BY CoherentInit, CoherentNext, PTL DEF StoreSpec
<1> QED
  BY <1>1, <1>2, PTL

-----------------------------------------------------------------------------
(***************************************************************************)
(* The store implements RepositorySlots: accepting a scan opens its slot, its  *)
(* outcome closes it, every other transaction is a stutter.                *)
(***************************************************************************)

Repositories == {RepoOf[s] : s \in Scan}
SlotMap == [r \in Repositories |-> SlotOf(r)]
OutcomeMap == [s \in Scan |-> OutcomeOf(s)]

\* The occupant of a slot is the active scan of the repository, if it has one.
LEMMA SlotOccupant ==
  ASSUME OneActivePerRepository, NEW s \in Scan
  PROVE  /\ IsActive(s) => SlotOf(RepoOf[s]) = s
         /\ ~RepositoryBusy(s) => SlotOf(RepoOf[s]) = None
<1>1. ASSUME IsActive(s) PROVE SlotOf(RepoOf[s]) = s
  <2>1. \A t \in Scan : IsActive(t) /\ RepoOf[t] = RepoOf[s] => t = s
    BY <1>1 DEF OneActivePerRepository
  <2> QED
    BY <1>1, <2>1 DEF SlotOf
<1>2. ASSUME ~RepositoryBusy(s) PROVE SlotOf(RepoOf[s]) = None
  BY <1>2 DEF SlotOf, RepositoryBusy
<1> QED
  BY <1>1, <1>2

\* The same after a step.
LEMMA SlotOccupantNext ==
  ASSUME OneActivePerRepository', NEW s \in Scan
  PROVE  /\ IsActive(s)' => SlotOf(RepoOf[s])' = s
         /\ ~RepositoryBusy(s)' => SlotOf(RepoOf[s])' = None
<1>1. ASSUME IsActive(s)' PROVE SlotOf(RepoOf[s])' = s
  <2>1. \A t \in Scan : IsActive(t)' /\ RepoOf[t] = RepoOf[s] => t = s
    BY <1>1 DEF OneActivePerRepository
  <2> QED
    BY <1>1, <2>1 DEF SlotOf
<1>2. ASSUME ~RepositoryBusy(s)' PROVE SlotOf(RepoOf[s])' = None
  BY <1>2 DEF SlotOf, RepositoryBusy
<1> QED
  BY <1>1, <1>2

\* A repository whose scans all stay active, or all inactive, keeps its occupant.
LEMMA SlotUntouched ==
  ASSUME NEW r, OneActivePerRepository, OneActivePerRepository',
         \A t \in Scan : RepoOf[t] = r => (IsActive(t) <=> IsActive(t)')
  PROVE  SlotOf(r)' = SlotOf(r)
<1>1. CASE \E t \in Scan : IsActive(t) /\ RepoOf[t] = r
  <2>1. PICK t \in Scan : IsActive(t) /\ RepoOf[t] = r
    BY <1>1
  <2>2. SlotOf(r) = t
    BY <2>1, SlotOccupant
  <2>3. SlotOf(r)' = t
    BY <2>1, SlotOccupantNext
  <2> QED
    BY <2>2, <2>3
<1>2. CASE ~ \E t \in Scan : IsActive(t) /\ RepoOf[t] = r
  <2>1. SlotOf(r) = None
    BY <1>2 DEF SlotOf
  <2>2. SlotOf(r)' = None
    BY <1>2 DEF SlotOf
  <2> QED
    BY <2>1, <2>2
<1> QED
  BY <1>1, <1>2

\* The empty store maps to free slots.
LEMMA SlotsInit == StoreInit => Slots!SlotInit
<1> SUFFICES ASSUME StoreInit PROVE Slots!SlotInit
  OBVIOUS
<1>1. \A s \in Scan : ~IsActive(s) /\ OutcomeOf(s) = "absent"
  BY DEF StoreInit, RowsInit, NoRow, IsActive, Active, OutcomeOf
<1>2. \A r \in Repositories : SlotOf(r) = None
  BY <1>1 DEF SlotOf
<1> QED
  BY <1>1, <1>2 DEF Slots!SlotInit, Slots!Repository, Repositories

\* How a write to row s looks through the mapping.
LEMMA MappedWrite ==
  ASSUME StoreInv, StoreInv', NEW s \in Scan, NEW r \in Row,
         Change(s, r), rows' = [rows EXCEPT ![s] = r]
  PROVE  \/ Slots!Open(s)
         \/ Slots!Close(s, "completed")
         \/ Slots!Close(s, "failed")
         \/ SlotMap' = SlotMap /\ OutcomeMap' = OutcomeMap
<1> USE DEF Active, IsActive, OutcomeOf
<1>0. /\ rows \in [Scan -> Row]
      /\ rows'[s] = r
      /\ \A t \in Scan \ {s} : rows'[t] = rows[t]
      /\ OneActivePerRepository
      /\ OneActivePerRepository'
      /\ RepoOf[s] \in Repositories
  BY DEF StoreInv, StoreTypeOK, Repositories
<1>1. \A q \in Repositories \ {RepoOf[s]} : SlotOf(q)' = SlotOf(q)
  BY <1>0, SlotUntouched
<1>2. CASE rows[s].status = "absent" /\ ~RepositoryBusy(s) /\ r.status = "queued"
  <2>1. SlotOf(RepoOf[s]) = None /\ SlotOf(RepoOf[s])' = s
    BY <1>0, <1>2, SlotOccupant, SlotOccupantNext
  <2>2. SlotMap' = [SlotMap EXCEPT ![RepoOf[s]] = s]
    BY <1>0, <1>1, <2>1 DEF SlotMap
  <2>3. OutcomeMap' = [OutcomeMap EXCEPT ![s] = "open"]
    BY <1>0, <1>2 DEF OutcomeMap
  <2>4. OutcomeMap[s] = "absent" /\ SlotMap[RepoOf[s]] = None
    BY <1>0, <1>2, <2>1 DEF OutcomeMap, SlotMap
  <2>5. Slots!Open(s)
    BY <2>2, <2>3, <2>4 DEF Slots!Open, SlotMap, OutcomeMap, Repositories
  <2> QED
    BY <2>5
<1>3. CASE IsActive(s) /\ r.status \in {"completed", "failed"}
  <2>1. SlotOf(RepoOf[s]) = s
    BY <1>0, <1>3, SlotOccupant
  <2>2. ~RepositoryBusy(s)'
    BY <1>0, <1>3 DEF RepositoryBusy, OneActivePerRepository
  <2>3. SlotOf(RepoOf[s])' = None
    BY <1>0, <2>2, SlotOccupantNext
  <2>4. SlotMap' = [SlotMap EXCEPT ![RepoOf[s]] = None]
    BY <1>0, <1>1, <2>3 DEF SlotMap
  <2>5. OutcomeMap' = [OutcomeMap EXCEPT ![s] = r.status]
    BY <1>0, <1>3 DEF OutcomeMap
  <2>6. SlotMap[RepoOf[s]] = s
    BY <1>0, <2>1 DEF SlotMap
  <2>7. Slots!Close(s, r.status)
    BY <2>4, <2>5, <2>6 DEF Slots!Close, SlotMap, OutcomeMap, Repositories
  <2> QED
    BY <1>3, <2>7
<1>4. CASE IsActive(s) /\ r.status \in Active
  <2>1. \A t \in Scan : IsActive(t) <=> IsActive(t)'
    BY <1>0, <1>4
  <2>2. SlotMap' = SlotMap
    BY <1>0, <2>1, SlotUntouched DEF SlotMap
  <2>3. OutcomeMap' = OutcomeMap
    BY <1>0, <1>4, <2>1 DEF OutcomeMap
  <2> QED
    BY <2>2, <2>3
<1>5. \/ rows[s].status = "absent" /\ ~RepositoryBusy(s) /\ r.status = "queued"
      \/ IsActive(s) /\ r.status \in {"completed", "failed"}
      \/ IsActive(s) /\ r.status \in Active
  <2>1. rows[s] \in Row
    BY <1>0
  <2>2. ASSUME NEW q \in 0..FullProgress, NEW n \in Nat
        PROVE  [rows[s] EXCEPT !.progress = q, !.updatedAt = n].status = rows[s].status
    BY <2>1 DEF Row
  <2>3. ASSUME NEW b \in BOOLEAN
        PROVE  [rows[s] EXCEPT !.lapsed = b].status = rows[s].status
    BY <2>1 DEF Row
  <2>4. CASE rows[s].status = "absent" /\ ~RepositoryBusy(s) /\ \E n \in Nat : r = Queued(n)
    BY <2>4 DEF Queued
  <2>5. CASE /\ Claimable(s)
             /\ \E tok \in Token \ Spent, n \in Nat :
                  r = Claimed(rows[s], tok, BaselineFor(s), n)
    BY <2>5 DEF Claimable, Claimed
  <2>6. CASE /\ rows[s].status = "running"
             /\ \/ \E q \in 0..FullProgress, n \in Nat :
                     r = [rows[s] EXCEPT !.progress = q, !.updatedAt = n]
                \/ \E b \in BOOLEAN : r = [rows[s] EXCEPT !.lapsed = b]
    BY <2>2, <2>3, <2>6
  <2>7. CASE /\ IsActive(s)
             /\ \E c, n \in Nat : \/ r = Completed(rows[s], rows[s].baseline, c, n)
                                  \/ r = Failed(rows[s], n)
    BY <2>7 DEF Completed, Failed
  <2> QED
    BY <2>4, <2>5, <2>6, <2>7 DEF Change
<1> QED
  BY <1>2, <1>3, <1>4, <1>5

\* Every operation is a step of the slots, or none.
LEMMA SlotsNext ==
  StoreInv /\ StoreInv' /\ [StoreNext]_storeVars => [Slots!SlotNext]_(Slots!slotVars)
<1> SUFFICES ASSUME StoreInv, StoreInv', [StoreNext]_storeVars
             PROVE  [Slots!SlotNext]_(Slots!slotVars)
  OBVIOUS
<1>1. CASE UNCHANGED rows
  <2>1. \A t \in Scan : (IsActive(t) <=> IsActive(t)') /\ OutcomeOf(t)' = OutcomeOf(t)
    BY <1>1 DEF IsActive, OutcomeOf
  <2>2. \A r \in Repositories : SlotOf(r)' = SlotOf(r)
    BY <2>1, SlotUntouched DEF StoreInv
  <2> QED
    BY <2>1, <2>2 DEF Slots!slotVars, Repositories
<1>2. ASSUME NEW s \in Scan, Writes(s) PROVE [Slots!SlotNext]_(Slots!slotVars)
  <2>1. PICK r \in Row : Change(s, r) /\ rows' = [rows EXCEPT ![s] = r]
    BY <1>2 DEF Writes
  <2>2. \/ Slots!Open(s)
        \/ Slots!Close(s, "completed")
        \/ Slots!Close(s, "failed")
        \/ SlotMap' = SlotMap /\ OutcomeMap' = OutcomeMap
    BY <2>1, MappedWrite
  <2>3. CASE SlotMap' = SlotMap /\ OutcomeMap' = OutcomeMap
    BY <2>3 DEF Slots!slotVars, SlotMap, OutcomeMap, Repositories
  <2> QED
    BY <2>2, <2>3 DEF Slots!SlotNext
<1> QED
  BY <1>1, <1>2, StepWritesOneRow DEF StoreInv

\* Every behaviour of the store is a behaviour of one slot per repository with one
\* final outcome per scan.
THEOREM Refinement == StoreSpec => ImplementsSlots
  BY SlotsInit, SlotsNext, Safety, PTL DEF StoreSpec, ImplementsSlots, Slots!SlotSpec
=============================================================================
