---------------------------- MODULE ScanRowsProofs ----------------------------
(***************************************************************************)
(* What the transactions on the scans table do to it, for any number of    *)
(* scans, repositories and leases, whoever calls them.  The only           *)
(* assumption is RowsAssumption.                                           *)
(***************************************************************************)
EXTENDS ScanRows, TLAPS

RowsTyped == rows \in [Scan -> Row]

\* The baseline a claim pins is a scan or null.
LEMMA BaselineType ==
  ASSUME NEW s \in Scan, rows \in [Scan -> Row]
  PROVE  BaselineFor(s) \in Scan \cup {None}
<1>1. Newest(Previous(s)) \subseteq Scan
  BY DEF Newest, Previous
<1>2. FindPreviousResult(s) \in Scan \cup {None}
  BY <1>1 DEF FindPreviousResult
<1>3. rows[s].baseline \in Scan \cup {None}
  BY DEF Row
<1> QED
  BY <1>2, <1>3 DEF BaselineFor

\* createScan writes a row.
LEMMA InsertType ==
  ASSUME RowsTyped, NEW s \in Scan, NEW n \in Nat, InsertRow(s, n)
  PROVE  RowsTyped'
<1>1. Queued(n) \in Row
  BY RowsAssumption DEF Queued, Row, Active
<1> QED
  BY <1>1 DEF InsertRow, RowsTyped

\* claimScan and claimNextScan write a row.
LEMMA ClaimType ==
  ASSUME RowsTyped, NEW s \in Scan, NEW tok \in Token, NEW n \in Nat, ClaimRow(s, tok, n)
  PROVE  RowsTyped'
<1>1. BaselineFor(s) \in Scan \cup {None} /\ rows[s] \in Row
  BY BaselineType DEF RowsTyped
<1>2. Claimed(rows[s], tok, BaselineFor(s), n) \in Row
  BY <1>1 DEF Claimed, Row, Active
<1> QED
  BY <1>2 DEF ClaimRow, RowsTyped

\* updateScan writes a row.
LEMMA UpdateType ==
  ASSUME RowsTyped, NEW s \in Scan, NEW tok, NEW p \in 0..FullProgress, NEW n \in Nat,
         UpdateRow(s, tok, p, n)
  PROVE  RowsTyped'
<1> DEFINE q == IF p > rows[s].progress THEN p ELSE rows[s].progress
<1>1. rows[s] \in Row /\ q \in 0..FullProgress
  BY RowsAssumption DEF RowsTyped, Row
<1>2. Updated(rows[s], p, n) = [rows[s] EXCEPT !.progress = q, !.updatedAt = n]
  BY DEF Updated
<1> HIDE DEF q
<1>3. [rows[s] EXCEPT !.progress = q, !.updatedAt = n] \in Row
  BY <1>1 DEF Row
<1> QED
  BY <1>2, <1>3 DEF UpdateRow, RowsTyped

\* completeScan writes a row.
LEMMA CompleteType ==
  ASSUME RowsTyped, NEW s \in Scan, NEW tok, NEW previous, NEW c \in Nat, NEW n \in Nat,
         CompleteRow(s, tok, previous, c, n)
  PROVE  RowsTyped'
<1>1. rows[s] \in Row /\ previous = rows[s].baseline
  BY DEF CompleteRow, Completable, RowsTyped
<1>2. Completed(rows[s], previous, c, n) \in Row
  BY <1>1, RowsAssumption DEF Completed, Row, Terminal
<1> QED
  BY <1>2 DEF CompleteRow, RowsTyped

\* failScanIfActive writes a row.
LEMMA FailType ==
  ASSUME RowsTyped, NEW s \in Scan, NEW tok, NEW n \in Nat, FailRow(s, tok, n)
  PROVE  RowsTyped'
<1>1. rows[s] \in Row
  BY DEF RowsTyped
<1>2. Failed(rows[s], n) \in Row
  BY <1>1, RowsAssumption DEF Failed, Row, Terminal
<1> QED
  BY <1>2 DEF FailRow, RowsTyped

\* A renewal and the passing of an expiry write a row.
LEMMA LeaseType ==
  ASSUME RowsTyped, NEW s \in Scan, NEW tok, RenewRow(s, tok) \/ LapseRow(s)
  PROVE  RowsTyped'
<1>1. rows[s] \in Row
  BY DEF RowsTyped
<1>2. [rows[s] EXCEPT !.lapsed = FALSE] \in Row /\ [rows[s] EXCEPT !.lapsed = TRUE] \in Row
  BY <1>1 DEF Row
<1> QED
  BY <1>2 DEF RenewRow, LapseRow, RowsTyped

-----------------------------------------------------------------------------
\* Only these two transactions give a running scan an outcome, and each asks
\* for the lease of the row it ends.
LEMMA OnlyHoldersSettle ==
  ASSUME RowsTyped, NEW s \in Scan, NEW t \in Scan,
         rows[t].status = "running", rows'[t].status \in Terminal,
         \/ \E n \in Nat : InsertRow(s, n)
         \/ \E tok, n : ClaimRow(s, tok, n)
         \/ \E tok, p, n : UpdateRow(s, tok, p, n)
         \/ \E tok : RenewRow(s, tok)
         \/ LapseRow(s)
  PROVE  FALSE
<1> USE DEF RowsTyped, Terminal
<1>1. rows[t] \in Row /\ rows[s] \in Row
  OBVIOUS
<1>2. ASSUME NEW n \in Nat, InsertRow(s, n) PROVE FALSE
  BY <1>1, <1>2 DEF InsertRow, Queued
<1>3. ASSUME NEW tok, NEW n, ClaimRow(s, tok, n) PROVE FALSE
  BY <1>1, <1>3 DEF ClaimRow, Claimed
<1>4. ASSUME NEW tok, NEW p, NEW n, UpdateRow(s, tok, p, n) PROVE FALSE
  BY <1>1, <1>4 DEF UpdateRow, Updated, Holds, Row
<1>5. ASSUME NEW tok, RenewRow(s, tok) PROVE FALSE
  BY <1>1, <1>5 DEF RenewRow, Holds, Row
<1>6. ASSUME LapseRow(s) PROVE FALSE
  BY <1>1, <1>6 DEF LapseRow, Row
<1> QED
  BY <1>2, <1>3, <1>4, <1>5, <1>6
=============================================================================
